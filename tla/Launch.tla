------------------------------- MODULE Launch -------------------------------
(***************************************************************************)
(* The launch of a kernel: IsaSim::launch and BlockTask of                 *)
(* src/model/Executor.cpp over the thread pool, the CUResource that limits *)
(* the running blocks (src/model/inc/CUResource.h), BlockState's           *)
(* GetBlockState and destroy, and the creation of a block's threads from   *)
(* the kernel's shared cursors (ThreadBlock::createThread).  Checkpointing *)
(* is off.  The execution of the warps of a block (module ThreadBlock) is  *)
(* one step.                                                               *)
(*                                                                         *)
(* m_next_cta and m_next_tid are read and written without a lock; an       *)
(* access to a whole triple is one step here, which leaves out readers     *)
(* that see half of an increment.                                          *)
(***************************************************************************)
EXTENDS Dim3, Sequences, FiniteSets

CONSTANTS
    Workers,       \* workers_: min(2 * cpu_count, block_count) threads
    Grid, Block,   \* m_grid_dim, m_block_dim
    MaxRunning,    \* m_max_cta_per_cu
    FreeSlots,     \* the initial m_free_bar_slots
    BarUsed,       \* m_bar_used of the kernel
    AllocReturns,  \* what allocRunningBlock may return: it has no return
    OpenCL

ASSUME LaunchAssumption ==
    /\ Grid \in [x : Nat, y : Nat, z : Nat]
    /\ Block \in [x : Nat, y : Nat, z : Nat]
    /\ MaxRunning \in Nat \ {0}
    /\ FreeSlots \in Nat /\ BarUsed \in Nat
    /\ AllocReturns \subseteq BOOLEAN
    /\ OpenCL \in BOOLEAN
    /\ IsFiniteSet(Workers) /\ (Count(Grid) > 0 => Workers # {})

VARIABLES
    pending, stop, waiting, wpc, task, opc, added, finished,  \* the pool
    lpc,        \* where launch is
    nextCta,    \* m_next_cta
    nextTid,    \* m_next_tid
    ctaOf,      \* ctaOf[t]: m_cta_id of the BlockState of task t
    running,    \* m_running_block_count
    freeSlots,  \* m_free_bar_slots
    cuWaiting,  \* launch is blocked in scheduler_cv_.wait
    bpc,        \* bpc[w]: where the BlockTask of worker w is
    thread,     \* thread[w]: i of initializeCTA, the next thread to create
    ids,        \* ids[w]: the ids createThread has read for it
    old,        \* old[w]: m_next_tid as increment_thread_id has loaded it
    registered  \* register_finished_kernel has been called

pool == <<pending, stop, waiting, wpc, task, opc, added, finished>>
cursor == <<nextCta, nextTid>>
cu == <<running, freeSlots, cuWaiting>>
local == <<bpc, thread, ids, old>>
vars == <<pool, lpc, cursor, ctaOf, cu, local, registered>>

Pool == INSTANCE ThreadPool WITH NTasks <- Count(Grid)

NoIds == [cta |-> Zero, tid |-> Zero]

Init ==
    /\ Pool!Init
    /\ lpc = "test"
    /\ nextCta = Zero /\ nextTid = Zero
    /\ ctaOf = <<>>
    /\ running = 0 /\ freeSlots = FreeSlots /\ cuWaiting = FALSE
    /\ bpc = [w \in Workers |-> "idle"]
    /\ thread = [w \in Workers |-> 0]
    /\ ids = [w \in Workers |-> NoIds]
    /\ old = [w \in Workers |-> Zero]
    /\ registered = FALSE
-----------------------------------------------------------------------------
(* The loop of launch, one iteration per CTA.                              *)
TestMore ==
    /\ lpc = "test"
    /\ lpc' = IF NoMore(nextCta, Grid) THEN "register" ELSE "alloc"
    /\ UNCHANGED <<pool, cursor, ctaOf, cu, local, registered>>

(* allocRunningBlock: wait for room, count the block.  The bar slots are   *)
(* tested and not taken.  GetBlockState asserts what the call returns.     *)
(* The mutant lets one block more in.                                      *)
MayRunMore == running <= MaxRunning /\ BarUsed < freeSlots

MayRun == running < MaxRunning /\ BarUsed < freeSlots

AllocRunningBlock ==
    /\ lpc = "alloc" \/ (lpc = "wait" /\ ~cuWaiting)
    /\ MayRun
    /\ running' = running + 1
    /\ \E r \in AllocReturns : lpc' = IF r THEN "task" ELSE "aborted"
    /\ UNCHANGED <<pool, cursor, ctaOf, freeSlots, cuWaiting, local, registered>>

WaitForRoom ==
    /\ lpc = "alloc" \/ (lpc = "wait" /\ ~cuWaiting)
    /\ ~MayRun
    /\ cuWaiting' = TRUE
    /\ lpc' = "wait"
    /\ UNCHANGED <<pool, cursor, ctaOf, running, freeSlots, local, registered>>

SpuriousRoom ==
    /\ cuWaiting
    /\ cuWaiting' = FALSE
    /\ UNCHANGED <<pool, lpc, cursor, ctaOf, running, freeSlots, local, registered>>

(* BlockState::init with the CTA id read at the top of the iteration, new  *)
(* ThreadBlock, addTask.                                                   *)
AddTask ==
    /\ lpc = "task"
    /\ Pool!Push
    /\ ctaOf' = Append(ctaOf, nextCta)
    /\ lpc' = "notify"
    /\ UNCHANGED <<cursor, cu, local, registered>>

NotifyTask ==
    /\ lpc = "notify"
    /\ Pool!NotifyOne
    /\ lpc' = "increment"
    /\ UNCHANGED <<cursor, ctaOf, cu, local, registered>>

(* increment_cta_id.                                                       *)
IncrementCta ==
    /\ lpc = "increment"
    /\ nextCta' = Increment(nextCta, Grid)
    /\ lpc' = "resetTid"
    /\ UNCHANGED <<pool, nextTid, ctaOf, cu, local, registered>>

ResetTid ==
    /\ lpc = "resetTid"
    /\ nextTid' = Zero
    /\ lpc' = "test"
    /\ UNCHANGED <<pool, nextCta, ctaOf, cu, local, registered>>

(* register_finished_kernel; the destructor of the pool runs after it.     *)
Register ==
    /\ lpc = "register"
    /\ registered' = ~OpenCL
    /\ lpc' = "destroy"
    /\ UNCHANGED <<pool, cursor, ctaOf, cu, local>>

(* Mutant: the destructor stops the pool without joining the workers.      *)
DestroyNoJoin ==
    /\ lpc = "destroy"
    /\ opc' = "done" /\ stop' = TRUE
    /\ lpc' = "returned"
    /\ UNCHANGED <<pending, waiting, wpc, task, added, finished>>
    /\ UNCHANGED <<cursor, ctaOf, cu, local, registered>>

Destroy ==
    /\ lpc = "destroy"
    /\ Pool!Stop \/ Pool!NotifyAll \/ Pool!Join
    /\ lpc' = IF opc' = "done" THEN "returned" ELSE "destroy"
    /\ UNCHANGED <<cursor, ctaOf, cu, local, registered>>
-----------------------------------------------------------------------------
(* A worker outside a task.                                                *)
PoolStep(w) ==
    /\ Pool!TestStop(w) \/ Pool!TestPending(w) \/ Pool!Wait(w) \/ Pool!TakeNone(w)
    /\ UNCHANGED <<lpc, cursor, ctaOf, cu, local, registered>>

PoolSpurious(w) ==
    /\ Pool!SpuriousWake(w)
    /\ UNCHANGED <<lpc, cursor, ctaOf, cu, local, registered>>

(* BlockTask: initializeCTA creates the threads of the block one by one.   *)
BeginTask(w) ==
    /\ Pool!Take(w)
    /\ bpc' = [bpc EXCEPT ![w] = IF Count(Block) > 0 THEN "read" ELSE "execute"]
    /\ thread' = [thread EXCEPT ![w] = 0]
    /\ UNCHANGED <<lpc, cursor, ctaOf, cu, ids, old, registered>>

(* createThread reads the shared cursors, then increments m_next_tid.      *)
ReadIds(w) ==
    /\ bpc[w] = "read"
    /\ ids' = [ids EXCEPT ![w] = [cta |-> nextCta, tid |-> nextTid]]
    /\ bpc' = [bpc EXCEPT ![w] = "load"]
    /\ UNCHANGED <<pool, lpc, cursor, ctaOf, cu, thread, old, registered>>

LoadTid(w) ==
    /\ bpc[w] = "load"
    /\ old' = [old EXCEPT ![w] = nextTid]
    /\ bpc' = [bpc EXCEPT ![w] = "store"]
    /\ UNCHANGED <<pool, lpc, cursor, ctaOf, cu, thread, ids, registered>>

StoreTid(w) ==
    /\ bpc[w] = "store"
    /\ nextTid' = Increment(old[w], Block)
    /\ thread' = [thread EXCEPT ![w] = thread[w] + 1]
    /\ bpc' = [bpc EXCEPT ![w] = IF thread[w] + 1 < Count(Block) THEN "read" ELSE "execute"]
    /\ UNCHANGED <<pool, lpc, nextCta, ctaOf, cu, ids, old, registered>>

(* The rest of execute().                                                  *)
Execute(w) ==
    /\ bpc[w] = "execute"
    /\ bpc' = [bpc EXCEPT ![w] = "freeBar"]
    /\ UNCHANGED <<pool, lpc, cursor, ctaOf, cu, thread, ids, old, registered>>

(* BlockState::destroy: freeBarSlot, which does not notify, then           *)
(* freeRunningBlock.                                                       *)
FreeBarSlot(w) ==
    /\ bpc[w] = "freeBar"
    /\ freeSlots' = freeSlots + BarUsed
    /\ bpc' = [bpc EXCEPT ![w] = "freeRunning"]
    /\ UNCHANGED <<pool, lpc, cursor, ctaOf, running, cuWaiting, thread, ids, old, registered>>

(* Mutant: nobody is notified of the room.                                 *)
FreeSilently(w) ==
    /\ bpc[w] = "freeRunning"
    /\ running' = running - 1
    /\ bpc' = [bpc EXCEPT ![w] = "return"]
    /\ UNCHANGED <<pool, lpc, cursor, ctaOf, freeSlots, cuWaiting, thread, ids, old, registered>>

FreeRunningBlock(w) ==
    /\ bpc[w] = "freeRunning"
    /\ running' = running - 1
    /\ cuWaiting' = FALSE
    /\ bpc' = [bpc EXCEPT ![w] = "return"]
    /\ UNCHANGED <<pool, lpc, cursor, ctaOf, freeSlots, thread, ids, old, registered>>

(* delete cta, and the task returns to the worker's loop.                  *)
EndTask(w) ==
    /\ bpc[w] = "return"
    /\ Pool!Run(w)
    /\ bpc' = [bpc EXCEPT ![w] = "idle"]
    /\ UNCHANGED <<lpc, cursor, ctaOf, cu, thread, ids, old, registered>>

Launcher == \/ TestMore \/ AllocRunningBlock \/ WaitForRoom \/ AddTask \/ NotifyTask
            \/ IncrementCta \/ ResetTid \/ Register \/ Destroy

BlockTask(w) == \/ BeginTask(w) \/ ReadIds(w) \/ LoadTid(w) \/ StoreTid(w) \/ Execute(w)
                \/ FreeBarSlot(w) \/ FreeRunningBlock(w) \/ EndTask(w)

WorkerThread(w) == PoolStep(w) \/ BlockTask(w)

Returned == lpc \in {"returned", "aborted"} /\ UNCHANGED vars

Next == \/ Launcher \/ SpuriousRoom \/ Returned
        \/ \E w \in Workers : WorkerThread(w) \/ PoolSpurious(w)

Spec == Init /\ [][Next]_vars

(* The host runs every thread that can go on; a block's program ends.      *)
FairSpec == Spec /\ WF_vars(Launcher) /\ \A w \in Workers : WF_vars(WorkerThread(w))
-----------------------------------------------------------------------------
(* A block is counted from allocRunningBlock to freeRunningBlock.          *)
Unfreed == { w \in Workers : wpc[w] = "run" /\ bpc[w] # "return" }
Dim3s == [x : Nat, y : Nat, z : Nat]

TypeOK ==
    /\ Pool!TypeOK
    /\ lpc \in {"test", "alloc", "wait", "task", "notify", "increment", "resetTid",
                "register", "destroy", "returned", "aborted"}
    /\ nextCta \in Dim3s /\ nextTid \in Dim3s
    /\ ctaOf \in Seq(Dim3s)
    /\ running \in Nat /\ freeSlots \in Nat /\ cuWaiting \in BOOLEAN
    /\ bpc \in [Workers -> {"idle", "read", "load", "store", "execute", "freeBar",
                            "freeRunning", "return"}]
    /\ thread \in [Workers -> Nat]
    /\ ids \in [Workers -> [cta : Dim3s, tid : Dim3s]]
    /\ old \in [Workers -> Dim3s]
    /\ registered \in BOOLEAN

(* m_running_block_count counts the blocks that hold their place: the one  *)
(* launch is about to add, the queued ones and the ones being executed;    *)
(* it never exceeds m_max_cta_per_cu, and none is left when launch ends.   *)
RunningCounts ==
    /\ TypeOK
    /\ running = (IF lpc \in {"task", "aborted"} THEN 1 ELSE 0) + Len(pending) + Cardinality(Unfreed)
    /\ running <= MaxRunning
    /\ lpc = "returned" => running = 0

(* Every block has its own CTA of the grid, in the order of the launch,    *)
(* and launch does not return before each of them has been executed.       *)
EveryCtaOnce ==
    /\ \A t \in DOMAIN ctaOf : ctaOf[t].x < Grid.x /\ ctaOf[t].y < Grid.y
                               /\ ctaOf[t].z < Grid.z /\ Linear(ctaOf[t], Grid) + 1 = t
    /\ lpc = "returned" => Len(ctaOf) = Count(Grid) /\ finished = DOMAIN ctaOf

(* launch uses the pool as the pool expects: the launch with its blocks is *)
(* a behaviour of ThreadPool.                                              *)
ImplementsPool == Pool!Spec

(* launch returns: no block waits for a place that nobody frees.           *)
LaunchReturns == <>(lpc = "returned")

(* Each thread gets the CTA id of the block that it is created for         *)
(* ("initializes threads in the CTA block which we are executing").        *)
ThreadsOfBlock ==
    \A w \in Workers : bpc[w] = "load" => ids[w].cta = ctaOf[task[w]]

(* Each thread gets its own thread id in the block: the one of its rank.   *)
ThreadIdsByRank ==
    \A w \in Workers : bpc[w] = "load" => Linear(ids[w].tid, Block) = thread[w]

(* The kernel is registered as done when its blocks are done.              *)
RegisteredWhenDone == registered => finished = 1..Count(Grid)

(* The kernel is executed one CTA at a time.                               *)
OneBlockAtATime == \A v, w \in Workers : bpc[v] # "idle" /\ bpc[w] # "idle" => v = w

(* GetBlockState does not fail its assertion.                              *)
NoAbort == lpc # "aborted"
=============================================================================
