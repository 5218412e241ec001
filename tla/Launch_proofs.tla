--------------------------- MODULE Launch_proofs ---------------------------
(***************************************************************************)
(* The launch of a kernel over the thread pool, for every grid, every      *)
(* number of workers and every limit on the running blocks: it is a        *)
(* behaviour of the pool, so what is proved of the pool holds of it; the   *)
(* running blocks are counted; every CTA of the grid is executed once.     *)
(***************************************************************************)
EXTENDS Launch, FiniteSetTheorems, TLAPS

(* What is proved of the pool, and of the walk of a cursor.                *)
P == INSTANCE ThreadPool_proofs WITH NTasks <- Count(Grid)

K == INSTANCE KernelInfo_proofs WITH
    Dims <- {Grid, Block}, Extra <- 0, grid <- Grid, block <- Block, ctas <- 0, tids <- 0

(* The increments of m_next_cta made so far.                               *)
Passed == IF lpc \in {"notify", "increment"} THEN added - 1 ELSE added

(* Where launch is and where the owner of the pool and the workers are.    *)
StepInv ==
    /\ opc = "notify" <=> lpc = "notify"
    /\ opc \in {"notifyAll", "join"} => lpc = "destroy"
    /\ opc = "done" <=> lpc = "returned"
    /\ \A w \in Workers : bpc[w] = "idle" <=> wpc[w] # "run"

(* m_next_cta has passed the CTAs of the tasks added, in linear order.     *)
CursorInv ==
    /\ added = Len(ctaOf)
    /\ K!Walks(nextCta, Grid, Passed)
    /\ lpc \in {"alloc", "wait", "task", "notify", "increment", "aborted"} => ~NoMore(nextCta, Grid)
    /\ lpc \in {"register", "destroy", "returned"} => NoMore(nextCta, Grid)
    /\ \A t \in DOMAIN ctaOf : ctaOf[t].x < Grid.x /\ ctaOf[t].y < Grid.y
                               /\ ctaOf[t].z < Grid.z /\ Linear(ctaOf[t], Grid) + 1 = t

(* The place launch holds between allocRunningBlock and addTask.           *)
Held == IF lpc \in {"task", "aborted"} THEN 1 ELSE 0

CountInv ==
    /\ running = Held + Len(pending) + Cardinality(Unfreed)
    /\ running <= MaxRunning

IInv == TypeOK /\ P!IInv /\ StepInv /\ CursorInv /\ CountInv
-----------------------------------------------------------------------------
(* num_blocks() is a natural, and the assumptions of the pool and of the   *)
(* cursors hold of a launch.                                               *)
LEMMA Assumed ==
    /\ Count(Grid) \in Nat
    /\ P!PoolAssumption
    /\ K!DimsAssumption
  <1>1. Grid \in K!Dim3s /\ Block \in K!Dim3s
    BY LaunchAssumption DEF K!Dim3s
  <1>2. K!DimsAssumption
    BY <1>1 DEF K!DimsAssumption, K!Dim3s
  <1>3. K!Count(Grid) \in Nat
    BY <1>1, <1>2, K!CountZero
  <1>4. Count(Grid) \in Nat
    BY <1>3 DEF Count, K!Count
  <1>5. P!PoolAssumption
    BY <1>4, LaunchAssumption DEF P!PoolAssumption
  <1> QED
    BY <1>2, <1>4, <1>5

(* increment_cta_id goes on to the next CTA in linear order, and           *)
(* no_more_ctas_to_run says whether all have been passed.                  *)
LEMMA CursorFacts ==
    ASSUME NEW i, NEW n, K!Walks(i, Grid, n)
    PROVE  /\ i \in Dim3s /\ n \in Nat
           /\ K!Walks(Increment(i, Grid), Grid, n + 1)
           /\ NoMore(i, Grid) => n >= Count(Grid)
           /\ ~NoMore(i, Grid) => /\ Linear(i, Grid) = n
                                  /\ i.x < Grid.x /\ i.y < Grid.y /\ i.z < Grid.z
  <1>1. Grid \in K!Dim3s /\ K!DimsAssumption
    BY LaunchAssumption, Assumed DEF K!Dim3s
  <1>2. K!Walks(K!Increment(i, Grid), Grid, n + 1)
    BY <1>1, K!WalkStep
  <1>3. K!Increment(i, Grid) = Increment(i, Grid)
    BY DEF K!Increment, Increment, K!Dim, Dim
  <1>4. /\ K!NoMore(i, Grid) <=> n >= K!Count(Grid)
        /\ ~K!NoMore(i, Grid) => K!Linear(i, Grid) = n
    BY <1>1, K!WalkEnd
  <1>5. /\ K!NoMore(i, Grid) <=> NoMore(i, Grid)
        /\ K!Linear(i, Grid) = Linear(i, Grid)
        /\ K!Count(Grid) = Count(Grid)
    BY DEF K!NoMore, NoMore, K!Linear, Linear, K!Count, Count
  <1>6. i \in K!Within(Grid) /\ n \in Nat
    BY DEF K!Walks
  <1>7. i \in Dim3s
    BY <1>1, <1>6 DEF K!Within, K!Dim3s, Dim3s
  <1>8. ~NoMore(i, Grid) => i.x < Grid.x /\ i.y < Grid.y /\ i.z < Grid.z
    BY <1>1, <1>7 DEF NoMore, Dim3s, K!Dim3s
  <1> QED
    BY <1>2, <1>3, <1>4, <1>5, <1>6, <1>7, <1>8

(* m_next_cta starts at zero.                                              *)
LEMMA CursorStart == K!Walks(Zero, Grid, 0)
  <1>1. Grid \in K!Dim3s /\ K!DimsAssumption
    BY LaunchAssumption, Assumed DEF K!Dim3s
  <1>2. K!Walks(K!Zero, Grid, 0)
    BY <1>1, K!WalkStart
  <1>3. K!Zero = Zero
    BY DEF K!Zero, Zero, K!Dim, Dim
  <1> QED
    BY <1>2, <1>3

(* launch and the blocks use the pool through addTask, the worker loop and *)
(* the destructor only: each step of theirs is one of the pool or leaves   *)
(* it alone.                                                               *)
LEMMA PoolSteps == [Next]_vars => [Pool!Next]_(Pool!pvars)
  <1> SUFFICES ASSUME [Next]_vars PROVE Pool!Next \/ UNCHANGED pool
    BY DEF pool, Pool!pvars
  <1>1. CASE Launcher
    BY <1>1 DEF Launcher, TestMore, AllocRunningBlock, WaitForRoom, AddTask, NotifyTask,
                IncrementCta, ResetTid, Register, Destroy, Pool!Next, Pool!Owner
  <1>2. ASSUME NEW w \in Workers, WorkerThread(w) \/ PoolSpurious(w)
        PROVE  Pool!Next \/ UNCHANGED pool
    <2>1. CASE PoolStep(w) \/ PoolSpurious(w) \/ BeginTask(w) \/ EndTask(w)
      BY <2>1 DEF PoolStep, PoolSpurious, BeginTask, EndTask, Pool!Next, Pool!Worker, Pool!Enter
    <2>2. CASE ReadIds(w) \/ LoadTid(w) \/ StoreTid(w) \/ Execute(w)
               \/ FreeBarSlot(w) \/ FreeRunningBlock(w)
      BY <2>2 DEF ReadIds, LoadTid, StoreTid, Execute, FreeBarSlot, FreeRunningBlock
    <2> QED
      BY <1>2, <2>1, <2>2 DEF WorkerThread, BlockTask
  <1>3. CASE SpuriousRoom \/ Returned \/ UNCHANGED vars
    BY <1>3 DEF SpuriousRoom, Returned, vars
  <1> QED
    BY <1>1, <1>2, <1>3 DEF Next

(* The launch with its blocks is a behaviour of the pool: addTask for each *)
(* CTA, the destructor at the end of launch.                               *)
THEOREM PoolRefined == Spec => ImplementsPool
  <1>1. Init => Pool!Init
    BY DEF Init
  <1> QED
    BY <1>1, PoolSteps, PTL DEF Spec, ImplementsPool, Pool!Spec

(* The pool named P, of which the theorems are, is the pool of Launch.     *)
LEMMA SamePool == (Pool!Init => P!Init) /\ ([Pool!Next]_(Pool!pvars) => [P!Next]_(P!pvars))
  BY DEF Pool!Init, P!Init, Pool!Next, P!Next, Pool!pvars, P!pvars, Pool!Owner, P!Owner,
         Pool!Worker, P!Worker, Pool!Enter, P!Enter, Pool!Destroyed, P!Destroyed,
         Pool!Push, P!Push, Pool!NotifyOne, P!NotifyOne, Pool!Stop, P!Stop,
         Pool!NotifyAll, P!NotifyAll, Pool!Join, P!Join, Pool!WakeOne, P!WakeOne,
         Pool!WakeAll, P!WakeAll, Pool!TestStop, P!TestStop, Pool!TestPending, P!TestPending,
         Pool!LeavesLoop, P!LeavesLoop, Pool!Entering, P!Entering, Pool!Wait, P!Wait,
         Pool!Take, P!Take, Pool!TakeNone, P!TakeNone, Pool!SpuriousWake, P!SpuriousWake,
         Pool!Run, P!Run, Zenon

(* The pool keeps its inductive invariant under the launch.                *)
LEMMA PoolInv ==
    /\ Init => P!IInv
    /\ P!IInv /\ [Next]_vars => P!IInv'
  <1>1. P!PoolAssumption
    BY Assumed
  <1>2. P!Init => P!IInv
    BY <1>1, P!InitInv
  <1>3. P!IInv /\ [P!Next]_(P!pvars) => P!IInv'
    BY <1>1, P!NextInv
  <1> QED
    BY <1>2, <1>3, SamePool, PoolSteps DEF Init

(* What the invariant of the pool says of its state.                       *)
PoolState ==
    /\ Pool!TypeOK
    /\ pending \in Seq(1..Count(Grid)) /\ added \in Nat /\ added <= Count(Grid)
    /\ wpc \in [Workers -> {"loop", "test", "lock", "wait", "run", "exit"}]
    /\ opc \in {"add", "notify", "notifyAll", "join", "done"}
    /\ opc = "done" => /\ pending = <<>> /\ finished = 1..Count(Grid)
                       /\ \A w \in Workers : wpc[w] = "exit"

(* The destructor of the pool returns with the queue empty, the workers    *)
(* gone and all blocks executed.                                           *)
LEMMA PoolFacts == P!IInv => PoolState
  <1> SUFFICES ASSUME P!IInv PROVE PoolState
    OBVIOUS
  <1>1. P!TypeOK /\ P!ControlInv /\ P!PoolAssumption /\ P!QueueInv
    BY Assumed DEF P!IInv
  <1>2. Pool!TypeOK
    BY <1>1 DEF P!TypeOK, Pool!TypeOK
  <1>3. /\ pending \in Seq(1..Count(Grid)) /\ added \in Nat /\ added <= Count(Grid)
        /\ wpc \in [Workers -> {"loop", "test", "lock", "wait", "run", "exit"}]
        /\ opc \in {"add", "notify", "notifyAll", "join", "done"}
    BY <1>1, Assumed DEF P!TypeOK
  <1>4. ASSUME opc = "done"
        PROVE  pending = <<>> /\ (\A w \in Workers : wpc[w] = "exit") /\ finished = 1..Count(Grid)
    <2>1. stop /\ \A w \in Workers : wpc[w] = "exit"
      BY <1>1, <1>4 DEF P!ControlInv
    <2>2. pending = <<>>
      <3>1. CASE Workers = {}
        <4>1. Count(Grid) = 0
          BY <3>1, Assumed, LaunchAssumption
        <4> QED
          BY <1>1, <1>3, <4>1 DEF P!QueueInv
      <3>2. CASE Workers # {}
        BY <1>1, <2>1, <3>2 DEF P!ControlInv
      <3> QED
        BY <3>1, <3>2
    <2>3. finished = 1..Count(Grid)
      BY <1>1, <2>1, P!AllExited
    <2> QED
      BY <2>1, <2>2, <2>3
  <1> QED
    BY <1>2, <1>3, <1>4 DEF PoolState

(* The state launch starts from.                                           *)
LEMMA InitInv == Init => IInv
  <1> SUFFICES ASSUME Init PROVE IInv
    OBVIOUS
  <1>1. P!IInv
    BY PoolInv
  <1>2. /\ pending = <<>> /\ wpc = [w \in Workers |-> "loop"] /\ opc = "add" /\ added = 0
    BY DEF Init, Pool!Init
  <1>3. Zero \in Dim3s
    BY DEF Zero, Dim, Dim3s
  <1>4. TypeOK
    <2>1. /\ bpc \in [Workers -> {"idle", "read", "load", "store", "execute", "freeBar",
                                  "freeRunning", "return"}]
          /\ thread \in [Workers -> Nat]
      BY DEF Init
    <2>2. ids \in [Workers -> [cta : Dim3s, tid : Dim3s]] /\ old \in [Workers -> Dim3s]
      BY <1>3 DEF Init, NoIds
    <2>3. ctaOf \in Seq(Dim3s)
      BY DEF Init
    <2> QED
      BY <1>1, <1>3, <2>1, <2>2, <2>3, PoolFacts, LaunchAssumption DEF Init, TypeOK, PoolState
  <1>5. StepInv
    BY <1>2 DEF Init, StepInv
  <1>6. CursorInv
    <2>1. Passed = 0
      BY <1>2 DEF Passed, Init
    <2> QED
      BY <1>2, <2>1, CursorStart DEF Init, CursorInv
  <1>7. CountInv
    <2>1. Unfreed = {}
      BY <1>2 DEF Unfreed
    <2>2. Cardinality(Unfreed) = 0
      BY <2>1, FS_EmptySet
    <2> QED
      BY <1>2, <2>2, LaunchAssumption DEF Init, CountInv, Held
  <1> QED
    BY <1>1, <1>4, <1>5, <1>6, <1>7 DEF IInv

(* The blocks being executed are finitely many.                            *)
LEMMA UnfreedFacts ==
    /\ IsFiniteSet(Unfreed) /\ Cardinality(Unfreed) \in Nat
    /\ \A w \in Unfreed : Cardinality(Unfreed) > 0 /\ Cardinality(Unfreed \ {w}) = Cardinality(Unfreed) - 1
    /\ \A w : w \notin Unfreed => Cardinality(Unfreed \cup {w}) = Cardinality(Unfreed) + 1
  <1>1. Unfreed \subseteq Workers
    BY DEF Unfreed
  <1>2. IsFiniteSet(Unfreed)
    BY <1>1, FS_Subset, LaunchAssumption
  <1>3. Cardinality(Unfreed) \in Nat
    BY <1>2, FS_CardinalityType
  <1>4. ASSUME NEW w \in Unfreed
        PROVE  Cardinality(Unfreed) > 0 /\ Cardinality(Unfreed \ {w}) = Cardinality(Unfreed) - 1
    <2>1. IsFiniteSet(Unfreed \ {w}) /\ Cardinality(Unfreed \ {w}) = Cardinality(Unfreed) - 1
      BY <1>2, FS_RemoveElement
    <2>2. Cardinality(Unfreed \ {w}) \in Nat
      BY <2>1, FS_CardinalityType
    <2> QED
      BY <1>3, <2>1, <2>2
  <1>5. ASSUME NEW w, w \notin Unfreed
        PROVE  Cardinality(Unfreed \cup {w}) = Cardinality(Unfreed) + 1
    BY <1>2, <1>5, FS_AddElement
  <1> QED
    BY <1>2, <1>3, <1>4, <1>5

(* The cursors, the counters and the locals of the blocks keep their       *)
(* types; m_running_block_count does not go below zero.                    *)
LEMMA TypeInv == IInv /\ P!IInv' /\ [Next]_vars => TypeOK'
  <1> SUFFICES ASSUME IInv, P!IInv', [Next]_vars PROVE TypeOK'
    OBVIOUS
  <1>1. TypeOK /\ StepInv /\ CountInv /\ PoolState
    BY PoolFacts DEF IInv
  <1>2. PoolState'
    BY PoolFacts, PTL
  <1>3. Pool!TypeOK'
    BY <1>2 DEF PoolState
  <1>4. Increment(nextCta, Grid) \in Dim3s
    <2>1. nextCta \in Dim3s
      BY <1>1 DEF TypeOK
    <2>2. \A d \in Dim3s : Increment(d, Grid) \in Dim3s
      BY LaunchAssumption DEF Dim3s, Increment, Dim
    <2> QED
      BY <2>1, <2>2
  <1>5. \A d \in Dim3s : Increment(d, Block) \in Dim3s
    BY LaunchAssumption DEF Dim3s, Increment, Dim
  <1>6. Zero \in Dim3s
    BY DEF Zero, Dim, Dim3s
  <1>7. CASE Launcher \/ SpuriousRoom \/ Returned \/ UNCHANGED vars
    <2>1. bpc' = bpc /\ thread' = thread /\ ids' = ids /\ old' = old
      BY <1>7 DEF Launcher, TestMore, AllocRunningBlock, WaitForRoom, AddTask, NotifyTask,
              IncrementCta, ResetTid, Register, Destroy, SpuriousRoom, Returned, vars, local
    <2>2. lpc' \in {"test", "alloc", "wait", "task", "notify", "increment", "resetTid",
                    "register", "destroy", "returned", "aborted"}
      BY <1>1, <1>7 DEF TypeOK, Launcher, TestMore, AllocRunningBlock, WaitForRoom, AddTask, NotifyTask,
              IncrementCta, ResetTid, Register, Destroy, SpuriousRoom, Returned, vars
    <2>3. nextCta' \in Dim3s /\ nextTid' \in Dim3s
      BY <1>1, <1>4, <1>6, <1>7 DEF TypeOK, Launcher, TestMore, AllocRunningBlock, WaitForRoom, AddTask,
              NotifyTask, IncrementCta, ResetTid, Register, Destroy, SpuriousRoom, Returned, vars, cursor
    <2>4. ctaOf' \in Seq(Dim3s)
      <3>1. ctaOf' = ctaOf \/ ctaOf' = Append(ctaOf, nextCta)
        BY <1>7 DEF Launcher, TestMore, AllocRunningBlock, WaitForRoom, AddTask,
              NotifyTask, IncrementCta, ResetTid, Register, Destroy, SpuriousRoom, Returned, vars
      <3>2. ctaOf \in Seq(Dim3s) /\ nextCta \in Dim3s
        BY <1>1 DEF TypeOK
      <3> QED
        BY <3>1, <3>2
    <2>5. running' \in Nat /\ freeSlots' \in Nat
      BY <1>1, <1>7 DEF TypeOK, Launcher, TestMore, AllocRunningBlock, WaitForRoom, AddTask, NotifyTask,
             IncrementCta, ResetTid, Register, Destroy, SpuriousRoom, Returned, vars, cu
    <2>6. cuWaiting' \in BOOLEAN
      <3>1. cuWaiting' \in {cuWaiting, TRUE, FALSE}
        BY <1>7 DEF Launcher, TestMore, AllocRunningBlock, WaitForRoom, AddTask, NotifyTask,
             IncrementCta, ResetTid, Register, Destroy, SpuriousRoom, Returned, vars, cu
      <3> QED
        BY <1>1, <3>1 DEF TypeOK
    <2>7. registered' \in BOOLEAN
      <3>1. registered' \in {registered, ~OpenCL}
        BY <1>7 DEF Launcher, TestMore, AllocRunningBlock, WaitForRoom, AddTask, NotifyTask,
             IncrementCta, ResetTid, Register, Destroy, SpuriousRoom, Returned, vars
      <3> QED
        BY <1>1, <3>1 DEF TypeOK
    <2> QED
      BY <1>1, <1>3, <2>1, <2>2, <2>3, <2>4, <2>5, <2>6, <2>7 DEF TypeOK
  <1>8. ASSUME NEW w \in Workers, WorkerThread(w) \/ PoolSpurious(w) PROVE TypeOK'
    <2>1. lpc' = lpc /\ nextCta' = nextCta /\ ctaOf' = ctaOf /\ registered' = registered
      BY <1>8 DEF WorkerThread, PoolStep, PoolSpurious, BlockTask, BeginTask, ReadIds, LoadTid,
              StoreTid, Execute, FreeBarSlot, FreeRunningBlock, EndTask, cursor
    <2>2. CASE PoolStep(w) \/ PoolSpurious(w)
      BY <1>1, <1>3, <2>1, <2>2 DEF TypeOK, PoolStep, PoolSpurious, cursor, cu, local
    <2>3. CASE BeginTask(w) \/ EndTask(w) \/ Execute(w)
      <3>1. /\ nextTid' = nextTid /\ running' = running /\ freeSlots' = freeSlots
            /\ cuWaiting' = cuWaiting /\ ids' = ids /\ old' = old
        BY <2>3 DEF BeginTask, EndTask, Execute, cursor, cu
      <3>2. bpc' \in [Workers -> {"idle", "read", "load", "store", "execute", "freeBar",
                                   "freeRunning", "return"}]
        <4>1. PICK p \in {"read", "execute", "idle", "freeBar"} : bpc' = [bpc EXCEPT ![w] = p]
          BY <2>3 DEF BeginTask, EndTask, Execute
        <4>2. bpc \in [Workers -> {"idle", "read", "load", "store", "execute", "freeBar",
                                   "freeRunning", "return"}]
          BY <1>1 DEF TypeOK
        <4> QED
          BY <4>1, <4>2
      <3>3. thread' \in [Workers -> Nat]
        <4>1. thread' = thread \/ thread' = [thread EXCEPT ![w] = 0]
          BY <2>3 DEF BeginTask, EndTask, Execute
        <4>2. thread \in [Workers -> Nat]
          BY <1>1 DEF TypeOK
        <4> QED
          BY <4>1, <4>2
      <3> QED
        BY <1>1, <1>3, <2>1, <3>1, <3>2, <3>3 DEF TypeOK
    <2>7. CASE ReadIds(w) \/ LoadTid(w)
      <3>1. /\ nextTid' = nextTid /\ running' = running /\ freeSlots' = freeSlots
            /\ cuWaiting' = cuWaiting /\ thread' = thread
        BY <2>7 DEF ReadIds, LoadTid, cursor, cu
      <3>2. /\ bpc' \in [Workers -> {"idle", "read", "load", "store", "execute", "freeBar",
                                      "freeRunning", "return"}]
            /\ old' \in [Workers -> Dim3s]
        BY <1>1, <2>7 DEF TypeOK, ReadIds, LoadTid
      <3>3. ids' \in [Workers -> [cta : Dim3s, tid : Dim3s]]
        <4>1. [cta |-> nextCta, tid |-> nextTid] \in [cta : Dim3s, tid : Dim3s]
          BY <1>1 DEF TypeOK
        <4> HIDE DEF Dim3s
        <4> QED
          BY <1>1, <2>7, <4>1 DEF TypeOK, ReadIds, LoadTid
      <3> QED
        BY <1>1, <1>3, <2>1, <3>1, <3>2, <3>3 DEF TypeOK
    <2>4. CASE StoreTid(w)
      BY <1>1, <1>3, <1>5, <1>8, <2>1, <2>4 DEF TypeOK, StoreTid, cu
    <2>5. CASE FreeBarSlot(w)
      BY <1>1, <1>3, <2>1, <2>5, LaunchAssumption DEF TypeOK, FreeBarSlot, cursor
    <2>6. CASE FreeRunningBlock(w)
      <3>1. w \in Unfreed
        BY <1>1, <2>6 DEF FreeRunningBlock, Unfreed, StepInv
      <3>2. running - 1 \in Nat
        <4>1. Len(pending) \in Nat /\ Held \in Nat
          BY <1>1 DEF PoolState, Held
        <4>2. running = Held + Len(pending) + Cardinality(Unfreed)
          BY <1>1 DEF CountInv
        <4>3. Cardinality(Unfreed) \in Nat /\ Cardinality(Unfreed) > 0
          BY <3>1, UnfreedFacts
        <4> QED
          BY <4>1, <4>2, <4>3
      <3> QED
        BY <1>1, <1>3, <2>1, <2>6, <3>2 DEF TypeOK, FreeRunningBlock, cursor
    <2> QED
      BY <1>8, <2>2, <2>3, <2>4, <2>5, <2>6, <2>7 DEF WorkerThread, BlockTask
  <1> QED
    BY <1>7, <1>8 DEF Next

(* The control points of launch, of the owner of the pool and of the       *)
(* blocks go together.                                                     *)
LEMMA StepStep == IInv /\ [Next]_vars => StepInv'
  <1> SUFFICES ASSUME IInv, [Next]_vars PROVE StepInv'
    OBVIOUS
  <1>1. TypeOK /\ StepInv /\ PoolState
    BY PoolFacts DEF IInv
  <1>2. CASE Launcher \/ SpuriousRoom \/ Returned \/ UNCHANGED vars
    <2>1. bpc' = bpc /\ wpc' = wpc
      BY <1>2 DEF Launcher, TestMore, AllocRunningBlock, WaitForRoom, AddTask, NotifyTask,
              IncrementCta, ResetTid, Register, Destroy, SpuriousRoom, Returned, vars, local, pool,
              Pool!Push, Pool!NotifyOne, Pool!Stop, Pool!NotifyAll, Pool!Join
    <2>2. CASE AddTask \/ NotifyTask \/ Destroy
      BY <1>1, <2>1, <2>2 DEF StepInv, AddTask, NotifyTask, Destroy, Pool!Push, Pool!NotifyOne,
                              Pool!Stop, Pool!NotifyAll, Pool!Join
    <2>3. CASE TestMore \/ AllocRunningBlock \/ WaitForRoom \/ IncrementCta \/ ResetTid \/ Register
               \/ SpuriousRoom \/ Returned \/ UNCHANGED vars
      BY <1>1, <2>1, <2>3 DEF StepInv, TestMore, AllocRunningBlock, WaitForRoom, IncrementCta,
                              ResetTid, Register, SpuriousRoom, Returned, vars, pool, PoolState
    <2> QED
      BY <1>2, <2>2, <2>3 DEF Launcher
  <1>3. ASSUME NEW w \in Workers, WorkerThread(w) \/ PoolSpurious(w) PROVE StepInv'
    <2>1. lpc' = lpc /\ opc' = opc
      BY <1>3 DEF WorkerThread, PoolStep, PoolSpurious, BlockTask, BeginTask, ReadIds, LoadTid,
              StoreTid, Execute, FreeBarSlot, FreeRunningBlock, EndTask, pool, Pool!TestStop,
              Pool!TestPending, Pool!Wait, Pool!TakeNone, Pool!SpuriousWake, Pool!Take, Pool!Run
    <2> SUFFICES \A v \in Workers : bpc'[v] = "idle" <=> wpc'[v] # "run"
      BY <1>1, <2>1 DEF StepInv
    <2>2. CASE PoolStep(w) \/ PoolSpurious(w)
      <3>1. /\ bpc' = bpc
            /\ \/ wpc' = wpc
               \/ wpc[w] # "run" /\ \E p \in {"loop", "test", "lock", "wait", "exit"} :
                                           wpc' = [wpc EXCEPT ![w] = p]
        BY <2>2 DEF PoolStep, PoolSpurious, local, Pool!TestStop, Pool!TestPending, Pool!Wait,
                    Pool!TakeNone, Pool!SpuriousWake, Pool!Entering
      <3> QED
        BY <1>1, <3>1 DEF StepInv, TypeOK, PoolState
    <2>3. CASE BeginTask(w)
      BY <1>1, <2>3 DEF StepInv, TypeOK, PoolState, BeginTask, Pool!Take
    <2>4. CASE EndTask(w)
      BY <1>1, <2>4 DEF StepInv, TypeOK, PoolState, EndTask, Pool!Run
    <2>5. CASE ReadIds(w) \/ LoadTid(w) \/ StoreTid(w) \/ Execute(w)
               \/ FreeBarSlot(w) \/ FreeRunningBlock(w)
      <3>1. /\ wpc' = wpc /\ bpc[w] # "idle"
            /\ \E p \in {"read", "load", "store", "execute", "freeBar", "freeRunning", "return"} :
                  bpc' = [bpc EXCEPT ![w] = p]
        BY <2>5 DEF ReadIds, LoadTid, StoreTid, Execute, FreeBarSlot, FreeRunningBlock, pool
      <3> QED
        BY <1>1, <3>1 DEF StepInv, TypeOK
    <2> QED
      BY <1>3, <2>2, <2>3, <2>4, <2>5 DEF WorkerThread, BlockTask
  <1> QED
    BY <1>2, <1>3 DEF Next

(* launch adds the CTA under the cursor, then moves the cursor on by one;  *)
(* the workers leave m_next_cta alone.                                     *)
LEMMA CursorStep == IInv /\ P!IInv' /\ [Next]_vars => CursorInv'
  <1> SUFFICES ASSUME IInv, P!IInv', [Next]_vars PROVE CursorInv'
    OBVIOUS
  <1>1. TypeOK /\ CursorInv /\ PoolState /\ K!Walks(nextCta, Grid, Passed)
    BY PoolFacts DEF IInv, CursorInv
  <1>2. added \in Nat /\ ctaOf \in Seq(Dim3s) /\ added = Len(ctaOf)
    BY <1>1 DEF TypeOK, PoolState, CursorInv
  <1>3. ASSUME UNCHANGED <<added, nextCta, ctaOf, lpc>> PROVE CursorInv'
    BY <1>1, <1>3 DEF CursorInv, Passed, K!Walks, K!Within, K!Count, K!Linear
  <1>4. CASE TestMore
    BY <1>1, <1>4 DEF TestMore, CursorInv, Passed, pool, cursor
  <1>5. CASE AllocRunningBlock \/ WaitForRoom
    BY <1>1, <1>5 DEF AllocRunningBlock, WaitForRoom, CursorInv, Passed, pool, cursor
  <1>6. CASE AddTask
    <2>1. /\ lpc = "task" /\ lpc' = "notify" /\ nextCta' = nextCta
          /\ added' = added + 1 /\ ctaOf' = Append(ctaOf, nextCta)
      BY <1>6 DEF AddTask, Pool!Push, cursor
    <2>2. /\ Len(ctaOf') = added + 1 /\ DOMAIN ctaOf' = 1..(added + 1)
          /\ \A t \in 1..added : ctaOf'[t] = ctaOf[t]
          /\ ctaOf'[added + 1] = nextCta
      BY <1>1, <1>2, <2>1 DEF TypeOK
    <2>3. Passed = added /\ Passed' = Passed /\ ~NoMore(nextCta, Grid)
      BY <1>1, <1>2, <2>1 DEF Passed, CursorInv
    <2>4. /\ Linear(nextCta, Grid) = added
          /\ nextCta.x < Grid.x /\ nextCta.y < Grid.y /\ nextCta.z < Grid.z
      BY <1>1, <2>3, CursorFacts
    <2>5. ASSUME NEW t \in 1..(added + 1)
          PROVE  ctaOf'[t].x < Grid.x /\ ctaOf'[t].y < Grid.y
                 /\ ctaOf'[t].z < Grid.z /\ Linear(ctaOf'[t], Grid) + 1 = t
      <3>1. CASE t = added + 1
        BY <2>2, <2>4, <3>1
      <3>2. CASE t \in 1..added
        BY <1>1, <1>2, <2>2, <3>2 DEF CursorInv
      <3> QED
        BY <1>2, <3>1, <3>2
    <2> QED
      BY <1>1, <1>2, <2>1, <2>2, <2>3, <2>5 DEF CursorInv
  <1>7. CASE NotifyTask
    BY <1>1, <1>7 DEF NotifyTask, CursorInv, Passed, cursor, Pool!NotifyOne
  <1>8. CASE IncrementCta
    <2>1. /\ lpc = "increment" /\ lpc' = "resetTid" /\ nextCta' = Increment(nextCta, Grid)
          /\ added' = added /\ ctaOf' = ctaOf
      BY <1>8 DEF IncrementCta, pool
    <2>2. Passed' = Passed + 1
      BY <1>2, <2>1 DEF Passed
    <2>3. K!Walks(nextCta', Grid, Passed')
      BY <1>1, <2>1, <2>2, CursorFacts
    <2> QED
      BY <1>1, <2>1, <2>3 DEF CursorInv
  <1>9. CASE ResetTid \/ Register
    BY <1>1, <1>9 DEF ResetTid, Register, CursorInv, Passed, pool, cursor
  <1>10. CASE Destroy
    BY <1>1, <1>10 DEF Destroy, CursorInv, Passed, cursor, Pool!Stop, Pool!NotifyAll, Pool!Join
  <1>11. CASE SpuriousRoom \/ Returned \/ UNCHANGED vars
    BY <1>3, <1>11 DEF SpuriousRoom, Returned, vars, pool, cursor
  <1>12. ASSUME NEW w \in Workers, WorkerThread(w) \/ PoolSpurious(w) PROVE CursorInv'
    BY <1>3, <1>12 DEF WorkerThread, PoolStep, PoolSpurious, BlockTask, BeginTask, ReadIds, LoadTid,
        StoreTid, Execute, FreeBarSlot, FreeRunningBlock, EndTask, pool, cursor, Pool!TestStop,
        Pool!TestPending, Pool!Wait, Pool!TakeNone, Pool!SpuriousWake, Pool!Take, Pool!Run
  <1> QED
    BY <1>4, <1>5, <1>6, <1>7, <1>8, <1>9, <1>10, <1>11, <1>12 DEF Next, Launcher

(* allocRunningBlock counts a block, addTask and a worker hand its place   *)
(* on, freeRunningBlock gives it back.                                     *)
LEMMA CountStep == IInv /\ P!IInv' /\ [Next]_vars => CountInv'
  <1> SUFFICES ASSUME IInv, P!IInv', [Next]_vars PROVE CountInv'
    OBVIOUS
  <1>1. TypeOK /\ StepInv /\ CountInv /\ PoolState
    BY PoolFacts DEF IInv
  <1>2. /\ running \in Nat /\ Len(pending) \in Nat /\ Held \in {0, 1}
        /\ Cardinality(Unfreed) \in Nat /\ MaxRunning \in Nat
        /\ running = Held + Len(pending) + Cardinality(Unfreed) /\ running <= MaxRunning
    BY <1>1, UnfreedFacts, LaunchAssumption DEF TypeOK, PoolState, Held, CountInv
  <1>3. ASSUME running' = running, Held' = Held, Len(pending') = Len(pending), Unfreed' = Unfreed
        PROVE  CountInv'
    BY <1>1, <1>3 DEF CountInv
  <1>4. CASE AllocRunningBlock
    <2>1. running' = running + 1 /\ running < MaxRunning /\ UNCHANGED <<pending, wpc, bpc>>
      BY <1>4 DEF AllocRunningBlock, MayRun, pool, local
    <2>2. Held = 0 /\ Held' = 1
      BY <1>4 DEF AllocRunningBlock, Held
    <2>3. Unfreed' = Unfreed
      BY <2>1 DEF Unfreed
    <2> QED
      BY <1>2, <2>1, <2>2, <2>3 DEF CountInv
  <1>5. CASE AddTask
    <2>1. running' = running /\ pending' = Append(pending, added + 1) /\ UNCHANGED <<wpc, bpc>>
      BY <1>5 DEF AddTask, Pool!Push, cu, local
    <2>2. Held = 1 /\ Held' = 0
      BY <1>5 DEF AddTask, Held
    <2>3. Unfreed' = Unfreed /\ Len(pending') = Len(pending) + 1
      BY <1>1, <2>1 DEF Unfreed, PoolState
    <2> QED
      BY <1>2, <2>1, <2>2, <2>3 DEF CountInv
  <1>6. CASE TestMore \/ WaitForRoom \/ NotifyTask \/ IncrementCta \/ ResetTid \/ Register \/ Destroy
             \/ SpuriousRoom \/ Returned \/ UNCHANGED vars
    <2>1. UNCHANGED <<running, pending, wpc, bpc>>
      BY <1>6 DEF TestMore, WaitForRoom, NotifyTask, IncrementCta, ResetTid, Register, Destroy,
                  SpuriousRoom, Returned, vars, pool, cu, local,
                  Pool!NotifyOne, Pool!Stop, Pool!NotifyAll, Pool!Join
    <2>2. Held' = Held
      BY <1>6 DEF TestMore, WaitForRoom, NotifyTask, IncrementCta, ResetTid, Register, Destroy,
                  SpuriousRoom, Returned, vars, Held
    <2>3. Unfreed' = Unfreed
      BY <2>1 DEF Unfreed
    <2> QED
      BY <1>3, <2>1, <2>2, <2>3
  <1>7. ASSUME NEW w \in Workers, WorkerThread(w) \/ PoolSpurious(w) PROVE CountInv'
    <2>1. Held' = Held
      BY <1>7 DEF WorkerThread, PoolStep, PoolSpurious, BlockTask, BeginTask, ReadIds, LoadTid,
          StoreTid, Execute, FreeBarSlot, FreeRunningBlock, EndTask, Held
    <2>2. CASE PoolStep(w) \/ PoolSpurious(w)
      <3>1. UNCHANGED <<running, pending, bpc>>
        BY <2>2 DEF PoolStep, PoolSpurious, cu, local, Pool!TestStop, Pool!TestPending, Pool!Wait,
                    Pool!TakeNone, Pool!SpuriousWake
      <3>2. \/ wpc' = wpc
            \/ wpc[w] # "run" /\ \E p \in {"loop", "test", "lock", "wait", "exit"} :
                                        wpc' = [wpc EXCEPT ![w] = p]
        BY <2>2 DEF PoolStep, PoolSpurious, Pool!TestStop, Pool!TestPending, Pool!Wait,
                    Pool!TakeNone, Pool!SpuriousWake, Pool!Entering
      <3>3. Unfreed' = Unfreed
        BY <1>1, <3>1, <3>2 DEF Unfreed, PoolState
      <3> QED
        BY <1>3, <2>1, <3>1, <3>3
    <2>3. CASE BeginTask(w)
      <3>1. /\ running' = running /\ pending # <<>> /\ pending' = Tail(pending)
            /\ wpc' = [wpc EXCEPT ![w] = "run"] /\ wpc[w] # "run"
            /\ \E p \in {"read", "execute"} : bpc' = [bpc EXCEPT ![w] = p]
        BY <2>3 DEF BeginTask, Pool!Take, Pool!Entering, cu
      <3>2. w \notin Unfreed /\ Unfreed' = Unfreed \cup {w}
        BY <1>1, <3>1 DEF Unfreed, TypeOK, PoolState
      <3>3. Cardinality(Unfreed') = Cardinality(Unfreed) + 1
        BY <3>2, UnfreedFacts
      <3>4. Len(pending') = Len(pending) - 1
        BY <1>1, <3>1 DEF PoolState
      <3> QED
        BY <1>2, <2>1, <3>1, <3>3, <3>4 DEF CountInv
    <2>4. CASE ReadIds(w) \/ LoadTid(w) \/ StoreTid(w) \/ Execute(w) \/ FreeBarSlot(w)
      <3>1. /\ UNCHANGED <<running, pending, wpc>> /\ bpc[w] # "return"
            /\ \E p \in {"read", "load", "store", "execute", "freeBar", "freeRunning"} :
                  bpc' = [bpc EXCEPT ![w] = p]
        BY <2>4 DEF ReadIds, LoadTid, StoreTid, Execute, FreeBarSlot, pool, cu
      <3>2. Unfreed' = Unfreed
        BY <1>1, <3>1 DEF Unfreed, TypeOK
      <3> QED
        BY <1>3, <2>1, <3>1, <3>2
    <2>5. CASE FreeRunningBlock(w)
      <3>1. /\ running' = running - 1 /\ UNCHANGED <<pending, wpc>>
            /\ bpc[w] = "freeRunning" /\ bpc' = [bpc EXCEPT ![w] = "return"]
        BY <2>5 DEF FreeRunningBlock, pool
      <3>2. w \in Unfreed /\ Unfreed' = Unfreed \ {w}
        BY <1>1, <3>1 DEF Unfreed, TypeOK, StepInv
      <3>3. Cardinality(Unfreed') = Cardinality(Unfreed) - 1
        BY <3>2, UnfreedFacts
      <3> QED
        BY <1>2, <2>1, <3>1, <3>3 DEF CountInv
    <2>6. CASE EndTask(w)
      <3>1. /\ UNCHANGED <<running, pending>> /\ bpc[w] = "return"
            /\ bpc' = [bpc EXCEPT ![w] = "idle"] /\ wpc' = [wpc EXCEPT ![w] = "loop"]
        BY <2>6 DEF EndTask, Pool!Run, cu
      <3>2. Unfreed' = Unfreed
        BY <1>1, <3>1 DEF Unfreed, TypeOK, PoolState
      <3> QED
        BY <1>3, <2>1, <3>1, <3>2
    <2> QED
      BY <1>7, <2>2, <2>3, <2>4, <2>5, <2>6 DEF WorkerThread, BlockTask
  <1> QED
    BY <1>4, <1>5, <1>6, <1>7 DEF Next, Launcher

(* The inductive invariant of a launch: where launch is decides where the  *)
(* owner of the pool is, m_next_cta has passed the CTAs of the tasks       *)
(* added, and each counted block has one place.                            *)
THEOREM Invariance == Spec => []IInv
  <1>1. IInv /\ [Next]_vars => IInv'
    <2> SUFFICES ASSUME IInv, [Next]_vars PROVE IInv'
      OBVIOUS
    <2>1. P!IInv'
      BY PoolInv DEF IInv
    <2> QED
      BY <2>1, TypeInv, StepStep, CursorStep, CountStep DEF IInv
  <1> QED
    BY <1>1, InitInv, PTL DEF Spec

(* m_running_block_count is the number of blocks that launch, the queue    *)
(* and the workers hold, is never above m_max_cta_per_cu and is back at    *)
(* zero when launch returns (allocRunningBlock, freeRunningBlock).         *)
THEOREM BlocksCounted == Spec => []RunningCounts
  <1>1. IInv => RunningCounts
    <2> SUFFICES ASSUME IInv PROVE RunningCounts
      OBVIOUS
    <2>1. TypeOK /\ StepInv /\ CountInv /\ PoolState
      BY PoolFacts DEF IInv
    <2>2. ASSUME lpc = "returned" PROVE running = 0
      <3>1. pending = <<>> /\ \A w \in Workers : wpc[w] = "exit"
        BY <2>1, <2>2 DEF StepInv, PoolState
      <3>2. Unfreed = {}
        BY <3>1 DEF Unfreed
      <3>3. Cardinality(Unfreed) = 0
        BY <3>2, FS_EmptySet
      <3> QED
        BY <2>1, <2>2, <3>1, <3>3 DEF CountInv, Held
    <2> QED
      BY <2>1, <2>2 DEF RunningCounts, CountInv, Held
  <1> QED
    BY <1>1, Invariance, PTL

(* The t-th task added is the block of the t-th CTA in linear order, and   *)
(* when launch returns the tasks are all the CTAs of the grid and each has *)
(* been executed (no_more_ctas_to_run, increment_cta_id, the destructor of *)
(* the pool).                                                              *)
THEOREM CtasExecuted == Spec => []EveryCtaOnce
  <1>1. IInv => EveryCtaOnce
    <2> SUFFICES ASSUME IInv PROVE EveryCtaOnce
      OBVIOUS
    <2>1. TypeOK /\ StepInv /\ CursorInv /\ PoolState
      BY PoolFacts DEF IInv
    <2>2. ASSUME lpc = "returned" PROVE Len(ctaOf) = Count(Grid) /\ finished = DOMAIN ctaOf
      <3>1. finished = 1..Count(Grid) /\ added <= Count(Grid) /\ added \in Nat
        BY <2>1, <2>2 DEF StepInv, PoolState
      <3>2. NoMore(nextCta, Grid) /\ K!Walks(nextCta, Grid, added) /\ added = Len(ctaOf)
        BY <2>1, <2>2 DEF CursorInv, Passed
      <3>3. added >= Count(Grid)
        BY <3>2, CursorFacts
      <3>4. added = Count(Grid)
        BY <3>1, <3>3, Assumed
      <3>5. ctaOf \in Seq(Dim3s)
        BY <2>1 DEF TypeOK
      <3>6. DOMAIN ctaOf = 1..Len(ctaOf)
        BY <3>5
      <3> QED
        BY <3>1, <3>2, <3>4, <3>6
    <2> QED
      BY <2>1, <2>2 DEF EveryCtaOnce, CursorInv
  <1> QED
    BY <1>1, Invariance, PTL
=============================================================================
