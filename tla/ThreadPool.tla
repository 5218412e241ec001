----------------------------- MODULE ThreadPool -----------------------------
(***************************************************************************)
(* The thread pool of src/common/ThreadPool.h: an owner that constructs    *)
(* the pool, adds NTasks tasks and destroys the pool, and the workers.     *)
(* A critical section of pool_mutex_ is one step; what a thread does       *)
(* outside it (the test of the worker loop, the notifications, a task) is  *)
(* a step of its own.                                                      *)
(***************************************************************************)
EXTENDS Naturals, Sequences, FiniteSets

CONSTANTS
    Workers,   \* workers_: min(2 * cpu_count, block_count) threads
    NTasks     \* the number of tasks the owner adds

ASSUME PoolAssumption ==
    /\ NTasks \in Nat
    /\ NTasks > 0 => Workers # {}

VARIABLES
    pending,   \* pending_tasks_
    stop,      \* stop_
    waiting,   \* the workers blocked in pool_cv_.wait
    wpc,       \* where each worker is
    task,      \* the local variable task of each worker, 0 for nullptr
    opc,       \* where the owner is
    added,     \* the number of tasks added so far
    finished   \* the tasks whose call has returned

pvars == <<pending, stop, waiting, wpc, task, opc, added, finished>>

Init ==
    /\ pending = <<>>
    /\ stop = FALSE
    /\ waiting = {}
    /\ wpc = [w \in Workers |-> "loop"]
    /\ task = [w \in Workers |-> 0]
    /\ opc = "add"
    /\ added = 0
    /\ finished = {}
-----------------------------------------------------------------------------
(* addTask: push under the lock, then notify_one without it.               *)
Push ==
    /\ opc = "add"
    /\ added < NTasks
    /\ pending' = Append(pending, added + 1)
    /\ added' = added + 1
    /\ opc' = "notify"
    /\ UNCHANGED <<stop, waiting, wpc, task, finished>>

(* Mutant: nobody is notified.                                             *)
WakeNone == waiting' = waiting

WakeOne == IF waiting = {} THEN waiting' = {}
                           ELSE \E w \in waiting : waiting' = waiting \ {w}

NotifyOne ==
    /\ opc = "notify"
    /\ WakeOne
    /\ opc' = "add"
    /\ UNCHANGED <<pending, stop, wpc, task, added, finished>>

(* ~ThreadPool: stop under the lock, notify_all, join every worker.        *)
Stop ==
    /\ opc = "add"
    /\ added = NTasks
    /\ stop' = TRUE
    /\ opc' = "notifyAll"
    /\ UNCHANGED <<pending, waiting, wpc, task, added, finished>>

WakeAll == waiting' = {}

NotifyAll ==
    /\ opc = "notifyAll"
    /\ WakeAll
    /\ opc' = "join"
    /\ UNCHANGED <<pending, stop, wpc, task, added, finished>>

(* Mutant: the destructor does not join the workers.                       *)
JoinNone ==
    /\ opc = "join"
    /\ opc' = "done"
    /\ UNCHANGED <<pending, stop, waiting, wpc, task, added, finished>>

Join ==
    /\ opc = "join"
    /\ \A w \in Workers : wpc[w] = "exit"
    /\ opc' = "done"
    /\ UNCHANGED <<pending, stop, waiting, wpc, task, added, finished>>
-----------------------------------------------------------------------------
(* The condition of the worker's loop reads stop_ and, when it is set,     *)
(* pending_tasks_, both without the lock.                                  *)
TestStop(w) ==
    /\ wpc[w] = "loop"
    /\ wpc' = [wpc EXCEPT ![w] = IF stop THEN "test" ELSE "lock"]
    /\ UNCHANGED <<pending, stop, waiting, task, opc, added, finished>>

(* Mutant: a worker leaves at the stop, whatever is pending.               *)
LeavesAtStop == TRUE

LeavesLoop == pending = <<>>

TestPending(w) ==
    /\ wpc[w] = "test"
    /\ wpc' = [wpc EXCEPT ![w] = IF LeavesLoop THEN "exit" ELSE "lock"]
    /\ UNCHANGED <<pending, stop, waiting, task, opc, added, finished>>

(* The critical section of the worker: wait until there is a task or the   *)
(* pool stops, then take the oldest task if there is one.                  *)
Entering(w) == wpc[w] = "lock" \/ (wpc[w] = "wait" /\ w \notin waiting)

Wait(w) ==
    /\ Entering(w)
    /\ pending = <<>> /\ ~stop
    /\ waiting' = waiting \cup {w}
    /\ wpc' = [wpc EXCEPT ![w] = "wait"]
    /\ UNCHANGED <<pending, stop, task, opc, added, finished>>

(* Mutant: the task is not taken off the queue.                            *)
TakeCopy(w) ==
    /\ Entering(w)
    /\ pending # <<>>
    /\ task' = [task EXCEPT ![w] = Head(pending)]
    /\ wpc' = [wpc EXCEPT ![w] = "run"]
    /\ UNCHANGED <<pending, stop, waiting, opc, added, finished>>

Take(w) ==
    /\ Entering(w)
    /\ pending # <<>>
    /\ task' = [task EXCEPT ![w] = Head(pending)]
    /\ pending' = Tail(pending)
    /\ wpc' = [wpc EXCEPT ![w] = "run"]
    /\ UNCHANGED <<stop, waiting, opc, added, finished>>

TakeNone(w) ==
    /\ Entering(w)
    /\ pending = <<>> /\ stop
    /\ wpc' = [wpc EXCEPT ![w] = "loop"]
    /\ UNCHANGED <<pending, stop, waiting, task, opc, added, finished>>

(* A condition variable may wake a waiter that nobody notified.            *)
SpuriousWake(w) ==
    /\ w \in waiting
    /\ waiting' = waiting \ {w}
    /\ UNCHANGED <<pending, stop, wpc, task, opc, added, finished>>

(* The call of the task returns.                                           *)
Run(w) ==
    /\ wpc[w] = "run"
    /\ finished' = finished \cup {task[w]}
    /\ task' = [task EXCEPT ![w] = 0]
    /\ wpc' = [wpc EXCEPT ![w] = "loop"]
    /\ UNCHANGED <<pending, stop, waiting, opc, added>>

Owner == Push \/ NotifyOne \/ Stop \/ NotifyAll \/ Join
Enter(w) == Wait(w) \/ Take(w) \/ TakeNone(w)
Worker(w) == TestStop(w) \/ TestPending(w) \/ Enter(w) \/ Run(w)
Destroyed == opc = "done" /\ UNCHANGED pvars

Next == Owner \/ (\E w \in Workers : Worker(w) \/ SpuriousWake(w)) \/ Destroyed

Spec == Init /\ [][Next]_pvars

(* Every thread that can go on does: the scheduler of the host, and a      *)
(* mutex that lets each thread in some time.  A task returns.              *)
FairSpec == Spec /\ WF_pvars(Owner) /\ \A w \in Workers : WF_pvars(Worker(w))
-----------------------------------------------------------------------------
Running == { w \in Workers : wpc[w] = "run" }

TypeOK ==
    /\ pending \in Seq(1..NTasks)
    /\ stop \in BOOLEAN
    /\ waiting \subseteq Workers
    /\ wpc \in [Workers -> {"loop", "test", "lock", "wait", "run", "exit"}]
    /\ task \in [Workers -> 0..NTasks]
    /\ opc \in {"add", "notify", "notifyAll", "join", "done"}
    /\ added \in 0..NTasks
    /\ finished \subseteq 1..NTasks

(* No task is lost or run twice: each task added is either pending, with   *)
(* one worker, or finished.                                                *)
EachTaskOnce ==
    /\ \A v, w \in Running : v # w => task[v] # task[w]
    /\ LET queued  == { pending[i] : i \in DOMAIN pending }
           running == { task[w] : w \in Running }
       IN  /\ queued \cup running \cup finished = 1..added
           /\ queued \cap running = {}
           /\ queued \cap finished = {}
           /\ running \cap finished = {}

(* The unlocked test of the loop never lets a worker go while a task is    *)
(* still to be taken, and the destructor returns after the last task.      *)
NoTaskAbandoned ==
    /\ (\E w \in Workers : wpc[w] = "exit") => pending = <<>> /\ added = NTasks
    /\ opc = "done" => finished = 1..NTasks

(* A worker asleep while a task is pending is never everyone asleep:       *)
(* addTask is about to notify, or another worker will find the task.       *)
NoLostWakeup ==
    pending # <<>> /\ waiting = Workers => opc = "notify"

(* The pool keeps the promise of TaskPool.                                 *)
Abstract == INSTANCE TaskPool WITH
    Tasks     <- 1..NTasks,
    submitted <- 1..added,
    started   <- 1..(added - Len(pending)),
    finished  <- finished,
    closed    <- opc = "done"

ImplementsTaskPool == Abstract!TPSpec

(* The destructor returns: every worker sees the stop and leaves.          *)
Terminates == <>(opc = "done")
=============================================================================
