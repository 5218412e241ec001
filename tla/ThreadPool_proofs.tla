------------------------- MODULE ThreadPool_proofs -------------------------
(***************************************************************************)
(* The thread pool keeps the promise of TaskPool for every number of       *)
(* workers and tasks.                                                      *)
(***************************************************************************)
EXTENDS ThreadPool, TLAPS

(* The tasks taken from the queue so far are 1..taken.                     *)
taken == added - Len(pending)

(* The queue holds the tasks after the ones taken, in order.               *)
QueueInv ==
    /\ Len(pending) <= added
    /\ \A i \in DOMAIN pending : pending[i] = taken + i

(* The tasks taken are shared out between the running workers and the      *)
(* finished tasks.                                                         *)
TakenInv ==
    /\ \A w \in Running : task[w] \in 1..taken /\ task[w] \notin finished
    /\ \A v, w \in Running : v # w => task[v] # task[w]
    /\ finished \subseteq 1..taken
    /\ \A t \in 1..taken : t \in finished \/ \E w \in Running : task[w] = t

(* What the control points of the owner and of the workers imply.          *)
ControlInv ==
    /\ stop <=> opc \in {"notifyAll", "join", "done"}
    /\ stop => added = NTasks
    /\ \A w \in Workers : wpc[w] \in {"test", "exit"} => stop
    /\ \A w \in Workers : wpc[w] = "exit" => pending = <<>>
    /\ opc = "done" => \A w \in Workers : wpc[w] = "exit"
    /\ \A w \in waiting : wpc[w] = "wait"

IInv == TypeOK /\ QueueInv /\ TakenInv /\ ControlInv /\ NoLostWakeup

(* The number of tasks taken off the queue is a natural.                   *)
LEMMA TakenNat == IInv => taken \in Nat /\ taken <= added /\ added \in Nat
  BY PoolAssumption DEF IInv, TypeOK, QueueInv, taken

(* The constructor of the pool establishes the invariant.                  *)
LEMMA InitInv == Init => IInv
  <1> SUFFICES ASSUME Init PROVE IInv
    OBVIOUS
  <1> USE DEF Init
  <1>1. 0 \in 0..NTasks
    BY PoolAssumption
  <1>2. TypeOK
    <2>1. pending \in Seq(1..NTasks)
      OBVIOUS
    <2>2. wpc \in [Workers -> {"loop", "test", "lock", "wait", "run", "exit"}]
      OBVIOUS
    <2>3. task \in [Workers -> 0..NTasks]
      BY <1>1
    <2> QED
      BY <1>1, <2>1, <2>2, <2>3 DEF TypeOK
  <1>3. Running = {} /\ taken = 0
    <2>1. \A w \in Workers : wpc[w] = "loop"
      OBVIOUS
    <2>2. Running = {}
      BY <2>1 DEF Running
    <2>3. Len(pending) = 0 /\ added = 0
      OBVIOUS
    <2> HIDE DEF Init
    <2>4. taken = 0
      BY <2>3 DEF taken
    <2> QED
      BY <2>2, <2>4
  <1>4. QueueInv
    BY DEF QueueInv
  <1>5. TakenInv
    BY <1>3 DEF TakenInv
  <1>6. ControlInv /\ NoLostWakeup
    BY DEF ControlInv, NoLostWakeup
  <1> QED
    BY <1>2, <1>4, <1>5, <1>6 DEF IInv

(* addTask keeps the invariant when it pushes a task.                      *)
LEMMA PushInv == IInv /\ Push => IInv'
  <1> SUFFICES ASSUME IInv, Push PROVE IInv'
    OBVIOUS
  <1>1. TypeOK /\ QueueInv /\ TakenInv /\ ControlInv
    BY DEF IInv
  <1>2. /\ added \in Nat /\ added' = added + 1 /\ added' \in 1..NTasks
        /\ pending \in Seq(1..NTasks) /\ pending' = Append(pending, added + 1)
        /\ opc = "add" /\ opc' = "notify" /\ added < NTasks
        /\ stop' = stop /\ waiting' = waiting /\ wpc' = wpc /\ task' = task
        /\ finished' = finished
    BY <1>1, PoolAssumption DEF Push, TypeOK
  <1>3. /\ pending' \in Seq(1..NTasks) /\ Len(pending') = Len(pending) + 1
        /\ \A i \in 1..Len(pending) : pending'[i] = pending[i]
        /\ pending'[Len(pending) + 1] = added + 1
    BY <1>2
  <1>4. taken' = taken
    BY <1>2, <1>3 DEF taken
  <1>5. TypeOK'
    BY <1>1, <1>2, <1>3 DEF TypeOK
  <1>6. QueueInv'
    <2>1. Len(pending') <= added'
      BY <1>1, <1>2, <1>3 DEF QueueInv
    <2>2. ASSUME NEW i \in DOMAIN pending' PROVE pending'[i] = taken' + i
      <3>1. i \in 1..Len(pending) \/ i = Len(pending) + 1
        BY <1>2, <1>3
      <3>2. CASE i \in 1..Len(pending)
        BY <1>1, <1>2, <1>3, <1>4, <3>2 DEF QueueInv
      <3>3. CASE i = Len(pending) + 1
        BY <1>2, <1>3, <1>4, <3>3 DEF taken
      <3> QED
        BY <3>1, <3>2, <3>3
    <2> QED
      BY <2>1, <2>2 DEF QueueInv
  <1>7. Running' = Running
    BY <1>2 DEF Running
  <1>8. TakenInv'
    BY <1>1, <1>2, <1>4, <1>7 DEF TakenInv
  <1>9. ~stop
    BY <1>1, <1>2 DEF ControlInv
  <1>10. ControlInv'
    BY <1>1, <1>2, <1>9 DEF ControlInv
  <1>11. NoLostWakeup'
    BY <1>2 DEF NoLostWakeup
  <1> QED
    BY <1>5, <1>6, <1>8, <1>10, <1>11 DEF IInv

(* The notifications and the destructor keep the invariant.                *)
LEMMA OwnerInv == IInv /\ (NotifyOne \/ Stop \/ NotifyAll \/ Join) => IInv'
  <1> SUFFICES ASSUME IInv, NotifyOne \/ Stop \/ NotifyAll \/ Join PROVE IInv'
    OBVIOUS
  <1>1. TypeOK /\ QueueInv /\ TakenInv /\ ControlInv /\ NoLostWakeup
    BY DEF IInv
  <1>2. pending' = pending /\ wpc' = wpc /\ task' = task /\ added' = added /\ finished' = finished
    BY DEF NotifyOne, Stop, NotifyAll, Join
  <1>3. waiting' \subseteq waiting
    BY DEF NotifyOne, Stop, NotifyAll, Join, WakeOne, WakeAll
  <1>4. TypeOK'
    BY <1>1, <1>2, <1>3 DEF TypeOK, NotifyOne, Stop, NotifyAll, Join
  <1>5. QueueInv' /\ TakenInv'
    BY <1>1, <1>2 DEF QueueInv, TakenInv, Running, taken
  <1>6. ControlInv'
    BY <1>1, <1>2, <1>3 DEF ControlInv, NotifyOne, Stop, NotifyAll, Join
  <1>7. NoLostWakeup'
    <2> SUFFICES ASSUME pending' # <<>>, waiting' = Workers PROVE opc' = "notify"
      BY DEF NoLostWakeup
    <2>1. waiting = Workers
      BY <1>1, <1>3 DEF TypeOK
    <2>2. opc = "notify"
      BY <1>1, <1>2, <2>1 DEF NoLostWakeup
    <2>3. Workers # {}
      BY <1>1, <1>2, PoolAssumption DEF TypeOK, QueueInv
    <2> QED
      BY <2>1, <2>2, <2>3 DEF NotifyOne, Stop, NotifyAll, Join, WakeOne
  <1> QED
    BY <1>4, <1>5, <1>6, <1>7 DEF IInv

(* The steps of workerThread that move no task keep the invariant.         *)
LEMMA WorkerStepInv ==
    ASSUME NEW w \in Workers,
           IInv, TestStop(w) \/ TestPending(w) \/ Wait(w) \/ TakeNone(w) \/ SpuriousWake(w)
    PROVE  IInv'
  <1>1. TypeOK /\ QueueInv /\ TakenInv /\ ControlInv /\ NoLostWakeup
    BY DEF IInv
  <1>2. /\ pending' = pending /\ task' = task /\ added' = added /\ finished' = finished
        /\ stop' = stop /\ opc' = opc
    BY DEF TestStop, TestPending, Wait, TakeNone, SpuriousWake
  <1>3. TypeOK'
    BY <1>1, <1>2 DEF TypeOK, TestStop, TestPending, Wait, TakeNone, SpuriousWake
  <1>4. wpc[w] # "run" \/ wpc' = wpc
    BY DEF TestStop, TestPending, Wait, TakeNone, SpuriousWake, Entering
  <1>5. Running' = Running
    BY <1>1, <1>2, <1>4 DEF Running, TestStop, TestPending, Wait, TakeNone, SpuriousWake, TypeOK
  <1>6. QueueInv' /\ TakenInv'
    BY <1>1, <1>2, <1>5 DEF QueueInv, TakenInv, taken
  <1>7. ControlInv'
    <2>1. wpc[w] # "exit" \/ wpc' = wpc
      BY DEF TestStop, TestPending, Wait, TakeNone, SpuriousWake, Entering
    <2> QED
      BY <1>1, <1>2, <2>1 DEF ControlInv, TypeOK, TestStop, TestPending, Wait, TakeNone,
                              SpuriousWake, Entering, LeavesLoop
  <1>8. NoLostWakeup'
    BY <1>1, <1>2 DEF NoLostWakeup, TypeOK, TestStop, TestPending, Wait, TakeNone, SpuriousWake
  <1> QED
    BY <1>3, <1>6, <1>7, <1>8 DEF IInv

(* Taking a task moves it from the front of the queue to the worker.       *)
LEMMA TakeFacts ==
    ASSUME NEW w \in Workers, IInv, Take(w)
    PROVE  /\ task' = [task EXCEPT ![w] = taken + 1]
           /\ pending' \in Seq(1..NTasks) /\ Len(pending') = Len(pending) - 1
           /\ \A i \in DOMAIN pending' : pending'[i] = taken + 1 + i
           /\ taken' = taken + 1 /\ taken' <= added /\ taken + 1 \in 1..NTasks
  <1>1. TypeOK /\ QueueInv
    BY DEF IInv
  <1>2. pending \in Seq(1..NTasks) /\ pending # <<>> /\ pending' = Tail(pending)
    BY <1>1 DEF TypeOK, Take
  <1>3. Len(pending) > 0 /\ Head(pending) = pending[1] /\ 1 \in DOMAIN pending
    BY <1>2
  <1>4. Head(pending) = taken + 1
    BY <1>1, <1>3 DEF QueueInv
  <1>5. /\ pending' \in Seq(1..NTasks) /\ Len(pending') = Len(pending) - 1
        /\ \A i \in DOMAIN pending' : pending'[i] = pending[i + 1] /\ i + 1 \in DOMAIN pending
        /\ DOMAIN pending' \subseteq Nat
    BY <1>2, <1>3
  <1>6. taken \in Nat /\ added \in Nat /\ added' = added /\ added <= NTasks
    BY <1>1, TakenNat, PoolAssumption DEF Take, TypeOK
  <1>7. \A i \in DOMAIN pending' : pending'[i] = taken + 1 + i
    BY <1>1, <1>5, <1>6 DEF QueueInv
  <1>8. taken' = taken + 1 /\ taken' <= added
    BY <1>3, <1>5, <1>6 DEF taken
  <1>9. taken + 1 \in 1..NTasks
    BY <1>6, <1>8, PoolAssumption
  <1>10. task' = [task EXCEPT ![w] = taken + 1]
    BY <1>4 DEF Take
  <1> QED
    BY <1>5, <1>7, <1>8, <1>9, <1>10

(* Taking the oldest task keeps the invariant.                             *)
LEMMA TakeInv == ASSUME NEW w \in Workers, IInv, Take(w) PROVE IInv'
  <1>1. TypeOK /\ QueueInv /\ TakenInv /\ ControlInv /\ NoLostWakeup
    BY DEF IInv
  <1>2. /\ task' = [task EXCEPT ![w] = taken + 1]
        /\ pending' \in Seq(1..NTasks) /\ Len(pending') = Len(pending) - 1
        /\ \A i \in DOMAIN pending' : pending'[i] = taken + 1 + i
        /\ taken' = taken + 1 /\ taken' <= added /\ taken + 1 \in 1..NTasks
    BY TakeFacts
  <1>3. /\ wpc' = [wpc EXCEPT ![w] = "run"] /\ wpc[w] # "run" /\ wpc[w] # "exit" /\ w \notin waiting
        /\ stop' = stop /\ waiting' = waiting /\ opc' = opc /\ added' = added /\ finished' = finished
        /\ pending # <<>>
    BY <1>1 DEF Take, Entering, ControlInv
  <1>4. taken \in Nat /\ added \in Nat
    BY TakenNat
  <1>5. TypeOK'
    BY <1>1, <1>2, <1>3 DEF TypeOK
  <1>6. QueueInv'
    BY <1>1, <1>2, <1>3, <1>4 DEF QueueInv, TypeOK
  <1>7. Running' = Running \cup {w} /\ w \notin Running
    BY <1>1, <1>3 DEF Running, TypeOK
  <1>8. \A v \in Running : task'[v] = task[v]
    BY <1>1, <1>2, <1>7 DEF TypeOK, Running
  <1>9. task'[w] = taken + 1
    BY <1>1, <1>2 DEF TypeOK
  <1>10. \A t \in 1..taken : t \in 1..taken' /\ t # taken + 1
    BY <1>2, <1>4
  <1>11. \A t \in 1..taken' : t \in 1..taken \/ t = taken + 1
    BY <1>2, <1>4
  <1>12. taken + 1 \in 1..taken'
    BY <1>2, <1>4
  <1>13. TakenInv'
    <2>1. \A v \in Running' : task'[v] \in 1..taken' /\ task'[v] \notin finished'
      BY <1>1, <1>3, <1>7, <1>8, <1>9, <1>10, <1>12 DEF TakenInv
    <2>2. \A u, v \in Running' : u # v => task'[u] # task'[v]
      BY <1>1, <1>7, <1>8, <1>9, <1>10 DEF TakenInv
    <2>3. finished' \subseteq 1..taken'
      BY <1>1, <1>3, <1>10 DEF TakenInv
    <2>4. \A t \in 1..taken' : t \in finished' \/ \E v \in Running' : task'[v] = t
      BY <1>1, <1>3, <1>7, <1>8, <1>9, <1>11 DEF TakenInv
    <2> QED
      BY <2>1, <2>2, <2>3, <2>4 DEF TakenInv
  <1>14. ControlInv'
    BY <1>1, <1>3 DEF ControlInv, TypeOK
  <1>15. NoLostWakeup'
    BY <1>3 DEF NoLostWakeup
  <1> QED
    BY <1>5, <1>6, <1>13, <1>14, <1>15 DEF IInv

(* The return of a task keeps the invariant.                               *)
LEMMA RunInv == ASSUME NEW w \in Workers, IInv, Run(w) PROVE IInv'
  <1>1. TypeOK /\ QueueInv /\ TakenInv /\ ControlInv /\ NoLostWakeup
    BY DEF IInv
  <1>2. /\ finished' = finished \cup {task[w]} /\ task' = [task EXCEPT ![w] = 0]
        /\ wpc' = [wpc EXCEPT ![w] = "loop"] /\ wpc[w] = "run" /\ w \in Running
        /\ pending' = pending /\ stop' = stop /\ waiting' = waiting /\ opc' = opc /\ added' = added
    BY DEF Run, Running
  <1>3. task[w] \in 1..taken /\ task[w] \notin finished /\ task[w] \in 1..NTasks
    BY <1>1, <1>2, TakenNat, PoolAssumption DEF TakenInv, TypeOK, IInv
  <1>4. TypeOK'
    <2>1. 0 \in 0..NTasks
      BY PoolAssumption
    <2> QED
      BY <1>1, <1>2, <1>3, <2>1 DEF TypeOK
  <1>5. QueueInv' /\ taken' = taken
    BY <1>1, <1>2 DEF QueueInv, taken
  <1>6. Running' = Running \ {w}
    BY <1>1, <1>2 DEF Running, TypeOK
  <1>7. \A v \in Running' : task'[v] = task[v] /\ v # w /\ v \in Running
    BY <1>1, <1>2, <1>6 DEF TypeOK, Running
  <1>8. TakenInv'
    <2>1. \A v \in Running' : task'[v] \in 1..taken' /\ task'[v] \notin finished'
      BY <1>1, <1>2, <1>5, <1>7 DEF TakenInv
    <2>2. \A u, v \in Running' : u # v => task'[u] # task'[v]
      BY <1>1, <1>7 DEF TakenInv
    <2>3. finished' \subseteq 1..taken'
      BY <1>1, <1>2, <1>3, <1>5 DEF TakenInv
    <2>4. \A t \in 1..taken' : t \in finished' \/ \E v \in Running' : task'[v] = t
      BY <1>1, <1>2, <1>5, <1>6, <1>7 DEF TakenInv
    <2> QED
      BY <2>1, <2>2, <2>3, <2>4 DEF TakenInv
  <1>9. ControlInv'
    BY <1>1, <1>2 DEF ControlInv, TypeOK
  <1>10. NoLostWakeup'
    BY <1>1, <1>2 DEF NoLostWakeup
  <1> QED
    BY <1>4, <1>5, <1>8, <1>9, <1>10 DEF IInv

(* Every step of the pool keeps the invariant.                             *)
LEMMA NextInv == IInv /\ [Next]_pvars => IInv'
  <1>1. IInv /\ UNCHANGED pvars => IInv'
    BY DEF pvars, IInv, TypeOK, QueueInv, TakenInv, ControlInv, NoLostWakeup, Running, taken
  <1> QED
    BY <1>1, PushInv, OwnerInv, WorkerStepInv, TakeInv, RunInv
    DEF Next, Owner, Worker, Enter, Destroyed

(* The inductive invariant of the pool: the tasks are conserved, a worker  *)
(* that has left the loop has seen the stop and an empty queue, and        *)
(* someone is awake for every pending task (addTask, workerThread,         *)
(* ~ThreadPool).                                                           *)
THEOREM Invariance == Spec => []IInv
  BY InitInv, NextInv, PTL DEF Spec

(* Every task added is at one place: in the queue, with one worker, or     *)
(* finished (the critical sections of addTask and workerThread).           *)
THEOREM TasksConserved == Spec => []EachTaskOnce
  <1>1. IInv => EachTaskOnce
    <2> SUFFICES ASSUME IInv PROVE EachTaskOnce
      OBVIOUS
    <2> DEFINE queued  == { pending[i] : i \in DOMAIN pending }
               running == { task[w] : w \in Running }
    <2>1. TakenInv /\ QueueInv /\ pending \in Seq(1..NTasks)
      BY DEF IInv, TypeOK
    <2>2. taken \in Nat /\ taken <= added /\ added \in Nat /\ Len(pending) = added - taken
      BY <2>1, TakenNat DEF taken
    <2>3. \A i \in DOMAIN pending : pending[i] = taken + i /\ i \in 1..(added - taken)
      BY <2>1, <2>2 DEF QueueInv
    <2>4. queued = (taken + 1)..added
      <3>1. \A t \in (taken + 1)..added : t - taken \in DOMAIN pending /\ t = taken + (t - taken)
        BY <2>1, <2>2
      <3>2. \A t \in (taken + 1)..added : pending[t - taken] = t
        BY <2>3, <3>1
      <3>3. \A i \in DOMAIN pending : pending[i] \in (taken + 1)..added
        BY <2>2, <2>3
      <3> QED
        BY <3>1, <3>2, <3>3
    <2>5. running \cup finished = 1..taken /\ running \cap finished = {}
      BY <2>1 DEF TakenInv
    <2>6. /\ 1..taken \cup (taken + 1)..added = 1..added
          /\ 1..taken \cap (taken + 1)..added = {}
      BY <2>2
    <2> HIDE DEF queued, running
    <2>7. /\ queued \cup running \cup finished = 1..added
          /\ queued \cap running = {} /\ queued \cap finished = {}
      BY <2>4, <2>5, <2>6
    <2> QED
      BY <2>1, <2>5, <2>7 DEF EachTaskOnce, TakenInv, queued, running
  <1> QED
    BY <1>1, Invariance, PTL

(* Once stopped with every worker gone, all tasks have been run.           *)
LEMMA AllExited ==
    ASSUME IInv, stop, \A w \in Workers : wpc[w] = "exit"
    PROVE  finished = 1..NTasks /\ added = NTasks
  <1>1. ControlInv /\ TakenInv /\ TypeOK
    BY DEF IInv
  <1>2. Running = {} /\ added = NTasks
    BY <1>1 DEF ControlInv, Running
  <1>3. pending = <<>>
    <2>1. CASE Workers = {}
      BY <1>1, <2>1, PoolAssumption DEF TypeOK
    <2>2. CASE Workers # {}
      BY <1>1, <2>2 DEF ControlInv
    <2> QED
      BY <2>1, <2>2
  <1>4. taken = NTasks
    BY <1>2, <1>3, PoolAssumption DEF taken
  <1> QED
    BY <1>1, <1>2, <1>4 DEF TakenInv

(* No task is pending with every worker asleep and nobody about to notify  *)
(* (addTask notifies outside the lock).                                    *)
THEOREM WakeupKept == Spec => []NoLostWakeup
  <1>1. IInv => NoLostWakeup
    BY DEF IInv
  <1> QED
    BY <1>1, Invariance, PTL

(* No worker leaves while a task is to be taken, and the destructor        *)
(* returns only after the last task (the unlocked test of the loop, join). *)
THEOREM NothingAbandoned == Spec => []NoTaskAbandoned
  <1>1. IInv => NoTaskAbandoned
    <2> SUFFICES ASSUME IInv PROVE NoTaskAbandoned
      OBVIOUS
    <2>1. ControlInv /\ TakenInv /\ TypeOK
      BY DEF IInv
    <2>2. ASSUME NEW w \in Workers, wpc[w] = "exit"
          PROVE  pending = <<>> /\ added = NTasks
      BY <2>1, <2>2 DEF ControlInv
    <2>3. opc = "done" => finished = 1..NTasks
      BY <2>1, AllExited DEF ControlInv
    <2> QED
      BY <2>2, <2>3 DEF NoTaskAbandoned
  <1> QED
    BY <1>1, Invariance, PTL

(* The pool implements TaskPool: each step of a thread is a step of the    *)
(* abstract pool or leaves it unchanged.                                   *)
THEOREM Refinement == Spec => ImplementsTaskPool
  <1> USE DEF Abstract!tvars
  <1>1. Init => Abstract!TPInit
    BY DEF Init, Abstract!TPInit
  <1>2. IInv /\ IInv' /\ [Next]_pvars => [Abstract!TPNext]_(Abstract!tvars)
    <2> SUFFICES ASSUME IInv, IInv', [Next]_pvars
                 PROVE  [Abstract!TPNext]_(Abstract!tvars)
      OBVIOUS
    <2>1. taken \in Nat /\ taken <= added /\ added \in Nat /\ added <= NTasks
      BY TakenNat, PoolAssumption DEF IInv, TypeOK
    <2>2. TypeOK /\ ControlInv /\ TakenInv
      BY DEF IInv
    <2>3. CASE Push
      <3>1. Abstract!Submit(added + 1)
        <4>1. 1..added' = 1..added \cup {added + 1} /\ added + 1 \notin 1..added
          BY <2>1, <2>3 DEF Push
        <4>2. added' - Len(pending') = added - Len(pending)
          BY <2>1, <2>2, <2>3 DEF Push, TypeOK
        <4> QED
          BY <2>3, <4>1, <4>2 DEF Abstract!Submit, Push
      <3>2. added + 1 \in 1..NTasks
        BY <2>1, <2>3, PoolAssumption DEF Push
      <3> QED
        BY <3>1, <3>2 DEF Abstract!TPNext
    <2>4. CASE NotifyOne \/ Stop \/ NotifyAll
      BY <2>2, <2>4 DEF NotifyOne, Stop, NotifyAll, ControlInv
    <2>5. CASE Join
      <3>1. finished = 1..NTasks /\ added = NTasks
        BY <2>2, <2>5, AllExited DEF Join, ControlInv
      <3> QED
        BY <2>5, <3>1 DEF Join, Abstract!TPNext, Abstract!Close
    <2>6. ASSUME NEW w \in Workers, Take(w) PROVE Abstract!TPNext
      <3>1. taken' = taken + 1 /\ taken' <= added
        BY <2>6, TakeFacts
      <3>2. taken + 1 \in 1..added /\ taken + 1 \notin 1..taken
        BY <2>1, <3>1
      <3>3. \A u \in 1..added \ 1..taken : taken + 1 <= u
        BY <2>1
      <3>4. 1..taken' = 1..taken \cup {taken + 1}
        BY <2>1, <3>1
      <3>5. Abstract!Start(taken + 1)
        BY <2>6, <3>2, <3>3, <3>4 DEF Abstract!Start, Take, taken
      <3> QED
        BY <3>2, <3>5 DEF Abstract!TPNext
    <2>7. ASSUME NEW w \in Workers, Run(w) PROVE Abstract!TPNext
      <3>1. task[w] \in 1..taken /\ task[w] \notin finished
        BY <2>2, <2>7 DEF Run, Running, TakenInv
      <3>2. task[w] \in 1..added
        BY <2>1, <3>1
      <3>3. Abstract!Finish(task[w])
        BY <2>7, <3>1 DEF Abstract!Finish, Run, taken
      <3> QED
        BY <3>2, <3>3 DEF Abstract!TPNext
    <2>8. ASSUME NEW w \in Workers,
                 TestStop(w) \/ TestPending(w) \/ Wait(w) \/ TakeNone(w) \/ SpuriousWake(w)
          PROVE  UNCHANGED Abstract!tvars
      BY <2>8 DEF TestStop, TestPending, Wait, TakeNone, SpuriousWake
    <2>9. CASE UNCHANGED pvars
      BY <2>9 DEF pvars
    <2> QED
      BY <2>3, <2>4, <2>5, <2>6, <2>7, <2>8, <2>9
      DEF Next, Owner, Worker, Enter, Destroyed
  <1> QED
    BY <1>1, <1>2, Invariance, PTL DEF Spec, ImplementsTaskPool, Abstract!TPSpec
=============================================================================
