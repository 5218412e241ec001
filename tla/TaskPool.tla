------------------------------ MODULE TaskPool ------------------------------
(***************************************************************************)
(* What IsaSim::launch relies on the thread pool for: every task that is   *)
(* submitted is started once, in the order of submission, and finishes     *)
(* before the pool is closed.  A task is its rank in that order.           *)
(***************************************************************************)
EXTENDS Naturals

CONSTANT Tasks   \* a set of numbers

VARIABLES submitted, started, finished, closed

tvars == <<submitted, started, finished, closed>>

TPInit == submitted = {} /\ started = {} /\ finished = {} /\ closed = FALSE

Submit(t) ==
    /\ ~closed
    /\ t \notin submitted
    /\ submitted' = submitted \cup {t}
    /\ UNCHANGED <<started, finished, closed>>

Start(t) ==
    /\ t \in submitted \ started
    /\ \A u \in submitted \ started : t <= u
    /\ started' = started \cup {t}
    /\ UNCHANGED <<submitted, finished, closed>>

Finish(t) ==
    /\ t \in started \ finished
    /\ finished' = finished \cup {t}
    /\ UNCHANGED <<submitted, started, closed>>

Close ==
    /\ submitted = finished
    /\ closed' = TRUE
    /\ UNCHANGED <<submitted, started, finished>>

TPNext == (\E t \in Tasks : Submit(t)) \/ (\E t \in submitted : Start(t) \/ Finish(t)) \/ Close

TPSpec == TPInit /\ [][TPNext]_tvars
=============================================================================
