----------------------------- MODULE KernelInfo -----------------------------
(***************************************************************************)
(* The CTA and thread cursors of a kernel (src/model/KernelInfo.cpp and    *)
(* src/model/inc/KernelInfo.h), used by one thread at a time.  Module      *)
(* Launch shows what happens when the launcher and the workers share them. *)
(***************************************************************************)
EXTENDS Dim3

CONSTANTS
    Dims,     \* the dim3 values a grid or a block may have
    Extra     \* bound: how many increments past the last thread are tried

ASSUME DimsAssumption == Dims \subseteq [x : Nat, y : Nat, z : Nat] /\ Extra \in Nat

VARIABLES
    grid,     \* m_grid_dim
    block,    \* m_block_dim
    nextCta,  \* m_next_cta
    nextTid,  \* m_next_tid
    ctas,     \* calls of increment_cta_id so far
    tids      \* calls of increment_thread_id since the last reset

vars == <<grid, block, nextCta, nextTid, ctas, tids>>

Init ==
    /\ grid \in Dims
    /\ block \in Dims
    /\ nextCta = Zero
    /\ nextTid = Zero
    /\ ctas = 0
    /\ tids = 0

(* Mutant: the thread cursor is not reset for the next block.              *)
IncrementCtaIdOnly ==
    /\ ~NoMore(nextCta, grid)
    /\ nextCta' = Increment(nextCta, grid)
    /\ ctas' = ctas + 1
    /\ tids' = 0
    /\ UNCHANGED <<grid, block, nextTid>>

(* increment_cta_id, called by launch while no_more_ctas_to_run is false.  *)
IncrementCtaId ==
    /\ ~NoMore(nextCta, grid)
    /\ nextCta' = Increment(nextCta, grid)
    /\ nextTid' = Zero
    /\ ctas' = ctas + 1
    /\ tids' = 0
    /\ UNCHANGED <<grid, block>>

(* increment_thread_id, called by createThread for every thread.           *)
IncrementThreadId ==
    /\ tids < Count(block) + Extra
    /\ nextTid' = Increment(nextTid, block)
    /\ tids' = tids + 1
    /\ UNCHANGED <<grid, block, nextCta, ctas>>

Next == IncrementCtaId \/ IncrementThreadId

Spec == Init /\ [][Next]_vars
-----------------------------------------------------------------------------
Within(bound) == [x : 0..bound.x, y : 0..bound.y, z : 0..bound.z]

TypeOK ==
    /\ grid \in Dims /\ block \in Dims
    /\ nextCta \in Within(grid)
    /\ nextTid \in Within(block)
    /\ ctas \in Nat /\ tids \in Nat

(* The cursor walks the grid once, in the order of the linear index, and   *)
(* no_more_ctas_to_run holds exactly when num_blocks() blocks are passed;  *)
(* a grid with an empty dimension has none.                                *)
WalksGrid ==
    /\ TypeOK
    /\ NoMore(nextCta, grid) <=> ctas = Count(grid)
    /\ ~NoMore(nextCta, grid) => Linear(nextCta, grid) = ctas

(* more_threads_in_cta holds exactly for the first threads_per_cta() ids,  *)
(* which come in linear order; past them the cursor never starts over.     *)
WalksBlock ==
    /\ NoMore(nextTid, block) <=> tids >= Count(block)
    /\ ~NoMore(nextTid, block) => Linear(nextTid, block) = tids
=============================================================================
