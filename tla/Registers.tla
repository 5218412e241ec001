----------------------------- MODULE Registers -----------------------------
(***************************************************************************)
(* What a program may expect of the scalar registers of a warp: a register *)
(* holds the value last written to it, and the constant registers keep     *)
(* theirs.                                                                 *)
(***************************************************************************)
CONSTANTS Index, Constant, Values

VARIABLE reg

Write(r, v) ==
    reg' = IF r \in Constant THEN reg ELSE [reg EXCEPT ![r] = v]

RInit == reg \in [Index -> Values]

RNext == \E r \in Index : \E v \in Values : Write(r, v)

RSpec == RInit /\ [][RNext]_reg
=============================================================================
