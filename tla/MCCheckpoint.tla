---------------------------- MODULE MCCheckpoint ----------------------------
(* Programs for model-checking Checkpoint.                                 *)
EXTENDS Checkpoint

I(op) == [op |-> op, simm |-> 1]
J(op, d) == [op |-> op, simm |-> d]
Prog(s) == [i \in 0..Len(s)-1 |-> s[i+1]]

(* A scalar jump, and a branch that lanes take or leave, with an exit on   *)
(* one side: checkpoints before, inside and after the divergent region.    *)
Jump == Prog(<<J("S_BRANCH", 2), I("NOP"), I("S_BARRIER"), I("T_EXIT")>>)
Split == Prog(<<I("NOP"), J("T_CBRANCH_TCCZ", 2), I("T_EXIT"), I("T_EXIT")>>)

CpPrograms == {Jump, Split}
=============================================================================
