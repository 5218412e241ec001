--------------------------- MODULE MCThreadBlock ---------------------------
(* Programs and constants for model-checking ThreadBlock.                  *)
EXTENDS ThreadBlock

I(op) == [op |-> op, simm |-> 1]
J(op, d) == [op |-> op, simm |-> d]
Prog(s) == [i \in 0..Len(s)-1 |-> s[i+1]]

(* Two divergent branches in a row, with an exit inside the first region.  *)
EarlyExit == Prog(<<J("T_CBRANCH_TCCZ", 2), I("T_EXIT"), J("T_CBRANCH_TCCNZ", 2),
                    I("NOP"), I("T_EXIT")>>)

(* A nested if-else joined by a scalar jump, then a barrier.               *)
Nested == Prog(<<J("T_CBRANCH_TCCZ", 4), J("T_CBRANCH_TCCNZ", 2), I("NOP"),
                 J("S_BRANCH", 2), I("S_NOP"), I("S_BARRIER"), I("T_EXIT")>>)

(* A loop each lane leaves on its own.                                     *)
Loop == Prog(<<I("NOP"), J("T_CBRANCH_TCCNZ", -1), I("T_EXIT")>>)

(* A branch on the scalar condition, and a subroutine jump.                *)
ScalarBranch == Prog(<<J("S_CBRANCH_SCCZ", 2), I("NOP"), J("S_CBRANCH_SCCNZ", 2),
                       I("NOP"), I("T_EXIT")>>)
Swap == Prog(<<J("S_SWAPPC", 2), I("NOP"), I("T_EXIT")>>)

Forward == {EarlyExit, Nested, ScalarBranch, Swap}
Looping == Forward \cup {Loop}
Vector  == {EarlyExit, Nested, Swap}
OnlyScalarBranch == {ScalarBranch}
OnlySwap == {Swap}
OnlyNested == {Nested}
=============================================================================
