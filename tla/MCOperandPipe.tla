---------------------------- MODULE MCOperandPipe ----------------------------
(* A move, a move onto itself and a comparison, for two registers.         *)
EXTENDS OperandPipe

Mov == [op |-> "V_MOV_B32", src0 |-> 0, src1 |-> 0, dst |-> 1]
Cmp == [op |-> "V_CMP_LT_I32", src0 |-> 0, src1 |-> 1, dst |-> 0]
MovCmp == {Mov, Cmp}
=============================================================================
