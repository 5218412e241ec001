----------------------------- MODULE ScalarAlu -----------------------------
(***************************************************************************)
(* The scalar instructions: src/isa/InstructionSOP1.cpp, SOP2.cpp, SOPC.cpp *)
(* and SOPK.cpp, on words of W bits (32 in the code).  A 64-bit operand is *)
(* a pair of registers.  RegisterExec is an ordinary register pair; SCC is *)
(* a variable of its own.                                                  *)
(***************************************************************************)
EXTENDS Words

CONSTANTS
    MaxReg,     \* registers are 0..MaxReg
    ExecReg,    \* RegisterExec
    LitReg,     \* the register number 0xFF, which stands for the literal
    WordRegs,   \* the registers that one-word instructions name
    Literals,   \* literal constants an instruction may carry
    Ops,        \* the instructions of the run
    Collect     \* g_debug_exec > 1: operands are collected and written back

ASSUME AluAssumption ==
    /\ MaxReg \in Nat \ {0}
    /\ ExecReg \in 0..MaxReg-1 /\ LitReg \in 0..MaxReg
    /\ WordRegs \subseteq 0..MaxReg
    /\ Literals \subseteq 0..2^W-1
    /\ Collect \in BOOLEAN

Regs == 0..MaxReg
Pairs == 0..MaxReg-1

SOP2Ops == {"S_ADD_U32", "S_ADD_I32", "S_SUB_I32", "S_MIN_U32", "S_MAX_I32", "S_MAX_U32",
            "S_CSELECT_B32", "S_AND_B32", "S_OR_B32", "S_LSHL_B32", "S_LSHR_B32",
            "S_ASHR_I32", "S_MUL_I32", "S_BFE_I32"}
SOP2PairOps == {"S_AND_B64", "S_OR_B64", "S_XOR_B64", "S_ANDN2_B64", "S_NAND_B64"}
SOPKOps == {"S_MOVK_I32", "S_ADDK_I32", "S_MULK_I32", "S_CMPK_LE_U32"}
SOPCOps == {"S_CMP_EQ_I32", "S_CMP_GT_I32", "S_CMP_GE_I32", "S_CMP_LT_I32", "S_CMP_LE_I32",
            "S_CMP_GT_U32", "S_CMP_GE_U32", "S_CMP_LE_U32"}
SOP1Ops == {"S_MOV_B32", "S_NOT_B32"}
SOP1PairOps == {"S_MOV_B64", "S_WQM_B64", "S_AND_SAVEEXEC_B64"}

Nonzero(r) == <<r, Flag(r # 0)>>
-----------------------------------------------------------------------------
(* The handlers of one-word instructions: <<result, SCC>>.                 *)
(* Mutant: the carry is off by one.                                        *)
S_ADD_U32_late(a, b) == <<Wrap(a + b), Flag(a + b > 2^W)>>

S_ADD_U32(a, b) == <<Wrap(a + b), (a + b) \div 2^W>>

S_ADD_I32(a, b) ==
    LET sum == Wrap(a + b)
    IN  <<sum, IF Negative(a) # Negative(b) THEN 0
               ELSE Flag(\/ Signed(a) > 0 /\ Signed(sum) < 0
                         \/ Signed(a) < 0 /\ Signed(sum) > 0)>>

S_SUB_I32(a, b) ==
    LET diff == Wrap(a - b)
    IN  <<diff, IF Negative(a) = Negative(b) THEN 0
                ELSE Flag(\/ Signed(a) > 0 /\ Signed(diff) < 0
                          \/ Signed(a) < 0 /\ Signed(diff) > 0)>>

S_MIN_U32(a, b) == IF a < b THEN <<a, 1>> ELSE <<b, 0>>
S_MAX_U32(a, b) == IF a > b THEN <<a, 1>> ELSE <<b, 0>>
S_MAX_I32(a, b) == IF Signed(a) > Signed(b) THEN <<a, 1>> ELSE <<b, 0>>
S_CSELECT_B32(a, b, scc) == <<IF scc # 0 THEN a ELSE b, scc>>
S_AND_B32(a, b) == Nonzero(BitAnd(a, b))
S_OR_B32(a, b) == Nonzero(BitOr(a, b))

(* The shift count is taken modulo the width.                              *)
Shift(b) == b % W
S_LSHL_B32(a, b) == Nonzero(Wrap(a * 2^Shift(b)))
S_LSHR_B32(a, b) == Nonzero(a \div 2^Shift(b))
S_ASHR_I32_logical(a, b) == S_LSHR_B32(a, b)   \* mutant
S_ASHR_I32(a, b) == Nonzero(Wrap(Signed(a) \div 2^Shift(b)))
S_MUL_I32(a, b, scc) == <<Wrap(Signed(a) * Signed(b)), scc>>

(* The offset is in the low bits of the second source, the width in its    *)
(* upper half.                                                             *)
Offset(b) == b % W
Width(b) == (b \div 2^(W \div 2)) % (4 * W)

S_BFE_I32(a, b) ==
    LET up == Signed(Wrap(a * 2^(W - Offset(b) - Width(b))))
    IN  Nonzero(IF Width(b) = 0 THEN 0
                ELSE IF Width(b) + Offset(b) < W THEN Wrap(up \div 2^(W - Width(b)))
                ELSE Wrap(Signed(a) \div 2^Offset(b)))

SOP2(op, a, b, scc) ==
    CASE op = "S_ADD_U32" -> S_ADD_U32(a, b)
      [] op = "S_ADD_I32" -> S_ADD_I32(a, b)
      [] op = "S_SUB_I32" -> S_SUB_I32(a, b)
      [] op = "S_MIN_U32" -> S_MIN_U32(a, b)
      [] op = "S_MAX_U32" -> S_MAX_U32(a, b)
      [] op = "S_MAX_I32" -> S_MAX_I32(a, b)
      [] op = "S_CSELECT_B32" -> S_CSELECT_B32(a, b, scc)
      [] op = "S_AND_B32" -> S_AND_B32(a, b)
      [] op = "S_OR_B32" -> S_OR_B32(a, b)
      [] op = "S_LSHL_B32" -> S_LSHL_B32(a, b)
      [] op = "S_LSHR_B32" -> S_LSHR_B32(a, b)
      [] op = "S_ASHR_I32" -> S_ASHR_I32(a, b)
      [] op = "S_MUL_I32" -> S_MUL_I32(a, b, scc)
      [] op = "S_BFE_I32" -> S_BFE_I32(a, b)

(* The immediate of SOPK has half the width and is sign extended to k; the *)
(* destination is the other source.  S_CMPK_LE_U32 is not implemented.     *)
S_ADDK_I32(a, k) == S_ADD_I32(a, Wrap(k))
S_MULK_I32(a, k) ==
    LET product == Wrap(Signed(a) * k)
    IN  <<product, Flag(Signed(a) * k > Signed(product))>>

SOPK(op, a, k, scc) ==
    CASE op = "S_MOVK_I32" -> <<Wrap(k), scc>>
      [] op = "S_ADDK_I32" -> S_ADDK_I32(a, k)
      [] op = "S_MULK_I32" -> S_MULK_I32(a, k)
      [] op = "S_CMPK_LE_U32" -> <<a, scc>>

(* The comparisons.                                                        *)
S_CMP_EQ_I32(a, b) == Signed(a) = Signed(b)
S_CMP_GT_I32(a, b) == Signed(a) > Signed(b)
S_CMP_GE_I32(a, b) == Signed(a) >= Signed(b)
S_CMP_LT_I32(a, b) == Signed(a) < Signed(b)
S_CMP_LE_I32(a, b) == Signed(a) <= Signed(b)
S_CMP_GT_U32(a, b) == a > b
S_CMP_GE_U32(a, b) == a >= b
S_CMP_LE_U32(a, b) == a <= b

SOPC(op, a, b) ==
    CASE op = "S_CMP_EQ_I32" -> S_CMP_EQ_I32(a, b)
      [] op = "S_CMP_GT_I32" -> S_CMP_GT_I32(a, b)
      [] op = "S_CMP_GE_I32" -> S_CMP_GE_I32(a, b)
      [] op = "S_CMP_LT_I32" -> S_CMP_LT_I32(a, b)
      [] op = "S_CMP_LE_I32" -> S_CMP_LE_I32(a, b)
      [] op = "S_CMP_GT_U32" -> S_CMP_GT_U32(a, b)
      [] op = "S_CMP_GE_U32" -> S_CMP_GE_U32(a, b)
      [] op = "S_CMP_LE_U32" -> S_CMP_LE_U32(a, b)

(* One word of a pair instruction.                                         *)
S_AND_B64(a, b) == BitAnd(a, b)
S_OR_B64(a, b) == BitOr(a, b)
S_XOR_B64(a, b) == BitXor(a, b)
S_ANDN2_B64(a, b) == BitAnd(a, Invert(b))
S_NAND_B64(a, b) == Invert(BitAnd(a, b))

PairWord(op, a, b) ==
    CASE op = "S_AND_B64" -> S_AND_B64(a, b)
      [] op = "S_OR_B64" -> S_OR_B64(a, b)
      [] op = "S_XOR_B64" -> S_XOR_B64(a, b)
      [] op = "S_ANDN2_B64" -> S_ANDN2_B64(a, b)
      [] op = "S_NAND_B64" -> S_NAND_B64(a, b)
-----------------------------------------------------------------------------
VARIABLES
    s,      \* s[r]: m_sreg
    scc,    \* m_sreg[RegisterScc]
    last    \* the instruction just executed, and the registers before it

vars == <<s, scc, last>>

Before(op, x, y, d, k) ==
    [op |-> op, x |-> x, y |-> y, d |-> d, k |-> k, s |-> s, scc |-> scc]

Init ==
    /\ s \in [Regs -> Word]
    /\ scc \in {0, 1}
    /\ last = [op |-> "none"]

(* An SOP2 handler reads its sources with getSreg, also register 0xFF.     *)
ReadSOP2(x, k) == s[x]

ExecuteSOP2(op, x, y, d, k) ==
    /\ op \in SOP2Ops
    /\ ~(x = LitReg /\ y = LitReg)
    /\ LET r == SOP2(op, ReadSOP2(x, k), ReadSOP2(y, k), scc)
       IN  s' = [s EXCEPT ![d] = r[1]] /\ scc' = r[2]
    /\ last' = Before(op, x, y, d, k)

(* An SOPC handler replaces register 0xFF by the literal.                  *)
ReadSOPC(x, k) == IF x = LitReg THEN k ELSE s[x]

ExecuteSOPC(op, x, y, k) ==
    /\ op \in SOPCOps
    /\ ~(x = LitReg /\ y = LitReg)
    /\ scc' = Flag(SOPC(op, ReadSOPC(x, k), ReadSOPC(y, k)))
    /\ UNCHANGED s
    /\ last' = Before(op, x, y, 0, k)

ExecuteSOPK(op, d, k) ==
    /\ op \in SOPKOps
    /\ LET r == SOPK(op, s[d], k, scc)
       IN  s' = [s EXCEPT ![d] = r[1]] /\ scc' = r[2]
    /\ last' = Before(op, d, d, d, k)

(* All four words are read before the first is written.                    *)
WritePair(d, lo, hi) == [[s EXCEPT ![d] = lo] EXCEPT ![d + 1] = hi]

(* Mutant: only the low word is tested.                                    *)
PairSccLow(lo, hi) == Flag(lo # 0)

PairScc(lo, hi) == Flag(lo # 0 \/ hi # 0)

ExecutePair(op, x, y, d) ==
    /\ op \in SOP2PairOps
    /\ LET lo == PairWord(op, s[x], s[y])
           hi == PairWord(op, s[x + 1], s[y + 1])
       IN  s' = WritePair(d, lo, hi) /\ scc' = PairScc(lo, hi)
    /\ last' = Before(op, x, y, d, 0)

(* S_MOV_B32 and S_NOT_B32 work on the collected operands; SCC is not      *)
(* written.                                                                *)
ExecuteSOP1(op, x, d) ==
    /\ op \in SOP1Ops
    /\ s' = IF Collect THEN [s EXCEPT ![d] = IF op = "S_NOT_B32" THEN Invert(s[x]) ELSE s[x]]
                       ELSE s
    /\ UNCHANGED scc
    /\ last' = Before(op, x, x, d, 0)

(* S_MOV_B64; S_WQM_B64, which is not implemented; S_AND_SAVEEXEC_B64,     *)
(* which writes the registers itself.  WriteBack then writes the value of  *)
(* the destination operand, which only S_MOV_B64 has set.                  *)
ExecuteSOP1Pair(op, x, d) ==
    /\ op \in SOP1PairOps
    /\ LET lo    == BitAnd(s[x], s[ExecReg])
           hi    == BitAnd(s[x + 1], s[ExecReg + 1])
           saved == [[WritePair(d, s[ExecReg], s[ExecReg + 1])
                        EXCEPT ![ExecReg] = lo] EXCEPT ![ExecReg + 1] = hi]
           after == IF op = "S_AND_SAVEEXEC_B64" THEN saved ELSE s
           dst   == IF op = "S_MOV_B64" THEN <<s[x], s[x + 1]>> ELSE <<0, 0>>
       IN  /\ s' = IF Collect THEN [[after EXCEPT ![d] = dst[1]] EXCEPT ![d + 1] = dst[2]]
                              ELSE after
           /\ scc' = IF op = "S_AND_SAVEEXEC_B64" THEN PairScc(lo, hi) ELSE scc
    /\ last' = Before(op, x, x, d, 0)

Immediates == -(2^(W \div 2 - 1))..2^(W \div 2 - 1)-1

(* An instruction carries a literal when a source is register 0xFF.        *)
Carried(x, y) == IF LitReg \in {x, y} THEN Literals ELSE {0}

Execute ==
    \E op \in Ops :
        \/ \E x, y, d \in WordRegs : \E k \in Carried(x, y) : ExecuteSOP2(op, x, y, d, k)
        \/ \E x, y \in WordRegs : \E k \in Carried(x, y) : ExecuteSOPC(op, x, y, k)
        \/ \E d \in WordRegs : \E k \in Immediates : ExecuteSOPK(op, d, k)
        \/ \E x, y, d \in Pairs : ExecutePair(op, x, y, d)
        \/ \E x, d \in WordRegs : ExecuteSOP1(op, x, d)
        \/ \E x, d \in Pairs : ExecuteSOP1Pair(op, x, d)

(* The record of the last instruction is forgotten before the next one.    *)
Forget == last' = [op |-> "none"] /\ UNCHANGED <<s, scc>>

Next == IF last.op = "none" THEN Execute ELSE Forget

Spec == Init /\ [][Next]_vars
-----------------------------------------------------------------------------
TypeOK == s \in [Regs -> Word] /\ scc \in {0, 1}

(* The sources and the destination of the last instruction.                *)
A == last.s[last.x]
B == last.s[last.y]
D == s[last.d]

(* S_ADD_U32 loses nothing: result and carry together are the sum, also    *)
(* when the destination is a source ("SCC = carry out").                   *)
CarryExact == last.op = "S_ADD_U32" => D + scc * 2^W = A + B

(* The exact result of a signed instruction.                               *)
Exact ==
    CASE last.op = "S_ADD_I32" -> Signed(A) + Signed(B)
      [] last.op = "S_SUB_I32" -> Signed(A) - Signed(B)
      [] last.op = "S_ADDK_I32" -> Signed(A) + last.k
      [] last.op = "S_MULK_I32" -> Signed(A) * last.k

(* No false alarm: SCC is set by a signed instruction only when the result *)
(* does not fit the destination.                                           *)
OverflowReal ==
    last.op \in {"S_ADD_I32", "S_SUB_I32", "S_ADDK_I32", "S_MULK_I32"} /\ scc = 1
        => Signed(D) # Exact

(* Shifts move every bit by the count modulo the width and fill with zero  *)
(* or the sign, and SCC says that a bit is left.                           *)
ShiftsExact ==
    last.op \in {"S_LSHL_B32", "S_LSHR_B32", "S_ASHR_I32"} =>
        /\ scc = Flag(D # 0)
        /\ \A i \in 0..W-1 :
              LET n == B % W
              IN  CASE last.op = "S_LSHL_B32" ->
                            BitOf(D, i) = (IF i < n THEN 0 ELSE BitOf(A, i - n))
                    [] last.op = "S_LSHR_B32" ->
                            BitOf(D, i) = (IF i + n < W THEN BitOf(A, i + n) ELSE 0)
                    [] last.op = "S_ASHR_I32" ->
                            BitOf(D, i) = BitOf(A, Smaller(i + n, W - 1))

(* The low bits of what S_BFE_I32 returns are the field, which repeats the *)
(* sign bit of its source where it would reach past the register, and an   *)
(* empty field is zero.  The bits above the field are not claimed: the     *)
(* handler and its comment disagree about them (FieldMasked).              *)
FieldExtracted ==
    last.op = "S_BFE_I32" /\ Width(B) < W =>
        /\ Width(B) = 0 => D = 0
        /\ \A i \in 0..Width(B)-1 : BitOf(D, i) = BitOf(A, Smaller(Offset(B) + i, W - 1))

(* The bit that a pair instruction computes from the bits p and q.         *)
PairBit(op, p, q) ==
    CASE op = "S_AND_B64" -> p * q
      [] op = "S_OR_B64" -> p + q - p * q
      [] op = "S_XOR_B64" -> (p + q) % 2
      [] op = "S_ANDN2_B64" -> p * (1 - q)
      [] op = "S_NAND_B64" -> 1 - p * q

(* A pair instruction works on both words as they were before it, however  *)
(* the pairs overlap, and SCC says whether a bit of either word is set.    *)
PairsExact ==
    last.op \in SOP2PairOps =>
        /\ \A h \in {0, 1}, i \in 0..W-1 :
              BitOf(s[last.d + h], i) = PairBit(last.op, BitOf(last.s[last.x + h], i),
                                                BitOf(last.s[last.y + h], i))
        /\ scc = 1 <=> \E h \in {0, 1} : s[last.d + h] # 0

(* A literal source of a comparison is the literal constant.               *)
LiteralCompared ==
    last.op \in SOPCOps /\ last.x = LitReg =>
        scc = Flag(SOPC(last.op, last.k, B))

(* SCC is the carry of an unsigned sum, and never a false overflow.        *)
FlagsExact == CarryExact /\ OverflowReal

(* Shifts, the bits of a field and comparisons with a literal are exact,   *)
(* and every register holds a word.                                        *)
ScalarExact == TypeOK /\ ShiftsExact /\ FieldExtracted /\ LiteralCompared

(* "D.u = S0.i + S1.i. scc = overflow."                                    *)
AddOverflows == last.op = "S_ADD_I32" => (scc = 1 <=> Signed(D) # Exact)

(* "D.u = S0.i - S1.i. scc = overflow."                                    *)
SubOverflows == last.op = "S_SUB_I32" => (scc = 1 <=> Signed(D) # Exact)

(* "D.i = D.i * signext(SIMM16). scc = overflow."                          *)
MulkOverflows == last.op = "S_MULK_I32" => (scc = 1 <=> Signed(D) # Exact)

(* What S_BFE_I32 returns is the field and nothing else, says its comment: *)
(* "D.i = (S0.i >> S1.u[4:0]) & ((1 << S2.u[4:0]) - 1); bitfield extract". *)
FieldMasked ==
    last.op = "S_BFE_I32" /\ Width(B) < W =>
        D = Wrap(Signed(A) \div 2^Offset(B)) % 2^Width(B)

(* "D.u = ~S0.u SCC = 1 if result non-zero."                               *)
NotSetsScc == last.op = "S_NOT_B32" => scc = Flag(D # 0)

(* "Load operands from registers or as a literal constant."                *)
LiteralAdded ==
    last.op = "S_ADD_U32" /\ last.x = LitReg => D = Wrap(last.k + B)

(* "D.u = EXEC, EXEC = S0.u & EXEC."                                       *)
ExecSaved ==
    last.op = "S_AND_SAVEEXEC_B64" /\ last.d + 1 < ExecReg =>
        D = last.s[ExecReg] /\ s[last.d + 1] = last.s[ExecReg + 1]

(* "D.u = S0.u."                                                           *)
Moved == last.op = "S_MOV_B32" => D = A
=============================================================================
