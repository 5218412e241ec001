----------------------------- MODULE VectorAlu -----------------------------
(***************************************************************************)
(* The integer vector instructions: src/isa/InstructionVOP1.cpp, VOP2.cpp, *)
(* VOPC.cpp, VOP3A.cpp and VOP3B.cpp.  A warp executes a straight-line     *)
(* program; an instruction runs its handler for the active lanes in turn.  *)
(*                                                                         *)
(* VOP1, VOP2 and VOPC work on collected operands, which are read before   *)
(* the first lane and written back after the last, and only when           *)
(* g_debug_exec > 1 (collect).  VOP3A and VOP3B read and write the         *)
(* registers themselves, lane by lane.  The active mask does not change in *)
(* a program: OperandPipe is about the operands under changing masks.      *)
(*                                                                         *)
(* A byte, a half and "24 bits" are a quarter, a half and three quarters   *)
(* of the W bits of a register; a pair of registers is a wide word.  A     *)
(* shift count that is not masked in the code is masked by the processor.  *)
(***************************************************************************)
EXTENDS Words, Sequences, TLC

CONSTANTS
    NLanes,             \* m_warp_size
    MaxV, MaxS,         \* the registers are 0..MaxV and 0..MaxS
    Vcc, Tcc, Exec,     \* RegisterVcc, RegisterTcc, RegisterExec
    Beyond,             \* Beyond[l]: what a read past the value of an immediate finds
    Programs,           \* records of the code, the active lanes and g_debug_exec > 1
    Contents            \* Contents[p.from]: what the registers may hold at the start of p

ASSUME VectorAssumption ==
    /\ W % 4 = 0
    /\ Beyond \in [0..NLanes-1 -> Word]
    /\ NLanes \in 1..W
    /\ MaxV \in Nat /\ MaxS \in Nat
    /\ {Vcc, Tcc, Exec} \subseteq 0..MaxS

(* What exponentiation is on the powers of two up to the pair of words.    *)
ASSUME WidePowerAssumption == \A n \in W..2*W-1 : 2^n \in Nat /\ 2^(n+1) = 2 * 2^n

Lanes == 0..NLanes-1
Shift(n) == n % W
Wide(lo, hi) == lo + 2^W * hi
WideSigned(x) == IF x >= 2^(2*W-1) THEN x - 2^(2*W) ELSE x
WideWrap(i) == i % 2^(2*W)
Larger(i, j) == IF i >= j THEN i ELSE j

(* src/isa/ExecCommon.cpp on wide words; SignExtend of OperandUtil.h.      *)
Chop(x, w) == x % 2^w
Zext(x, w) == Chop(x, w)

Sext(x, w) == IF BitOf(x, w - 1) = 1 THEN WideWrap(Chop(x, w) - 2^w) ELSE Chop(x, w)
SignExtend(a, w) == IF BitOf(a, w - 1) = 1 THEN Wrap((a % 2^w) - 2^w) ELSE a % 2^w
-----------------------------------------------------------------------------
(* VOP1: the result is as wide as the destination.                         *)
VOP1Ops == {"V_MOV_B32", "V_READFIRSTLANE_B32", "V_NOT_B32", "V_SEXT_I32_I8",
            "V_SEXT_I32_I16", "V_SEXT_I64_I32", "V_ZEXT_B32_B8", "V_ZEXT_B32_B16",
            "V_ZEXT_B64_B32", "V_CHOP_B16_B32", "V_CVTA_FLAT_TO_GLOBAL"}

(* Handlers that do nothing.                                               *)
Unimplemented == {"V_FFBH_U32", "V_BFM_B32", "V_CSEL_B32", "V_CMP_EQ_U32",
                  "V_CMP_LT_U64_VOP3A"}

Extended(op, a) ==
    CASE op = "V_SEXT_I32_I8" -> Sext(a, W \div 4)
      [] op = "V_SEXT_I32_I16" -> Sext(a, W \div 2)
      [] op = "V_SEXT_I64_I32" -> Sext(a, W)
      [] op = "V_ZEXT_B32_B8" -> Zext(a, W \div 4)
      [] op = "V_ZEXT_B32_B16" -> Zext(a, W \div 2)
      [] op = "V_ZEXT_B64_B32" -> Zext(a, W)
      [] op = "V_CHOP_B16_B32" -> Chop(a, W \div 2)
      [] op = "V_CVTA_FLAT_TO_GLOBAL" -> a

V_NOT_B32(a) == Invert(a)

VOP1(op, a) ==
    CASE op \in {"V_MOV_B32", "V_READFIRSTLANE_B32"} -> a
      [] op = "V_NOT_B32" -> V_NOT_B32(a)
      [] OTHER -> Extended(op, a)
-----------------------------------------------------------------------------
(* VOP2.                                                                   *)
V_MUL_I32_I24(a, b) ==
    Wrap(Signed(SignExtend(a, 3 * (W \div 4))) * Signed(SignExtend(b, 3 * (W \div 4))))
V_MULLO_I32_I24(a, b) == V_MUL_I32_I24(a, b)
V_MULLO_I32(a, b) == Wrap(Signed(a) * Signed(b))
V_MUL_I64_I32(a, b) == Sext(V_MULLO_I32(a, b), W)
V_MULHI_U32(a, b) == (a * b) \div 2^W

V_MULHI_I32(a, b) == WideWrap(Sext(a, W) * Sext(b, W)) \div 2^W

V_MAX_I32(a, b) == IF Signed(a) > Signed(b) THEN a ELSE b
V_MIN_I32(a, b) == IF Signed(a) < Signed(b) THEN a ELSE b
V_MIN_U32(a, b) == IF a < b THEN a ELSE b
V_MAX_U32(a, b) == IF a > b THEN a ELSE b

V_LSHRREV_B32(a, b) == b \div 2^Shift(a)
V_ASHRREV_I32(a, b) == Wrap(Signed(b) \div 2^Shift(a))
V_LSHL_B32(a, b) == Wrap(a * 2^Shift(b))
V_LSHLREV_B32(a, b) == Wrap(b * 2^Shift(a))
V_AND_B32(a, b) == BitAnd(a, b)
V_OR_B32(a, b) == BitOr(a, b)
V_XOR_B32(a, b) == BitXor(a, b)

V_CNDMASK_B32(a, b, vcc) == IF vcc = 1 THEN b ELSE a

V_ASHR_I64(a, b) == WideWrap(WideSigned(a) \div 2^Shift(b))
V_LSHL_B64(a, b) == WideWrap(a * 2^Shift(b))

(* The instructions that write VCC: <<result, carry>>.                     *)
V_ADD_I32(a, b) == <<Wrap(a + b), (a + b) \div 2^W>>    \* FunUnit::add

(* The carry of the low words, sign-extended (FIXME in the code).          *)
V_ADD_I64(a, b) ==
    <<WideWrap(a + b), Flag(WideWrap(Sext(a, W) + Sext(b, W)) \div 2^W # 0)>>
V_ADD_U32(a, b) == <<Wrap(a + b), (a + b) \div 2^W>>

V_ADDCO_U32(a, b) == <<Wrap(a + b), (a + b) \div 2^W>>
V_SUB_I32(a, b) == <<Wrap(a - b), Flag(Signed(b) > Signed(a))>>

V_SUB_U32(a, b) == <<Wrap(a - b), Flag(b > a)>>
V_SUBREV_I32(a, b) == <<Wrap(b - a), Flag(Signed(a) > Signed(b))>>
V_SUBREV_U32(a, b) == <<Wrap(b - a), Flag(a > b)>>

WithCarry(op, a, b) ==
    CASE op = "V_ADD_I32" -> V_ADD_I32(a, b)
      [] op = "V_ADD_I64" -> V_ADD_I64(a, b)
      [] op = "V_ADD_U32" -> V_ADD_U32(a, b)
      [] op = "V_ADDCO_U32" -> V_ADDCO_U32(a, b)
      [] op = "V_SUB_I32" -> V_SUB_I32(a, b)
      [] op = "V_SUB_U32" -> V_SUB_U32(a, b)
      [] op = "V_SUBREV_I32" -> V_SUBREV_I32(a, b)
      [] op = "V_SUBREV_U32" -> V_SUBREV_U32(a, b)

CarryOps == {"V_ADD_I32", "V_ADD_I64", "V_ADD_U32", "V_ADDCO_U32", "V_SUB_I32", "V_SUB_U32",
             "V_SUBREV_I32", "V_SUBREV_U32"}

VOP2(op, a, b, vcc) ==
    CASE op = "V_CNDMASK_B32" -> V_CNDMASK_B32(a, b, vcc)
      [] op = "V_MUL_I32_I24" -> V_MUL_I32_I24(a, b)
      [] op = "V_MULLO_I32_I24" -> V_MULLO_I32_I24(a, b)
      [] op = "V_MULLO_I32" -> V_MULLO_I32(a, b)
      [] op = "V_MUL_I64_I32" -> V_MUL_I64_I32(a, b)
      [] op = "V_MULHI_U32" -> V_MULHI_U32(a, b)
      [] op = "V_MULHI_I32" -> V_MULHI_I32(a, b)
      [] op = "V_MAX_I32" -> V_MAX_I32(a, b)
      [] op = "V_MIN_I32" -> V_MIN_I32(a, b)
      [] op = "V_MIN_U32" -> V_MIN_U32(a, b)
      [] op = "V_MAX_U32" -> V_MAX_U32(a, b)
      [] op = "V_LSHRREV_B32" -> V_LSHRREV_B32(a, b)
      [] op = "V_ASHRREV_I32" -> V_ASHRREV_I32(a, b)
      [] op = "V_LSHL_B32" -> V_LSHL_B32(a, b)
      [] op = "V_LSHLREV_B32" -> V_LSHLREV_B32(a, b)
      [] op = "V_AND_B32" -> V_AND_B32(a, b)
      [] op = "V_OR_B32" -> V_OR_B32(a, b)
      [] op = "V_XOR_B32" -> V_XOR_B32(a, b)
      [] op = "V_ASHR_I64" -> V_ASHR_I64(a, b)
      [] op = "V_LSHL_B64" -> V_LSHL_B64(a, b)

VOP2Ops == {"V_CNDMASK_B32", "V_MUL_I32_I24", "V_MULLO_I32_I24", "V_MULLO_I32",
            "V_MUL_I64_I32", "V_MULHI_U32", "V_MULHI_I32", "V_MAX_I32", "V_MIN_I32",
            "V_MIN_U32", "V_MAX_U32", "V_LSHRREV_B32", "V_ASHRREV_I32", "V_LSHL_B32",
            "V_LSHLREV_B32", "V_AND_B32", "V_OR_B32", "V_XOR_B32", "V_ASHR_I64", "V_LSHL_B64"}

(* The operands that Decode makes two registers long.                      *)
WideSrc0 == {"V_LSHL_B64", "V_ASHR_I64", "V_ADD_I64"}
WideSrc1 == {"V_ADD_I64"}
WideDst == {"V_SEXT_I64_I32", "V_ZEXT_B64_B32", "V_LSHL_B64", "V_ASHR_I64", "V_ADD_I64",
            "V_MUL_I64_I32"}
-----------------------------------------------------------------------------
(* VOPC: a comparison of the lane's operands; the destination is a TCC.    *)
V_CMP_LT_I32(a, b) == Signed(a) < Signed(b)
V_CMP_EQ_I32(a, b) == Signed(a) = Signed(b)
V_CMP_LE_I32(a, b) == Signed(a) <= Signed(b)
V_CMP_GT_I32(a, b) == Signed(a) > Signed(b)
V_CMP_NE_I32(a, b) == Signed(a) # Signed(b)
V_CMP_GE_I32(a, b) == Signed(a) >= Signed(b)
V_CMP_LT_U32(a, b) == a < b
V_CMP_LE_U32(a, b) == a <= b
V_CMP_GT_U32(a, b) == a > b
V_CMP_NE_U32(a, b) == a # b
V_CMP_GE_U32(a, b) == a >= b

VOPC(op, a, b) ==
    CASE op = "V_CMP_LT_I32" -> V_CMP_LT_I32(a, b)
      [] op = "V_CMP_EQ_I32" -> V_CMP_EQ_I32(a, b)
      [] op = "V_CMP_LE_I32" -> V_CMP_LE_I32(a, b)
      [] op = "V_CMP_GT_I32" -> V_CMP_GT_I32(a, b)
      [] op = "V_CMP_NE_I32" -> V_CMP_NE_I32(a, b)
      [] op = "V_CMP_GE_I32" -> V_CMP_GE_I32(a, b)
      [] op = "V_CMP_LT_U32" -> V_CMP_LT_U32(a, b)
      [] op = "V_CMP_LE_U32" -> V_CMP_LE_U32(a, b)
      [] op = "V_CMP_GT_U32" -> V_CMP_GT_U32(a, b)
      [] op = "V_CMP_NE_U32" -> V_CMP_NE_U32(a, b)
      [] op = "V_CMP_GE_U32" -> V_CMP_GE_U32(a, b)

VOPCOps == {"V_CMP_LT_I32", "V_CMP_EQ_I32", "V_CMP_LE_I32", "V_CMP_GT_I32", "V_CMP_NE_I32",
            "V_CMP_GE_I32", "V_CMP_LT_U32", "V_CMP_LE_U32", "V_CMP_GT_U32", "V_CMP_NE_U32",
            "V_CMP_GE_U32"}
-----------------------------------------------------------------------------
(* VOP3A: the sources are scalar registers; the comparisons write a bit of *)
(* a scalar register.  The modifiers abs and neg of an operand n are       *)
(* <<"abs", n>> and <<"neg", n>>.                                          *)
AbsI(a) == IF Negative(a) THEN Wrap(-a) ELSE a
NegI(a) == Wrap(-a)

(* Mutant: the sign is changed before the absolute value is taken.         *)
Modified_swapped(m, n, a) ==
    LET neg == IF <<"neg", n>> \in m THEN NegI(a) ELSE a
    IN  IF <<"abs", n>> \in m THEN AbsI(neg) ELSE neg

Modified(m, n, a) ==
    LET abs == IF <<"abs", n>> \in m THEN AbsI(a) ELSE a
    IN  IF <<"neg", n>> \in m THEN NegI(abs) ELSE abs

V_CMP_LT_I32_VOP3A(m, a, b) == Signed(Modified(m, 0, a)) < Signed(Modified(m, 1, b))
V_CMP_EQ_I32_VOP3A(m, a, b) == Modified(m, 0, a) = Modified(m, 1, b)
V_CMP_LE_I32_VOP3A(m, a, b) == Signed(Modified(m, 0, a)) <= Signed(Modified(m, 1, b))
V_CMP_GT_I32_VOP3A(m, a, b) == Signed(Modified(m, 0, a)) > Signed(Modified(m, 1, b))
V_CMP_NE_I32_VOP3A(m, a, b) == Modified(m, 0, a) # Modified(m, 1, b)
V_CMP_GE_I32_VOP3A(m, a, b) == Signed(Modified(m, 0, a)) >= Signed(Modified(m, 1, b))
V_CMPX_EQ_I32_VOP3A(m, a, b) == Modified(m, 0, a) = Modified(m, 1, b)
V_CMP_LT_U32_VOP3A(a, b) == a < b
V_CMP_LE_U32_VOP3A(a, b) == a <= b
V_CMP_GT_U32_VOP3A(a, b) == a > b
V_CMP_LG_U32_VOP3A(a, b) == a < b \/ a > b
V_CMP_GE_U32_VOP3A(a, b) == a >= b

Compare3A(op, m, a, b) ==
    CASE op = "V_CMP_LT_I32_VOP3A" -> V_CMP_LT_I32_VOP3A(m, a, b)
      [] op = "V_CMP_EQ_I32_VOP3A" -> V_CMP_EQ_I32_VOP3A(m, a, b)
      [] op = "V_CMP_LE_I32_VOP3A" -> V_CMP_LE_I32_VOP3A(m, a, b)
      [] op = "V_CMP_GT_I32_VOP3A" -> V_CMP_GT_I32_VOP3A(m, a, b)
      [] op = "V_CMP_NE_I32_VOP3A" -> V_CMP_NE_I32_VOP3A(m, a, b)
      [] op = "V_CMP_GE_I32_VOP3A" -> V_CMP_GE_I32_VOP3A(m, a, b)
      [] op = "V_CMPX_EQ_I32_VOP3A" -> V_CMPX_EQ_I32_VOP3A(m, a, b)
      [] op = "V_CMP_LT_U32_VOP3A" -> V_CMP_LT_U32_VOP3A(a, b)
      [] op = "V_CMP_LE_U32_VOP3A" -> V_CMP_LE_U32_VOP3A(a, b)
      [] op = "V_CMP_GT_U32_VOP3A" -> V_CMP_GT_U32_VOP3A(a, b)
      [] op = "V_CMP_LG_U32_VOP3A" -> V_CMP_LG_U32_VOP3A(a, b)
      [] op = "V_CMP_GE_U32_VOP3A" -> V_CMP_GE_U32_VOP3A(a, b)

Signed3AOps == {"V_CMP_LT_I32_VOP3A", "V_CMP_EQ_I32_VOP3A", "V_CMP_LE_I32_VOP3A",
                "V_CMP_GT_I32_VOP3A", "V_CMP_NE_I32_VOP3A", "V_CMP_GE_I32_VOP3A",
                "V_CMPX_EQ_I32_VOP3A"}
Unsigned3AOps == {"V_CMP_LT_U32_VOP3A", "V_CMP_LE_U32_VOP3A", "V_CMP_GT_U32_VOP3A",
                  "V_CMP_LG_U32_VOP3A", "V_CMP_GE_U32_VOP3A"}

V_MAD_U32_U24(a, b, c) == Wrap((a % 2^(3 * (W \div 4))) * (b % 2^(3 * (W \div 4))) + c)
V_BFE_U32(a, b, c) == (a \div 2^Shift(b)) % 2^Shift(c)

V_BFE_I32(a, b, c) ==
    LET n == Shift(b)
        w == Shift(c)
    IN  IF w = 0 THEN 0
        ELSE IF n + w < W THEN Wrap(Signed(Wrap(a * 2^(W - n - w))) \div 2^(W - w))
        ELSE Wrap(Signed(a) \div 2^n)
V_BFI_B32(a, b, c) == BitOr(BitAnd(a, b), BitAnd(Invert(a), c))
V_ALIGNBIT_B32(a, b, c) == Wrap(Wide(b, a) \div 2^Shift(c))

V_MAX3_I32(a, b, c) ==
    LET i == Signed(a) j == Signed(b) k == Signed(c)
    IN  IF i >= j /\ i >= k THEN a ELSE IF j >= i /\ j >= k THEN b ELSE c

V_MED3_I32(a, b, c) ==
    LET i == Signed(a) j == Signed(b) k == Signed(c)
    IN  IF i >= j /\ i >= k THEN IF j >= k THEN b ELSE c
        ELSE IF j >= i /\ j >= k THEN IF i >= k THEN a ELSE c
        ELSE IF i >= j THEN a ELSE b

V_MUL_I32_I24_VOP3A(a, b) == V_MUL_I32_I24(a, b)

(* A floating-point negation: the sign bit is flipped.                     *)
FlipSign(a) == Wrap(a + 2^(W-1))
V_CNDMASK_B32_VOP3A(m, a, b, bit) ==
    IF bit = 1 THEN IF <<"neg", 1>> \in m THEN FlipSign(b) ELSE b
               ELSE IF <<"neg", 0>> \in m THEN FlipSign(a) ELSE a

Arithmetic3A(op, a, b, c) ==
    CASE op = "V_MUL_I32_I24_VOP3A" -> V_MUL_I32_I24_VOP3A(a, b)
      [] op = "V_MAD_U32_U24" -> V_MAD_U32_U24(a, b, c)
      [] op = "V_BFE_U32" -> V_BFE_U32(a, b, c)
      [] op = "V_BFE_I32" -> V_BFE_I32(a, b, c)
      [] op = "V_BFI_B32" -> V_BFI_B32(a, b, c)
      [] op = "V_ALIGNBIT_B32" -> V_ALIGNBIT_B32(a, b, c)
      [] op = "V_MAX3_I32" -> V_MAX3_I32(a, b, c)
      [] op = "V_MED3_I32" -> V_MED3_I32(a, b, c)

Arithmetic3AOps == {"V_MUL_I32_I24_VOP3A", "V_MAD_U32_U24", "V_BFE_U32", "V_BFE_I32",
                    "V_BFI_B32", "V_ALIGNBIT_B32", "V_MAX3_I32", "V_MED3_I32"}
VOP3AOps == Signed3AOps \cup Unsigned3AOps \cup Arithmetic3AOps
              \cup {"V_CNDMASK_B32_VOP3A", "V_LSHR_B64", "V_MADLO_I32_I32", "V_CSEL_B32",
                    "V_CMP_LT_U64_VOP3A"}

(* The modifiers that the assertions of a handler let pass.                *)
Modifiers == ({"abs", "neg"} \X 0..2) \cup {<<"clamp", 0>>, <<"omod", 0>>}
Allowed(op) ==
    CASE op \in Signed3AOps -> {"abs", "neg"} \X {0, 1}
      [] op = "V_CNDMASK_B32_VOP3A" -> {"neg"} \X {0, 1}
      [] op \in Unimplemented \cup {"V_MADLO_I32_I32"} -> Modifiers
      [] OTHER -> {}
-----------------------------------------------------------------------------
(* Well-formed programs: an instruction names registers that exist, as     *)
(* many as Decode makes of its fields.                                     *)
VectorDst == VOP1Ops \cup VOP2Ops \cup CarryOps \cup Arithmetic3AOps
               \cup {"V_MULLO_U32", "V_MADLO_I32_I32", "V_CNDMASK_B32_VOP3A", "V_LSHR_B64",
                     "V_ADDC_U32"}
ScalarDst == VOPCOps \cup Signed3AOps \cup Unsigned3AOps
Direct == VOP3AOps \ (Unimplemented \cup {"V_MADLO_I32_I32"})

IsVector(r, pair) == r \in 0..MaxV /\ (pair => r + 1 \in 0..MaxV)
IsScalar(r, pair) == r \in 0..MaxS /\ (pair => r + 1 \in 0..MaxS)
IsSource(o, pair) ==
    \/ o.kind = "imm" /\ o.n \in Word
    \/ o.kind = "s" /\ IsScalar(o.n, pair)
    \/ o.kind = "v" /\ IsVector(o.n, pair)

RegistersExist(i) ==
    /\ i.op \in VectorDst => IsVector(i.d, i.op \in WideDst \cup {"V_LSHR_B64"})
    /\ i.op \in ScalarDst => IsScalar(i.d, FALSE)
    /\ i.op \in VOP1Ops \cup VOP2Ops \cup CarryOps \cup VOPCOps => IsSource(i.src, i.op \in WideSrc1)
    /\ i.op \in VOP2Ops \cup CarryOps \cup VOPCOps => IsVector(i.x, i.op \in WideSrc0)
    /\ i.op \in Direct =>
          /\ IsScalar(i.x, i.op = "V_LSHR_B64") /\ IsScalar(i.y, FALSE) /\ IsScalar(i.z, FALSE)
    /\ i.op = "V_MADLO_I32_I32" => IsVector(i.y, FALSE) /\ IsVector(i.z, FALSE)
    /\ i.op = "V_ADDC_U32" =>
          /\ IsScalar(i.x, FALSE) /\ IsVector(i.y, FALSE) /\ IsScalar(i.z, FALSE)
          /\ IsScalar(i.sd, FALSE)

RegisterState == [v : [0..MaxV -> [Lanes -> Word]], s : [0..MaxS -> Word]]

ASSUME ProgramAssumption ==
    \A p \in Programs :
        /\ p.collect \in BOOLEAN /\ p.active \subseteq Lanes
        /\ Len(p.code) \in Nat
        /\ \A k \in 1..Len(p.code) : RegistersExist(p.code[k])
        /\ Contents[p.from] \subseteq RegisterState
-----------------------------------------------------------------------------
VARIABLES
    collect,    \* g_debug_exec > 1
    active,     \* the lanes of the active mask
    code,       \* the instructions of the program
    pc,         \* the next one
    v,          \* v[r][l]: the vector registers
    s,          \* s[r]: the scalar registers
    aborted,    \* an assertion has failed
    orig        \* the registers at the start

vars == <<collect, active, code, pc, v, s, aborted, orig>>

Init ==
    /\ \E p \in Programs :
        /\ collect = p.collect /\ active = p.active /\ code = p.code
        /\ orig \in Contents[p.from]
    /\ v = orig.v /\ s = orig.s
    /\ pc = 1 /\ aborted = FALSE

Running == pc <= Len(code) /\ ~aborted
Done == pc > Len(code) /\ ~aborted

Advance == pc' = pc + 1 /\ UNCHANGED <<collect, active, code, orig>>

(* The value of a vector operand, and of the operand that dsrc0_Decode     *)
(* makes: an immediate, a scalar or a vector register.  Without collection *)
(* the value of a register operand is zero.  The value of an immediate is  *)
(* one word: the second one that V_ADD_I64 reads is past its end.          *)
Vector(r, l) == IF collect THEN v[r][l] ELSE 0
Source(o, k, l) ==
    CASE o.kind = "imm" -> IF k = 0 THEN o.n ELSE Beyond[l]
      [] o.kind = "s" -> IF collect THEN s[o.n + k] ELSE 0
      [] o.kind = "v" -> Vector(o.n + k, l)

Src0(i, l) == IF i.op \in WideSrc0 THEN Wide(Vector(i.x, l), Vector(i.x + 1, l)) ELSE Vector(i.x, l)
Src1(i, l) == IF i.op \in WideSrc1 THEN Wide(Source(i.src, 0, l), Source(i.src, 1, l))
              ELSE Source(i.src, 0, l)

(* WriteBack of a vector destination: value[l] in the lanes of the mask.   *)
(* Mutant: it is written in all lanes.                                     *)
WriteBack_all(i, value) ==
    IF ~collect THEN v
    ELSE [[v EXCEPT ![i.d] = [l \in Lanes |-> Wrap(value[l])]]
             EXCEPT ![i.d + Flag(i.op \in WideDst)] =
                [l \in Lanes |-> IF i.op \in WideDst THEN value[l] \div 2^W ELSE Wrap(value[l])]]

WriteBack(i, value) ==
    LET wide == i.op \in WideDst
    IN  IF ~collect THEN v
        ELSE [r \in 0..MaxV |-> [l \in Lanes |->
                CASE l \in active /\ r = i.d -> Wrap(value[l])
                  [] l \in active /\ r = i.d + 1 /\ wide -> value[l] \div 2^W
                  [] OTHER -> v[r][l]]]

(* The bits of a mask register that the active lanes set.                  *)
SetBits(word, bit) ==
    FromBits([k \in 0..W-1 |-> IF k \in active THEN bit[k] ELSE BitOf(word, k)])

ExecuteVOP1(i) ==
    /\ i.op \in VOP1Ops
    /\ v' = WriteBack(i, [l \in Lanes |-> VOP1(i.op, Source(i.src, 0, l))])
    /\ UNCHANGED <<s, aborted>>

ExecuteVOP2(i) ==
    /\ i.op \in VOP2Ops
    /\ v' = WriteBack(i, [l \in Lanes |-> VOP2(i.op, Src0(i, l), Src1(i, l), BitOf(s[Vcc], l))])
    /\ UNCHANGED <<s, aborted>>

ExecuteVOP2Carry(i) ==
    /\ i.op \in CarryOps
    /\ LET r == [l \in Lanes |-> WithCarry(i.op, Src0(i, l), Src1(i, l))]
       IN  /\ v' = WriteBack(i, [l \in Lanes |-> r[l][1]])
           /\ s' = [s EXCEPT ![Vcc] = SetBits(s[Vcc], [l \in Lanes |-> r[l][2]])]
    /\ UNCHANGED aborted

(* V_MULLO_U32 multiplies two variables that it never sets.                *)
V_MULLO_U32(i) ==
    /\ i.op = "V_MULLO_U32"
    /\ \E value \in [Lanes -> Word] : v' = WriteBack(i, value)
    /\ UNCHANGED <<s, aborted>>

(* WriteBack asserts that a handler has set a vector destination; a mask   *)
(* destination is written back as it was collected.                        *)
ExecuteUnimplemented(i) ==
    /\ i.op \in Unimplemented
    /\ aborted' = (collect /\ i.op # "V_CMP_EQ_U32" /\ active # {})
    /\ UNCHANGED <<v, s>>

ExecuteVOPC(i) ==
    /\ i.op \in VOPCOps
    /\ s' = IF collect
            THEN [s EXCEPT ![i.d] =
                    SetBits(@, [l \in Lanes |-> Flag(VOPC(i.op, Src0(i, l), Src1(i, l)))])]
            ELSE s
    /\ UNCHANGED <<v, aborted>>

(* The handler of VOP3A for one lane, from the registers t.                *)
CompareLane(i, t, l) ==
    LET bit == Flag(Compare3A(i.op, i.mods, t.s[i.x], t.s[i.y]))
        set == [t.s EXCEPT ![i.d] = SetBit(@, l, bit)]
    IN  [t EXCEPT !.s = IF i.op = "V_CMPX_EQ_I32_VOP3A"
                        THEN [set EXCEPT ![Exec] = SetBit(@, l, bit)] ELSE set]

Lane3A(i, t, l) ==
    LET a == t.s[i.x]  b == t.s[i.y]  c == t.s[i.z]
        pair == Wide(a, t.s[i.x + 1]) \div 2^Shift(b)
    IN  CASE i.op \in Signed3AOps \cup Unsigned3AOps -> CompareLane(i, t, l)
          [] i.op \in Arithmetic3AOps ->
                [t EXCEPT !.v[i.d][l] = Arithmetic3A(i.op, a, b, c)]
          [] i.op = "V_CNDMASK_B32_VOP3A" ->
                [t EXCEPT !.v[i.d][l] = V_CNDMASK_B32_VOP3A(i.mods, a, b, BitOf(c, l))]
          [] i.op = "V_LSHR_B64" ->
                [t EXCEPT !.v[i.d][l] = Wrap(pair), !.v[i.d + 1][l] = pair \div 2^W]

(* Mutant: the carry-in is not part of the carry-out.                      *)
V_ADDC_U32_noin(i, t, l) ==
    LET sum == t.s[i.x] + t.v[i.y][l] + BitOf(t.s[i.z], l)
    IN  [t EXCEPT !.v[i.d][l] = Wrap(sum),
                  !.s[i.sd] = SetBit(@, l, (t.s[i.x] + t.v[i.y][l]) \div 2^W)]

(* The handler of VOP3B for one lane.                                      *)
V_ADDC_U32(i, t, l) ==
    LET sum == t.s[i.x] + t.v[i.y][l] + BitOf(t.s[i.z], l)
    IN  [t EXCEPT !.v[i.d][l] = Wrap(sum), !.s[i.sd] = SetBit(@, l, sum \div 2^W)]

(* The lanes of an instruction run in order on the same registers.         *)
InTurn(i) ==
    LET Lane(t, l) == IF i.op = "V_ADDC_U32" THEN V_ADDC_U32(i, t, l) ELSE Lane3A(i, t, l)
        after[n \in 0..NLanes] ==
            IF n = 0 THEN [v |-> v, s |-> s]
            ELSE IF n - 1 \in active THEN Lane(after[n - 1], n - 1) ELSE after[n - 1]
    IN  after[NLanes]

(* Decode makes the first source from the field src1, the other two from   *)
(* src2; V_MADLO_I32_I32 alone uses these operands and sets the            *)
(* destination, for which WriteBack asserts in all VOP3A instructions.     *)
V_MADLO_I32_I32(i) ==
    /\ i.op = "V_MADLO_I32_I32"
    /\ v' = WriteBack(i, [l \in Lanes |->
                Wrap(Signed(Vector(i.y, l)) * Signed(Vector(i.z, l)) + Vector(i.z, l))])
    /\ UNCHANGED <<s, aborted>>

ExecuteVOP3A(i) ==
    /\ i.op \in Direct
    /\ IF i.mods \subseteq Allowed(i.op)
       THEN LET t == InTurn(i)
            IN  v' = t.v /\ s' = t.s /\ aborted' = (collect /\ active # {})
       ELSE aborted' = (active # {}) /\ UNCHANGED <<v, s>>

(* VOP3B collects and writes back nothing.                                 *)
ExecuteVOP3B(i) ==
    /\ i.op = "V_ADDC_U32"
    /\ LET t == InTurn(i) IN v' = t.v /\ s' = t.s
    /\ UNCHANGED aborted

Next ==
    /\ Running
    /\ Advance
    /\ LET i == code[pc]
       IN  \/ ExecuteVOP1(i)
           \/ ExecuteVOP2(i)
           \/ ExecuteVOP2Carry(i)
           \/ V_MULLO_U32(i)
           \/ ExecuteVOPC(i)
           \/ ExecuteVOP3A(i)
           \/ V_MADLO_I32_I32(i)
           \/ ExecuteVOP3B(i)
           \/ ExecuteUnimplemented(i)

Spec == Init /\ [][Next]_vars /\ WF_vars(Next)
-----------------------------------------------------------------------------
TypeOK ==
    /\ pc \in 1..Len(code)+1 /\ aborted \in BOOLEAN
    /\ v \in [0..MaxV -> [Lanes -> Word]]
    /\ s \in [0..MaxS -> Word]

(* The first instruction, or the first two, have been executed.            *)
Ran(op) == pc = 2 /\ ~aborted /\ code[1].op = op
RanBoth(op1, op2) == pc = 3 /\ ~aborted /\ code[1].op = op1 /\ code[2].op = op2

(* What the sources of the first instruction held at the start, and what   *)
(* its destination holds now.                                              *)
Held(o, l) == CASE o.kind = "imm" -> o.n
                [] o.kind = "s" -> orig.s[o.n]
                [] o.kind = "v" -> orig.v[o.n][l]
A(l) == orig.v[code[1].x][l]
B(l) == Held(code[1].src, l)
SA == orig.s[code[1].x]
SB == orig.s[code[1].y]
SC == orig.s[code[1].z]
Result(l) == v[code[1].d][l]
ResultPair(l) == Wide(v[code[1].d][l], v[code[1].d + 1][l])

(* The second instruction reads the sources of the first, which the first  *)
(* has not overwritten.                                                    *)
SameSources ==
    LET i == code[1]
        j == code[2]
    IN  /\ j.x = i.x /\ j.src = i.src /\ i.d # i.x
        /\ i.src.kind = "v" => i.src.n # i.d
        /\ i.src.kind = "s" => i.src.n # Vcc

(* V_ADDCO_U32 followed by V_ADDC_U32 adds two numbers of two words: in    *)
(* every active lane the carry goes through the lane's bit of VCC, and the *)
(* bit of the second destination is the carry of the whole sum, unless one *)
(* of the results overwrites a source that is still to be read.            *)
CarryChainExact ==
    LET i == code[1]
        j == code[2]
    IN  /\ collect /\ RanBoth("V_ADDCO_U32", "V_ADDC_U32")
        /\ j.z = Vcc /\ j.x \notin {Vcc, j.sd} /\ i.d \notin {j.y, j.d}
        => \A l \in active :
              Wide(A(l), orig.s[j.x]) + Wide(B(l), orig.v[j.y][l]) =
                  Wide(Result(l), v[j.d][l]) + 2^(2*W) * BitOf(s[j.sd], l)

(* The unsigned subtractions leave in VCC the borrow of every active lane. *)
BorrowExact ==
    \A l \in active :
        /\ collect /\ Ran("V_SUB_U32") => Result(l) - 2^W * BitOf(s[Vcc], l) = A(l) - B(l)
        /\ collect /\ Ran("V_SUBREV_U32") => Result(l) - 2^W * BitOf(s[Vcc], l) = B(l) - A(l)

(* No instruction changes a vector register of an inactive lane, or its    *)
(* bit in a mask register: write-back and lane loop respect the mask.      *)
OthersKept ==
    \A l \in Lanes \ active :
        /\ \A r \in 0..MaxV : v[r][l] = orig.v[r][l]
        /\ \A r \in 0..MaxS : BitOf(s[r], l) = BitOf(orig.s[r], l)

(* A comparison, or the borrow of V_SUB_U32, followed by V_CNDMASK selects *)
(* the larger operand: lane by lane the bit written by the one is the bit  *)
(* read by the other, and it agrees with V_MAX_I32.                        *)
SelectsMax ==
    LET i == code[1]
        j == code[2]
    IN  \A l \in active :
          /\ collect /\ RanBoth("V_SUB_U32", "V_CNDMASK_B32") /\ SameSources =>
                v[j.d][l] = Larger(A(l), B(l))
          /\ /\ RanBoth("V_CMP_GT_I32_VOP3A", "V_CNDMASK_B32_VOP3A")
             /\ i.mods = {} /\ j.mods = {} /\ i.d \notin {i.x, i.y}
             /\ j.x = i.y /\ j.y = i.x /\ j.z = i.d
             => Signed(v[j.d][l]) = Larger(Signed(SA), Signed(SB))
          /\ collect /\ Ran("V_MAX_I32") => Signed(Result(l)) = Larger(Signed(A(l)), Signed(B(l)))

(* The value of a source under its modifiers, as a number.                 *)
Number(m, n, a) ==
    LET abs == IF <<"abs", n>> \in m /\ Signed(a) < 0 THEN -Signed(a) ELSE Signed(a)
    IN  IF <<"neg", n>> \in m THEN -abs ELSE abs

(* The comparisons of VOP3A compare the numbers that the modifiers make,   *)
(* the smallest integer, which has no opposite, apart; CMPX leaves the     *)
(* same bit in EXEC.  The sources are not among the destinations.          *)
ModifiersExact ==
    \A op \in Signed3AOps : Ran(op) =>
        LET m == code[1].mods
            i == Number(m, 0, SA)
            j == Number(m, 1, SB)
            truth == CASE op \in {"V_CMP_EQ_I32_VOP3A", "V_CMPX_EQ_I32_VOP3A"} -> i = j
                       [] op = "V_CMP_NE_I32_VOP3A" -> i # j
                       [] op = "V_CMP_LT_I32_VOP3A" -> i < j
                       [] op = "V_CMP_LE_I32_VOP3A" -> i <= j
                       [] op = "V_CMP_GT_I32_VOP3A" -> i > j
                       [] op = "V_CMP_GE_I32_VOP3A" -> i >= j
            written == {code[1].d} \cup IF op = "V_CMPX_EQ_I32_VOP3A" THEN {Exec} ELSE {}
        IN  /\ {code[1].x, code[1].y} \cap written = {}
            /\ m = {} \/ 2^(W-1) \notin {SA, SB}
            => \A l \in active, r \in written : BitOf(s[r], l) = Flag(truth)

(* V_MULLO_I32 with V_MULHI_U32 give the two words of the unsigned         *)
(* product, and so does V_MULHI_I32 for numbers that are not negative; for *)
(* others its handler and its comment disagree (HighProductExact).         *)
ProductExact ==
    \A l \in active :
        LET product == Wide(Result(l), v[code[2].d][l])
            Kept == collect /\ SameSources /\ code[2].d # code[1].d
        IN  /\ /\ RanBoth("V_MULLO_I32", "V_MULHI_I32") /\ Kept
               /\ A(l) < 2^(W-1) /\ B(l) < 2^(W-1)
               => product = A(l) * B(l)
            /\ RanBoth("V_MULLO_I32", "V_MULHI_U32") /\ Kept => product = A(l) * B(l)

(* V_BFE_U32 takes the field that the two counts name, cut at the top of   *)
(* the word, and nothing else; V_ALIGNBIT and V_BFI are exact bit by bit.  *)
(* The bits of V_BFE_I32 are claimed within the field, which repeats the   *)
(* sign past the top of the word: above it the handler and its comment     *)
(* disagree (SignedFieldMasked).                                           *)
FieldsExact ==
    LET off == SB % W
        width == Smaller(SC % W, W - off)
        FieldBit(i) == IF i < width THEN BitOf(SA, off + i) ELSE 0
    IN  \A l \in active, i \in 0..W-1 :
          /\ Ran("V_BFE_U32") => BitOf(Result(l), i) = FieldBit(i)
          /\ Ran("V_BFE_I32") =>
                /\ SC % W = 0 => BitOf(Result(l), i) = 0
                /\ i < SC % W => BitOf(Result(l), i) = BitOf(SA, Smaller(off + i, W - 1))
          /\ Ran("V_ALIGNBIT_B32") =>
                BitOf(Result(l), i) = BitOf(Wide(SB, SA), i + (SC % W))
          /\ Ran("V_BFI_B32") =>
                BitOf(Result(l), i) = IF BitOf(SA, i) = 1 THEN BitOf(SB, i) ELSE BitOf(SC, i)

(* The shifts of register pairs move bits across the two words, also when  *)
(* the destination overlaps the source.                                    *)
PairShiftsExact ==
    \A l \in active, i \in 0..2*W-1 :
        LET x == Wide(A(l), orig.v[code[1].x + 1][l])
            n == B(l) % W
            bit == BitOf(ResultPair(l), i)
            At(y, k) == IF k \in 0..2*W-1 THEN BitOf(y, k) ELSE 0
        IN  /\ collect /\ Ran("V_LSHL_B64") => bit = At(x, i - n)
            /\ collect /\ Ran("V_ASHR_I64") => bit = At(x, Smaller(i + n, 2*W - 1))
            /\ Ran("V_LSHR_B64") =>
                  bit = At(Wide(SA, orig.s[code[1].x + 1]), i + (SB % W))

(* V_MED3_I32 returns the middle one of three numbers and V_MAX3_I32 the   *)
(* largest, with any ties.                                                 *)
MedianExact ==
    LET three == {1, 2, 3}
        n == [k \in three |-> Signed(<<SA, SB, SC>>[k])]
    IN  \A l \in active :
          /\ Ran("V_MED3_I32") =>
                \E i, j, k \in three :
                    /\ i # j /\ i # k /\ j # k
                    /\ n[i] <= n[j] /\ n[j] <= n[k] /\ Signed(Result(l)) = n[j]
          /\ Ran("V_MAX3_I32") =>
                Signed(Result(l)) = Larger(n[1], Larger(n[2], n[3]))

(* Extending keeps the number: to a pair of words with its sign, and back  *)
(* from the half word that V_CHOP_B16_B32 keeps if it fits there.          *)
ExtendExact ==
    \A l \in active :
        /\ collect /\ Ran("V_SEXT_I64_I32") => WideSigned(ResultPair(l)) = Signed(B(l))
        /\ collect /\ Ran("V_ZEXT_B64_B32") => ResultPair(l) = B(l)
        /\ /\ collect /\ RanBoth("V_CHOP_B16_B32", "V_SEXT_I32_I16")
           /\ code[2].src.kind = "v" /\ code[2].src.n = code[1].d
           => LET half == 2^(W \div 2 - 1)
              IN  Signed(B(l)) \in -half..half-1 => v[code[2].d][l] = B(l)

(* Carries and borrows go from instruction to instruction without loss.    *)
CarriesExact == CarryChainExact /\ BorrowExact

(* The results of the other handlers are what arithmetic says, and words.  *)
VectorExact ==
    /\ TypeOK
    /\ SelectsMax /\ ModifiersExact /\ ProductExact
    /\ FieldsExact /\ PairShiftsExact /\ MedianExact /\ ExtendExact
-----------------------------------------------------------------------------
(* What comments and assertions of the code say, and it does not do.       *)

(* "D.u = S0.u - S1.u; vcc = carry-out" of V_SUB_I32.                      *)
SignedBorrowExact ==
    Ran("V_SUB_I32") =>
        \A l \in active : Result(l) - 2^W * BitOf(s[Vcc], l) = A(l) - B(l)

(* "D.u = S0.u + S1.u, vcc = carry-out" of V_ADD_I64.                      *)
WideCarryExact ==
    Ran("V_ADD_I64") =>
        \A l \in active :
            ResultPair(l) + 2^(2*W) * BitOf(s[Vcc], l) =
                Wide(A(l), orig.v[code[1].x + 1][l]) + Wide(B(l), orig.v[code[1].src.n + 1][l])

(* "D.u = S0.u * S1.u" of V_MULLO_U32.                                     *)
LowProductExact ==
    Ran("V_MULLO_U32") => \A l \in active : Result(l) = Wrap(A(l) * B(l))

(* The high word of the product of the two words as unsigned numbers, says *)
(* the comment of V_MULHI_I32: "D.u = (S0.u * S1.u)>>32".                  *)
HighProductExact ==
    collect /\ Ran("V_MULHI_I32") =>
        \A l \in active : Result(l) = (A(l) * B(l)) \div 2^W

(* What V_BFE_I32 returns is the field and nothing else, says its comment: *)
(* "D.i = (S0.i >> S1.u[4:0]) & ((1 << S2.u[4:0]) - 1); bitfield extract". *)
SignedFieldMasked ==
    Ran("V_BFE_I32") =>
        \A l \in active :
            Result(l) = Wrap(Signed(SA) \div 2^(SB % W)) % 2^(SC % W)

(* "vcc = (S0.u == S1.u)" of V_CMP_EQ_U32, whose destination is a TCC.     *)
EqualCompared ==
    Ran("V_CMP_EQ_U32") => \A l \in active : BitOf(s[code[1].d], l) = Flag(A(l) = B(l))

(* "assert(operand_ready)" before the write-back: holds after an           *)
(* instruction whose modifiers its handler accepts.                        *)
OperandsReady == aborted => \E k \in 1..pc-1 : ~(code[k].mods \subseteq Allowed(code[k].op))

(* "D.u = (S0.i == S1.i)" of V_CMP_EQ_I32_VOP3A: all lanes compare the     *)
(* same two scalar registers.                                              *)
LanesAgree ==
    Ran("V_CMP_EQ_I32_VOP3A") =>
        \A l \in active : BitOf(s[code[1].d], l) = Flag(SA = SB)
=============================================================================
