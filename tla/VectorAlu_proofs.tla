------------------------- MODULE VectorAlu_proofs -------------------------
(***************************************************************************)
(* The vector handlers for words of any width, any number of lanes and     *)
(* registers, every active mask and every program whose instructions name  *)
(* registers that exist.                                                   *)
(***************************************************************************)
EXTENDS VectorAlu, TLAPS

(* The lemmas about words of ScalarAlu_proofs, for words of W bits and for *)
(* pairs of them; what is particular to the scalar unit is immaterial.     *)
One == INSTANCE ScalarAlu_proofs WITH
    MaxReg <- 1, ExecReg <- 0, LitReg <- 0, WordRegs <- {}, Literals <- {}, Ops <- {},
    Collect <- FALSE, scc <- 0, last <- 0

Two == INSTANCE ScalarAlu_proofs WITH
    W <- 2 * W,
    MaxReg <- 1, ExecReg <- 0, LitReg <- 0, WordRegs <- {}, Literals <- {}, Ops <- {},
    Collect <- FALSE, scc <- 0, last <- 0

WideWord == 0..2^(2*W)-1

LEMMA Assumed ==
    /\ One!WidthAssumption /\ One!PowerAssumption /\ One!AluAssumption
    /\ Two!WidthAssumption /\ Two!PowerAssumption /\ Two!AluAssumption
  <1>1. One!WidthAssumption /\ One!PowerAssumption
    BY WidthAssumption, PowerAssumption DEF One!WidthAssumption, One!PowerAssumption
  <1>2. One!AluAssumption /\ Two!AluAssumption
    BY DEF One!AluAssumption, Two!AluAssumption
  <1>3. Two!WidthAssumption
    BY WidthAssumption DEF Two!WidthAssumption
  <1>4. Two!PowerAssumption
    <2>1. ASSUME NEW n \in 0..2*W-1 PROVE 2^n \in Nat /\ 2^(n+1) = 2 * 2^n
      <3>1. n \in 0..W-1 \/ n \in W..2*W-1
        BY WidthAssumption
      <3> QED
        BY <3>1, PowerAssumption, WidePowerAssumption
    <2> QED
      BY <2>1 DEF Two!PowerAssumption
  <1> QED
    BY <1>1, <1>2, <1>3, <1>4

(* Induction over the naturals, for a set.                                 *)
LEMMA SetInduction ==
    ASSUME NEW X, 0 \in X, \A n \in Nat : n \in X => n + 1 \in X
    PROVE  Nat \subseteq X
  BY One!SetInduction, Assumed

(* Division with a positive divisor.                                       *)
LEMMA DivMod ==
    ASSUME NEW m \in Nat \ {0}, NEW x \in Int
    PROVE  /\ x % m \in 0..m-1
           /\ x \div m \in Int
           /\ x = (x \div m) * m + (x % m)
  BY One!DivMod, Assumed

LEMMA DivUnique ==
    ASSUME NEW m \in Nat \ {0}, NEW x \in Int, NEW q \in Int,
           q * m <= x, x < q * m + m
    PROVE  x \div m = q
  BY One!DivUnique, Assumed

LEMMA DivShift ==
    ASSUME NEW m \in Nat \ {0}, NEW x \in Int, NEW j \in Int
    PROVE  (x + j * m) \div m = (x \div m) + j
  BY One!DivShift, Assumed

LEMMA DivDiv ==
    ASSUME NEW m \in Nat \ {0}, NEW k \in Nat \ {0}, NEW x \in Int
    PROVE  (x \div m) \div k = x \div (m * k)
  BY One!DivDiv, Assumed

LEMMA DivRange ==
    ASSUME NEW m \in Nat \ {0}, NEW x \in Int, NEW lo \in Int, NEW hi \in Int,
           lo * m <= x, x < hi * m
    PROVE  x \div m \in lo..hi-1
  BY One!DivRange, Assumed

(* Powers of two up to the pair of words.                                  *)
LEMMA Powers == \A n \in 0..2*W : 2^n \in Nat \ {0}
  BY Two!Powers, Assumed

LEMMA PowerSum ==
    ASSUME NEW i \in Nat, NEW j \in Nat, i + j <= 2 * W
    PROVE  2^(i + j) = 2^i * 2^j
  BY Two!PowerSum, Assumed

LEMMA PowerMonotone ==
    ASSUME NEW i \in Nat, NEW j \in Nat, i <= j, j <= 2 * W
    PROVE  2^i <= 2^j
  BY Two!PowerMonotone, Assumed

(* Bits of integers in two's complement.                                   *)
LEMMA BitType ==
    ASSUME NEW x \in Int, NEW i \in 0..2*W
    PROVE  BitOf(x, i) \in {0, 1} /\ x \div 2^i \in Int
  BY Two!BitType, Assumed DEF Two!BitOf, BitOf

LEMMA BitBelow ==
    ASSUME NEW x \in Int, NEW p \in Int, NEW n \in 0..2*W, NEW i \in 0..n-1
    PROVE  BitOf(x + p * 2^n, i) = BitOf(x, i)
  BY Two!BitBelow, Assumed DEF Two!BitOf, BitOf

LEMMA BitAbove ==
    ASSUME NEW n \in 0..2*W, NEW i \in n..2*W, NEW x \in -(2^n)..2^n-1
    PROVE  BitOf(x, i) = IF x < 0 THEN 1 ELSE 0
  BY Two!BitAbove, Assumed DEF Two!BitOf, BitOf

LEMMA RightBits ==
    ASSUME NEW x \in Int, NEW n \in 0..2*W, NEW i \in 0..2*W, n + i <= 2 * W
    PROVE  BitOf(x \div 2^n, i) = BitOf(x, i + n)
  BY Two!RightBits, Assumed DEF Two!BitOf, BitOf

LEMMA BitOperators ==
    ASSUME NEW a \in Word, NEW b \in Word
    PROVE  /\ BitAnd(a, b) \in Word /\ BitOr(a, b) \in Word /\ BitXor(a, b) \in Word
           /\ \A i \in 0..W-1 :
                 /\ BitOf(BitAnd(a, b), i) = BitOf(a, i) * BitOf(b, i)
                 /\ BitOf(BitOr(a, b), i) = BitOf(a, i) + BitOf(b, i) - BitOf(a, i) * BitOf(b, i)
  <1>1. /\ One!BitAnd(a, b) \in One!Word /\ One!BitOr(a, b) \in One!Word /\ One!BitXor(a, b) \in One!Word
        /\ \A i \in 0..W-1 :
              /\ One!BitOf(One!BitAnd(a, b), i) = One!BitOf(a, i) * One!BitOf(b, i)
              /\ One!BitOf(One!BitOr(a, b), i)
                   = One!BitOf(a, i) + One!BitOf(b, i) - One!BitOf(a, i) * One!BitOf(b, i)
    BY One!BitOperators, Assumed DEF One!Word, Word
  <1>2. /\ One!BitAnd(a, b) = BitAnd(a, b) /\ One!BitOr(a, b) = BitOr(a, b)
        /\ One!BitXor(a, b) = BitXor(a, b)
    BY DEF One!BitAnd, One!BitOr, One!BitXor, One!FromBits, One!BitOf,
           BitAnd, BitOr, BitXor, FromBits, BitOf
  <1> QED
    BY <1>1, <1>2 DEF One!Word, Word, One!BitOf, BitOf

(* The numbers that the width of a word leads to.                          *)
LEMMA WordSize ==
    /\ W \in Nat /\ W > 1
    /\ 2^(W-1) \in Nat \ {0} /\ 2^W \in Nat \ {0} /\ 2^W = 2 * 2^(W-1)
    /\ 0 \in Word
  BY One!WordSize, Assumed DEF One!Word, Word

LEMMA WideSize ==
    /\ 2^(2*W) = 2^W * 2^W
    /\ 2^(2*W-1) \in Nat \ {0} /\ 2^(2*W) \in Nat \ {0} /\ 2^(2*W) = 2 * 2^(2*W-1)
  <1>1. W \in Nat /\ W + W = 2 * W /\ W + W <= 2 * W
    BY WordSize
  <1>2. 2^(W + W) = 2^W * 2^W
    BY <1>1, PowerSum
  <1> QED
    BY <1>1, <1>2, Two!WordSize, Assumed

(* A register keeps the low bits of a result.                              *)
LEMMA WrapFacts ==
    ASSUME NEW x \in Int
    PROVE  /\ Wrap(x) \in Word
           /\ x \in Word => Wrap(x) = x
           /\ \E p \in Int : Wrap(x) = x + p * 2^W
           /\ \A i \in 0..W-1 : BitOf(Wrap(x), i) = BitOf(x, i)
  BY One!WrapFacts, Assumed DEF One!Wrap, Wrap, One!Word, Word, One!BitOf, BitOf

LEMMA WideWrapFacts ==
    ASSUME NEW x \in Int
    PROVE  /\ WideWrap(x) \in WideWord
           /\ x \in WideWord => WideWrap(x) = x
           /\ \E p \in Int : WideWrap(x) = x + p * 2^(2*W)
           /\ \A i \in 0..2*W-1 : BitOf(WideWrap(x), i) = BitOf(x, i)
  BY Two!WrapFacts, Assumed DEF Two!Wrap, WideWrap, Two!Word, WideWord, Two!BitOf, BitOf

(* The signed reading of a word has its bits and half the range.           *)
LEMMA SignedFacts ==
    ASSUME NEW a \in Word
    PROVE  /\ Signed(a) \in -(2^(W-1))..2^(W-1)-1
           /\ Signed(a) < 0 <=> Negative(a)
           /\ \A i \in 0..W-1 : BitOf(Signed(a), i) = BitOf(a, i)
  BY One!SignedFacts, Assumed
     DEF One!Signed, Signed, One!Negative, Negative, One!Word, Word, One!BitOf, BitOf
-----------------------------------------------------------------------------
(* The widths that instructions name.                                      *)
LEMMA Widths ==
    /\ W \in Nat /\ W >= 4
    /\ W \div 4 \in 1..W /\ W \div 2 \in 1..W /\ 3 * (W \div 4) \in 1..W
    /\ 2 * (W \div 2) = W
  BY WidthAssumption, VectorAssumption

LEMMA ShiftType == \A n \in Int : Shift(n) \in 0..W-1
  BY WidthAssumption DEF Shift

LEMMA FlagType == \A p : Flag(p) \in {0, 1}
  BY DEF Flag

LEMMA WordInWide ==
    /\ \A x \in Word : x \in WideWord /\ x \in Int /\ x >= 0 /\ x < 2^W
    /\ \A x \in WideWord : x \in Int /\ x >= 0 /\ x < 2^(2*W)
  <1>1. W \in Nat /\ 2^W \in Nat /\ 2^(2*W) \in Nat
    BY WordSize, WideSize
  <1>2. 2^W <= 2^(2*W)
    BY <1>1, PowerMonotone
  <1> QED
    BY <1>1, <1>2 DEF Word, WideWord

(* A pair of words is a wide word, and gives its words back.               *)
LEMMA WideFacts ==
    ASSUME NEW lo \in Word, NEW hi \in Word
    PROVE  /\ Wide(lo, hi) \in WideWord
           /\ Wrap(Wide(lo, hi)) = lo
           /\ Wide(lo, hi) \div 2^W = hi
  <1> DEFINE m == 2^W
  <1>1. m \in Nat \ {0} /\ lo \in 0..m-1 /\ hi \in 0..m-1
    BY WordSize DEF Word
  <1>2. 2^(2*W) = m * m
    BY WideSize
  <1>3. Wide(lo, hi) = lo + hi * m
    BY <1>1 DEF Wide
  <1> HIDE DEF m
  <1>4. hi * m \in Nat /\ hi * m + m <= m * m
    <2>1. (m - 1 - hi) * m \in Nat /\ (m - 1 - hi) * m = m * m - m - hi * m
      BY <1>1
    <2>2. hi * m \in Nat /\ m * m \in Nat
      BY <1>1
    <2> QED
      BY <1>1, <2>1, <2>2
  <1>5. lo + hi * m \in 0..m * m - 1
    <2>1. m * m \in Nat
      BY <1>1
    <2> QED
      BY <1>1, <1>4, <2>1
  <1>6. (lo + hi * m) \div m = hi
    <2>1. lo + hi * m \in Int /\ hi \in Int /\ hi * m <= lo + hi * m /\ lo + hi * m < hi * m + m
      BY <1>1, <1>4
    <2> QED
      BY <1>1, <2>1, DivUnique
  <1>7. (lo + hi * m) % m = lo
    <2>1. lo + hi * m = ((lo + hi * m) \div m) * m + ((lo + hi * m) % m)
      BY <1>1, <1>4, DivMod
    <2> DEFINE r == (lo + hi * m) % m
    <2>2. r \in Int
      BY <1>1, <1>4, DivMod
    <2>3. lo + hi * m = hi * m + r
      BY <1>6, <2>1
    <2> HIDE DEF r
    <2>4. r = lo
      BY <1>1, <1>4, <2>2, <2>3
    <2> QED
      BY <2>4 DEF r
  <1> QED
    BY <1>2, <1>3, <1>5, <1>6, <1>7 DEF WideWord, Wrap, m

(* A wide word is the pair of its words.                                   *)
LEMMA WideParts ==
    ASSUME NEW x \in WideWord
    PROVE  /\ x \div 2^W \in Word
           /\ Wide(Wrap(x), x \div 2^W) = x
  <1> DEFINE m == 2^W
  <1>1. m \in Nat \ {0} /\ 2^(2*W) = m * m
    BY WordSize, WideSize
  <1>2. x \in Int /\ 0 * m <= x /\ x < m * m
    BY <1>1 DEF WideWord
  <1> HIDE DEF m
  <1>3. x \div m \in 0..m-1
    BY <1>1, <1>2, DivRange
  <1>4. x % m \in Int /\ x = (x \div m) * m + (x % m)
    BY <1>1, <1>2, DivMod
  <1> DEFINE q == x \div m
             r == x % m
  <1>5. q \in Int /\ r \in Int /\ x = q * m + r
    BY <1>3, <1>4
  <1> HIDE DEF q, r
  <1>6. r + m * q = x
    BY <1>1, <1>5
  <1> QED
    BY <1>3, <1>6 DEF Wide, Wrap, Word, m, q, r

LEMMA ChopType ==
    ASSUME NEW x \in Int, NEW w \in 0..2*W
    PROVE  Chop(x, w) \in WideWord /\ Zext(x, w) \in WideWord /\ x % 2^w \in 0..2^w-1
  <1>1. W \in Nat /\ 2^w \in Nat \ {0} /\ 2^(2*W) \in Nat
    BY WordSize, WideSize, Powers
  <1>2. w \in Nat /\ 2^w <= 2^(2*W)
    BY <1>1, PowerMonotone
  <1>3. x % 2^w \in 0..2^w-1
    BY <1>1, DivMod
  <1> QED
    BY <1>1, <1>2, <1>3 DEF Chop, Zext, WideWord

LEMMA SextType ==
    ASSUME NEW x \in Int, NEW w \in 0..2*W
    PROVE  Sext(x, w) \in WideWord
  <1>1. 2^w \in Nat /\ Chop(x, w) \in WideWord
    BY ChopType, Powers
  <1>2. Chop(x, w) \in Int
    BY <1>1, WordInWide
  <1>3. Chop(x, w) - 2^w \in Int
    BY <1>1, <1>2
  <1> QED
    BY <1>1, <1>3, WideWrapFacts DEF Sext

LEMMA SignExtendType ==
    ASSUME NEW a \in Int, NEW w \in 0..W
    PROVE  SignExtend(a, w) \in Word
  <1>1. w \in 0..2*W /\ w \in Nat /\ W \in Nat
    BY WordSize
  <1>2. 2^w \in Nat /\ a % 2^w \in 0..2^w-1 /\ 2^W \in Nat /\ 2^w <= 2^W
    BY <1>1, ChopType, Powers, WordSize, PowerMonotone
  <1>3. a % 2^w \in Word /\ (a % 2^w) - 2^w \in Int
    BY <1>2 DEF Word
  <1> QED
    BY <1>3, WrapFacts DEF SignExtend

LEMMA SignedType == \A a \in Word : Signed(a) \in Int
  BY SignedFacts, WordSize

LEMMA RightShiftType ==
    ASSUME NEW a \in Word, NEW n \in 0..W-1
    PROVE  a \div 2^n \in Word
  BY One!LogicalShift, Assumed DEF One!Word, Word, One!BitOf, BitOf

(* A quotient and a product with a power of two.                           *)
LEMMA ShiftedType ==
    ASSUME NEW x \in Int, NEW n \in 0..W-1
    PROVE  x \div 2^n \in Int /\ x * 2^n \in Int
  <1>1. n \in 0..2*W
    BY WordSize
  <1>2. 2^n \in Nat \ {0}
    BY <1>1, Powers
  <1> QED
    BY <1>2, DivMod

LEMMA WideSignedType == \A x \in WideWord : WideSigned(x) \in Int
  BY WideSize, WordInWide DEF WideSigned

LEMMA HighProductType ==
    ASSUME NEW a \in Word, NEW b \in Word
    PROVE  V_MULHI_U32(a, b) \in Word
  <1> DEFINE m == 2^W
             p == a * b
  <1>1. m \in Nat \ {0} /\ a \in 0..m-1 /\ b \in 0..m-1
    BY WordSize DEF Word
  <1> HIDE DEF m
  <1>2. p \in Nat /\ p < m * m
    <2>1. (m - 1 - a) * b \in Nat /\ (m - 1 - a) * b = m * b - b - a * b
      BY <1>1
    <2>2. m * (m - 1 - b) \in Nat /\ m * (m - 1 - b) = m * m - m - m * b
      BY <1>1
    <2>3. a * b \in Nat /\ m * b \in Nat /\ m * m \in Nat
      BY <1>1
    <2> QED
      BY <1>1, <2>1, <2>2, <2>3
  <1> HIDE DEF p
  <1>3. p \in Int /\ 0 * m <= p /\ p < m * m
    BY <1>1, <1>2
  <1>4. p \div m \in 0..m-1
    BY <1>1, <1>3, DivRange
  <1> QED
    BY <1>4 DEF V_MULHI_U32, Word, m, p

(* The handlers of VOP1 return wide words.                                 *)
LEMMA VOP1Type ==
    ASSUME NEW op \in VOP1Ops, NEW a \in Word
    PROVE  VOP1(op, a) \in WideWord
  <1>1. /\ a \in Int /\ a \in WideWord
        /\ W \div 4 \in 0..2*W /\ W \div 2 \in 0..2*W /\ W \in 0..2*W
    BY WordInWide, Widths
  <1>2. /\ Sext(a, W \div 4) \in WideWord /\ Sext(a, W \div 2) \in WideWord /\ Sext(a, W) \in WideWord
        /\ Zext(a, W \div 4) \in WideWord /\ Zext(a, W \div 2) \in WideWord /\ Zext(a, W) \in WideWord
        /\ Chop(a, W \div 2) \in WideWord
    BY <1>1, SextType, ChopType
  <1>3. V_NOT_B32(a) \in WideWord
    <2>1. Invert(a) \in Word
      BY WordSize, WordInWide DEF Invert, Word
    <2> QED
      BY <2>1, WordInWide DEF V_NOT_B32
  <1> QED
    BY <1>1, <1>2, <1>3 DEF VOP1, VOP1Ops, Extended

(* The handlers of VOP2 return wide words.                                 *)
LEMMA VOP2Type ==
    ASSUME NEW op \in VOP2Ops, NEW a, NEW b \in Word, NEW c \in {0, 1},
           IF op \in WideSrc0 THEN a \in WideWord ELSE a \in Word
    PROVE  VOP2(op, a, b, c) \in WideWord
  <1>0. b \in Int /\ Shift(b) \in 0..W-1 /\ a \in Int /\ Shift(a) \in 0..W-1 /\ W \in 0..2*W
    BY WordInWide, ShiftType, WordSize
  <1>1. CASE op \in WideSrc0
    <2>1. WideSigned(a) \in Int
      BY <1>1, WideSignedType
    <2>2. WideSigned(a) \div 2^Shift(b) \in Int /\ a * 2^Shift(b) \in Int
      BY <1>0, <2>1, ShiftedType
    <2>3. V_ASHR_I64(a, b) \in WideWord /\ V_LSHL_B64(a, b) \in WideWord
      BY <2>2, WideWrapFacts DEF V_ASHR_I64, V_LSHL_B64
    <2> QED
      BY <1>1, <2>3 DEF VOP2, VOP2Ops, WideSrc0
  <1>2. CASE op \notin WideSrc0
    <2>0. a \in Word
      BY <1>2
    <2>1. \A x \in Int : Wrap(x) \in Word
      BY WrapFacts
    <2>2. V_CNDMASK_B32(a, b, c) \in Word /\ V_MAX_I32(a, b) \in Word /\ V_MIN_I32(a, b) \in Word
          /\ V_MIN_U32(a, b) \in Word /\ V_MAX_U32(a, b) \in Word
      BY <2>0 DEF V_CNDMASK_B32, V_MAX_I32, V_MIN_I32, V_MIN_U32, V_MAX_U32
    <2>3. V_MUL_I32_I24(a, b) \in Word /\ V_MULLO_I32_I24(a, b) \in Word
      <3>1. SignExtend(a, 3 * (W \div 4)) \in Word /\ SignExtend(b, 3 * (W \div 4)) \in Word
        BY <1>0, Widths, SignExtendType
      <3> DEFINE x == Signed(SignExtend(a, 3 * (W \div 4)))
                 y == Signed(SignExtend(b, 3 * (W \div 4)))
      <3>2. x \in Int /\ y \in Int
        BY <3>1, SignedType
      <3> HIDE DEF x, y
      <3>3. x * y \in Int
        BY <3>2
      <3> QED
        BY <2>1, <3>3 DEF V_MUL_I32_I24, V_MULLO_I32_I24, x, y
    <2>4. V_MULLO_I32(a, b) \in Word
      <3>1. Signed(a) \in Int /\ Signed(b) \in Int
        BY <2>0, SignedType
      <3> QED
        BY <2>1, <3>1 DEF V_MULLO_I32
    <2>5. V_MUL_I64_I32(a, b) \in WideWord
      BY <1>0, <2>4, WordInWide, SextType DEF V_MUL_I64_I32
    <2>6. V_MULHI_U32(a, b) \in Word
      BY <2>0, HighProductType
    <2>7. V_MULHI_I32(a, b) \in Word
      <3> DEFINE x == Sext(a, W)
                 y == Sext(b, W)
      <3>1. x \in Int /\ y \in Int
        BY <1>0, SextType, WordInWide
      <3> HIDE DEF x, y
      <3>2. WideWrap(x * y) \in WideWord
        BY <3>1, WideWrapFacts
      <3> QED
        BY <3>2, WideParts DEF V_MULHI_I32, x, y
    <2>8. V_LSHRREV_B32(a, b) \in Word
      BY <1>0, RightShiftType DEF V_LSHRREV_B32
    <2>9. V_ASHRREV_I32(a, b) \in Word /\ V_LSHL_B32(a, b) \in Word /\ V_LSHLREV_B32(a, b) \in Word
      <3>1. Signed(b) \in Int
        BY SignedType
      <3>2. Signed(b) \div 2^Shift(a) \in Int /\ a * 2^Shift(b) \in Int /\ b * 2^Shift(a) \in Int
        BY <1>0, <3>1, ShiftedType
      <3> QED
        BY <2>1, <3>2 DEF V_ASHRREV_I32, V_LSHL_B32, V_LSHLREV_B32
    <2>10. V_AND_B32(a, b) \in Word /\ V_OR_B32(a, b) \in Word /\ V_XOR_B32(a, b) \in Word
      BY <2>0, BitOperators DEF V_AND_B32, V_OR_B32, V_XOR_B32
    <2> QED
      BY <1>2, <2>2, <2>3, <2>4, <2>5, <2>6, <2>7, <2>8, <2>9, <2>10, WordInWide
         DEF VOP2, VOP2Ops, WideSrc0
  <1> QED
    BY <1>1, <1>2

(* FunUnit::add: the result and the carry are the two parts of the sum.    *)
LEMMA AddFacts ==
    ASSUME NEW a \in Word, NEW b \in Word, NEW c \in {0, 1}
    PROVE  /\ Wrap(a + b + c) \in Word
           /\ (a + b + c) \div 2^W \in {0, 1}
           /\ Wrap(a + b + c) + 2^W * ((a + b + c) \div 2^W) = a + b + c
  <1> DEFINE m == 2^W
             x == a + b + c
             q == x \div m
             r == x % m
  <1>1. m \in Nat \ {0} /\ a \in 0..m-1 /\ b \in 0..m-1
    BY WordSize DEF Word
  <1>2. x \in Int /\ 0 <= x /\ x < 2 * m
    BY <1>1
  <1> HIDE DEF m, x
  <1>3. r \in 0..m-1 /\ q \in Int /\ x = q * m + r
    BY <1>1, <1>2, DivMod
  <1>4. q \in 0..1
    <2>1. 0 * m <= x
      BY <1>1, <1>2
    <2>2. q \in 0..2-1
      BY <1>1, <1>2, <2>1, DivRange
    <2> QED
      BY <2>2
  <1> HIDE DEF q, r
  <1>5. r + m * q = x
    BY <1>1, <1>3
  <1> QED
    BY <1>3, <1>4, <1>5 DEF Wrap, Word, m, x, q, r

(* The difference and the borrow.                                          *)
LEMMA SubFacts ==
    ASSUME NEW a \in Word, NEW b \in Word
    PROVE  /\ Wrap(a - b) \in Word
           /\ Wrap(a - b) - 2^W * Flag(b > a) = a - b
  <1> DEFINE m == 2^W
             x == a - b
  <1>1. m \in Nat \ {0} /\ a \in 0..m-1 /\ b \in 0..m-1
    BY WordSize DEF Word
  <1>2. Wrap(x) \in Word
    BY <1>1, WrapFacts
  <1>3. PICK p \in Int : Wrap(x) = x + p * m
    BY <1>1, WrapFacts
  <1>4. Wrap(x) \in 0..m-1
    BY <1>2 DEF Word
  <1> DEFINE y == Wrap(x)
  <1>5. y \in 0..m-1 /\ y = a - b + p * m
    BY <1>3, <1>4
  <1> HIDE DEF m, x, y
  <1>6. CASE b > a
    <2>1. p = 1
      <3>1. p < 2 \/ (p - 2) \in Nat
        OBVIOUS
      <3>2. p > 0 \/ -p \in Nat
        OBVIOUS
      <3>3. (p - 2) \in Nat => (p - 2) * m \in Nat /\ (p - 2) * m = p * m - 2 * m
        BY <1>1
      <3>4. -p \in Nat => (-p) * m \in Nat /\ (-p) * m = -(p * m)
        BY <1>1
      <3>5. p * m \in Int
        BY <1>1
      <3> QED
        BY <1>1, <1>5, <1>6, <3>1, <3>2, <3>3, <3>4, <3>5
    <2>2. Flag(b > a) = 1 /\ p * m = m
      BY <1>1, <1>6, <2>1 DEF Flag
    <2> QED
      BY <1>1, <1>2, <1>5, <2>2 DEF x, y, m
  <1>7. CASE ~(b > a)
    <2>1. x \in Word
      BY <1>1, <1>7 DEF x, m, Word
    <2>2. Wrap(x) = x
      BY <2>1, WrapFacts, WordInWide
    <2>3. Flag(b > a) = 0
      BY <1>7 DEF Flag
    <2> QED
      BY <1>1, <1>2, <2>2, <2>3 DEF x, m
  <1> QED
    BY <1>6, <1>7

(* The handlers that write VCC return a wide word and a bit.               *)
LEMMA CarryType ==
    ASSUME NEW op \in CarryOps, NEW a, NEW b,
           IF op = "V_ADD_I64" THEN a \in WideWord /\ b \in WideWord ELSE a \in Word /\ b \in Word
    PROVE  WithCarry(op, a, b)[1] \in WideWord /\ WithCarry(op, a, b)[2] \in {0, 1}
  <1>1. CASE op = "V_ADD_I64"
    <2>1. a \in Int /\ b \in Int
      BY <1>1, WordInWide
    <2>2. WideWrap(a + b) \in WideWord
      BY <2>1, WideWrapFacts
    <2> QED
      BY <1>1, <2>2, FlagType DEF WithCarry, V_ADD_I64
  <1>2. CASE op # "V_ADD_I64"
    <2>1. a \in Word /\ b \in Word /\ a \in Int /\ b \in Int
      BY <1>2, WordInWide
    <2>2. a + b + 0 = a + b
      BY <2>1
    <2>3. Wrap(a + b) \in WideWord /\ (a + b) \div 2^W \in {0, 1}
      BY <2>1, <2>2, AddFacts, WordInWide
    <2>4. Wrap(a - b) \in WideWord /\ Wrap(b - a) \in WideWord
      BY <2>1, SubFacts, WordInWide
    <2> QED
      BY <1>2, <2>3, <2>4, FlagType
         DEF WithCarry, CarryOps, V_ADD_I32, V_ADD_U32, V_ADDCO_U32, V_SUB_I32, V_SUB_U32,
             V_SUBREV_I32, V_SUBREV_U32
  <1> QED
    BY <1>1, <1>2

(* The arithmetic of VOP3A returns words.                                  *)
LEMMA Arithmetic3AType ==
    ASSUME NEW op \in Arithmetic3AOps, NEW a \in Word, NEW b \in Word, NEW c \in Word
    PROVE  Arithmetic3A(op, a, b, c) \in Word
  <1>0. /\ a \in Int /\ b \in Int /\ c \in Int /\ Shift(b) \in 0..W-1 /\ Shift(c) \in 0..W-1
        /\ W \in Nat /\ W \in 0..2*W
    BY WordInWide, ShiftType, WordSize
  <1>1. \A x \in Int : Wrap(x) \in Word
    BY WrapFacts
  <1>2. V_MUL_I32_I24_VOP3A(a, b) \in Word
    <2>1. SignExtend(a, 3 * (W \div 4)) \in Word /\ SignExtend(b, 3 * (W \div 4)) \in Word
      BY <1>0, Widths, SignExtendType
    <2> DEFINE x == Signed(SignExtend(a, 3 * (W \div 4)))
               y == Signed(SignExtend(b, 3 * (W \div 4)))
    <2>2. x \in Int /\ y \in Int
      BY <2>1, SignedType
    <2> HIDE DEF x, y
    <2>3. x * y \in Int
      BY <2>2
    <2> QED
      BY <1>1, <2>3 DEF V_MUL_I32_I24_VOP3A, V_MUL_I32_I24, x, y
  <1>3. V_MAD_U32_U24(a, b, c) \in Word
    <2> DEFINE x == a % 2^(3 * (W \div 4))
               y == b % 2^(3 * (W \div 4))
    <2>1. 3 * (W \div 4) \in 0..2*W
      BY Widths
    <2>2. x \in Int /\ y \in Int
      BY <1>0, <2>1, ChopType, Powers
    <2> HIDE DEF x, y
    <2>3. x * y + c \in Int
      BY <1>0, <2>2
    <2> QED
      BY <1>1, <2>3 DEF V_MAD_U32_U24, x, y
  <1>4. V_BFE_U32(a, b, c) \in Word
    <2>1. a \div 2^Shift(b) \in Word
      BY <1>0, RightShiftType
    <2> DEFINE x == a \div 2^Shift(b)
               n == Shift(c)
    <2>2. x \in Int
      BY <2>1, WordInWide
    <2>3. n \in 0..W-1
      BY <1>0
    <2> HIDE DEF x, n
    <2>4. n \in 0..2*W /\ n \in Nat /\ n <= W /\ W <= 2 * W
      BY <1>0, <2>3
    <2>5. x % 2^n \in 0..2^n-1 /\ 2^n \in Nat
      BY <2>2, <2>4, ChopType, Powers
    <2>6. 2^W \in Nat /\ 2^n <= 2^W
      BY <1>0, <2>4, WordSize, PowerMonotone
    <2>7. x % 2^n \in Word
      BY <2>5, <2>6 DEF Word
    <2> QED
      BY <2>7 DEF V_BFE_U32, x, n
  <1>5. V_BFE_I32(a, b, c) \in Word
    <2> DEFINE n == Shift(b)
               w == Shift(c)
    <2>1. n \in 0..W-1 /\ w \in 0..W-1
      BY <1>0
    <2> HIDE DEF n, w
    <2>2. Wrap(Signed(a) \div 2^n) \in Word
      BY <1>1, <2>1, SignedType, ShiftedType
    <2>3. ASSUME w # 0, n + w < W PROVE Wrap(Signed(Wrap(a * 2^(W - n - w))) \div 2^(W - w)) \in Word
      <3>1. W - n - w \in 0..W-1 /\ W - w \in 0..W-1
        BY <1>0, <2>1, <2>3
      <3>2. a * 2^(W - n - w) \in Int
        BY <1>0, <3>1, ShiftedType
      <3>3. Signed(Wrap(a * 2^(W - n - w))) \in Int
        BY <1>1, <3>2, SignedType
      <3> QED
        BY <1>1, <3>1, <3>3, ShiftedType
    <2> QED
      BY <2>2, <2>3, WordSize DEF V_BFE_I32, n, w
  <1>6. V_BFI_B32(a, b, c) \in Word
    <2>1. Invert(a) \in Word
      BY WordSize, WordInWide DEF Invert, Word
    <2> QED
      BY <2>1, BitOperators DEF V_BFI_B32
  <1>7. V_ALIGNBIT_B32(a, b, c) \in Word
    <2>1. Wide(b, a) \in Int
      BY WideFacts, WordInWide
    <2> QED
      BY <1>0, <1>1, <2>1, ShiftedType DEF V_ALIGNBIT_B32
  <1>8. V_MAX3_I32(a, b, c) \in Word /\ V_MED3_I32(a, b, c) \in Word
    BY DEF V_MAX3_I32, V_MED3_I32
  <1> QED
    BY <1>2, <1>3, <1>4, <1>5, <1>6, <1>7, <1>8 DEF Arithmetic3A, Arithmetic3AOps

LEMMA SelectType ==
    ASSUME NEW m, NEW a \in Word, NEW b \in Word, NEW bit
    PROVE  V_CNDMASK_B32_VOP3A(m, a, b, bit) \in Word
  <1>1. a + 2^(W-1) \in Int /\ b + 2^(W-1) \in Int
    BY WordInWide, WordSize
  <1>2. FlipSign(a) \in Word /\ FlipSign(b) \in Word
    BY <1>1, WrapFacts DEF FlipSign
  <1> QED
    BY <1>2 DEF V_CNDMASK_B32_VOP3A
-----------------------------------------------------------------------------
(* The word of given bits.                                                 *)
LEMMA FromBitsFacts ==
    ASSUME NEW b \in [0..W-1 -> {0, 1}]
    PROVE  /\ FromBits(b) \in Word
           /\ \A i \in 0..W-1 : BitOf(FromBits(b), i) = b[i]
  BY One!FromBitsFacts, Assumed
     DEF One!FromBits, FromBits, One!Word, Word, One!BitOf, BitOf, One!Bits

(* A mask register after the active lanes have set their bits.             *)
LEMMA SetBitsFacts ==
    ASSUME NEW x \in Word, NEW b \in [Lanes -> {0, 1}], active \subseteq Lanes
    PROVE  /\ SetBits(x, b) \in Word
           /\ \A l \in active : BitOf(SetBits(x, b), l) = b[l]
           /\ \A l \in Lanes \ active : BitOf(SetBits(x, b), l) = BitOf(x, l)
  <1> DEFINE f == [k \in 0..W-1 |-> IF k \in active THEN b[k] ELSE BitOf(x, k)]
  <1>1. \A k \in Lanes : k \in 0..W-1
    BY VectorAssumption, WidthAssumption DEF Lanes
  <1>2. f \in [0..W-1 -> {0, 1}]
    <2>1. ASSUME NEW k \in 0..W-1 PROVE f[k] \in {0, 1}
      <3>1. k \in 0..2*W /\ x \in Int
        BY WordSize, WordInWide
      <3>2. BitOf(x, k) \in {0, 1}
        BY <3>1, BitType
      <3> QED
        BY <3>2
    <2> QED
      BY <2>1
  <1>3. SetBits(x, b) = FromBits(f)
    BY DEF SetBits
  <1> HIDE DEF f
  <1>4. FromBits(f) \in Word /\ \A i \in 0..W-1 : BitOf(FromBits(f), i) = f[i]
    BY <1>2, FromBitsFacts
  <1> QED
    BY <1>1, <1>3, <1>4 DEF f

(* A lane sets its bit of a mask register.                                 *)
LEMMA SetBitFacts ==
    ASSUME NEW a \in Word, NEW l \in 0..W-1, NEW b \in {0, 1}
    PROVE  /\ SetBit(a, l, b) \in Word
           /\ \A i \in 0..W-1 : BitOf(SetBit(a, l, b), i) = IF i = l THEN b ELSE BitOf(a, i)
  <1> DEFINE e == 2^l
             y == a \div e
             lo == a % e
             hi == y \div 2
             bit == y % 2
             x == SetBit(a, l, b)
  <1>1. /\ l \in 0..2*W /\ l \in Nat /\ W \in Nat /\ l + 1 \in Nat /\ W - (l + 1) \in Nat
        /\ (l + 1) + (W - (l + 1)) = W /\ l + 1 \in 0..2*W /\ W - (l + 1) \in 0..2*W
    BY WordSize
  <1>2. e \in Nat \ {0} /\ a \in Int
    BY <1>1, Powers, WordInWide
  <1>3. BitOf(a, l) = bit /\ x = a - bit * e + b * e
    BY DEF BitOf, SetBit
  <1> HIDE DEF e, x
  <1>4. lo \in 0..e-1 /\ y \in Int /\ a = y * e + lo
    BY <1>2, DivMod
  <1> HIDE DEF y, lo
  <1>5. hi \in Int /\ bit \in {0, 1} /\ y = 2 * hi + bit
    BY <1>4
  <1> HIDE DEF hi, bit
  <1>6. /\ a = lo + (2 * hi + bit) * e
        /\ x = lo + (2 * hi + b) * e
    <2>1. (2 * hi + bit) * e = (2 * hi) * e + bit * e /\ (2 * hi + b) * e = (2 * hi) * e + b * e
      BY <1>2, <1>5
    <2>2. (2 * hi) * e \in Int /\ bit * e \in Int /\ b * e \in Int
      BY <1>2, <1>5
    <2>3. a = lo + (2 * hi + bit) * e
      BY <1>2, <1>4, <1>5
    <2> QED
      BY <1>2, <1>3, <1>4, <2>1, <2>2, <2>3
  <1>7. 2 * hi + bit \in Int /\ 2 * hi + b \in Int /\ lo \in Int /\ x \in Int
    <2>1. 2 * hi + bit \in Int /\ 2 * hi + b \in Int /\ lo \in Int
      BY <1>4, <1>5
    <2> QED
      BY <1>2, <1>6, <2>1
  <1>8. a \div e = 2 * hi + bit /\ x \div e = 2 * hi + b
    <2>1. lo \div e = 0
      <3>1. 0 * e <= lo /\ lo < 0 * e + e
        BY <1>2, <1>4
      <3> QED
        BY <1>2, <1>7, <3>1, DivUnique
    <2>2. (lo + (2 * hi + bit) * e) \div e = (lo \div e) + (2 * hi + bit)
      BY <1>2, <1>7, DivShift
    <2>3. (lo + (2 * hi + b) * e) \div e = (lo \div e) + (2 * hi + b)
      BY <1>2, <1>7, DivShift
    <2> QED
      BY <1>6, <1>7, <2>1, <2>2, <2>3
  <1>9. 2^(l + 1) = e * 2
    <2>1. l \in 0..2*W-1
      BY <1>1
    <2>2. 2^(l + 1) = 2 * 2^l
      <3>1. l \in 0..W-1
        OBVIOUS
      <3> QED
        BY <3>1, PowerAssumption
    <2> QED
      BY <1>2, <2>2 DEF e
  <1>10. a \div 2^(l + 1) = hi /\ x \div 2^(l + 1) = hi
    <2>1. (2 * hi + bit) \div 2 = hi /\ (2 * hi + b) \div 2 = hi
      BY <1>5
    <2>2. (a \div e) \div 2 = a \div (e * 2) /\ (x \div e) \div 2 = x \div (e * 2)
      <3>1. 2 \in Nat \ {0}
        OBVIOUS
      <3> QED
        BY <1>2, <1>7, <3>1, DivDiv
    <2> QED
      BY <1>8, <1>9, <2>1, <2>2
  <1>11. x \in Word
    <2> DEFINE u == 2^(W - (l + 1))
               d == 2^(l + 1)
    <2>1. 2^W = d * u /\ d \in Nat \ {0} /\ u \in Nat \ {0}
      <3>1. (l + 1) + (W - (l + 1)) <= 2 * W
        BY <1>1
      <3>2. 2^((l + 1) + (W - (l + 1))) = d * u
        BY <1>1, <3>1, PowerSum
      <3> QED
        BY <1>1, <3>2, Powers
    <2>2. d = e * 2
      BY <1>9
    <2>3. a \in 0..d * u - 1
      BY <2>1 DEF Word
    <2> HIDE DEF d, u
    <2>4. hi \in 0..u-1
      <3>1. a \div d = hi
        BY <1>10 DEF d
      <3>2. 0 * d <= a /\ a < u * d
        BY <2>1, <2>3
      <3>3. a \div d \in 0..u-1
        BY <1>2, <2>1, <3>2, DivRange
      <3> QED
        BY <3>1, <3>3
    <2>5. hi * d \in Nat /\ hi * d + d <= d * u
      <3>1. (u - 1 - hi) * d \in Nat /\ (u - 1 - hi) * d = d * u - d - hi * d
        BY <2>1, <2>4
      <3>2. hi * d \in Nat /\ d * u \in Nat
        BY <2>1, <2>4
      <3> QED
        BY <2>1, <3>1, <3>2
    <2>6. x = lo + b * e + hi * d
      <3>1. (2 * hi + b) * e = hi * (e * 2) + b * e
        BY <1>2, <1>5
      <3>2. hi * (e * 2) \in Int /\ b * e \in Int
        BY <1>2, <1>5
      <3> QED
        BY <1>6, <1>7, <2>2, <3>1, <3>2
    <2>7. lo + b * e \in 0..d-1
      <3>1. CASE b = 0
        BY <1>2, <1>4, <2>2, <3>1
      <3>2. CASE b = 1
        BY <1>2, <1>4, <2>2, <3>2
      <3> QED
        BY <3>1, <3>2
    <2>8. x \in 0..d * u - 1
      <3> DEFINE z == lo + b * e
      <3>1. z \in 0..d-1 /\ x = z + hi * d
        BY <2>6, <2>7
      <3> HIDE DEF z
      <3>2. d * u \in Nat
        BY <2>1
      <3> QED
        BY <2>1, <2>5, <3>1, <3>2
    <2> QED
      BY <2>1, <2>8 DEF Word
  <1>12. ASSUME NEW i \in 0..W-1 PROVE BitOf(x, i) = IF i = l THEN b ELSE BitOf(a, i)
    <2>1. CASE i = l
      <3>1. BitOf(x, l) = (2 * hi + b) % 2
        BY <1>8 DEF BitOf, e
      <3>2. (2 * hi + b) % 2 = b
        BY <1>5
      <3> QED
        BY <2>1, <3>1, <3>2
    <2>2. CASE i < l
      <3>1. i \in 0..l-1
        BY <2>2
      <3>2. /\ BitOf(lo + (2 * hi + bit) * e, i) = BitOf(lo, i)
            /\ BitOf(lo + (2 * hi + b) * e, i) = BitOf(lo, i)
        BY ZenonT(30), <1>1, <1>7, <3>1, BitBelow DEF e
      <3> QED
        BY <1>6, <2>2, <3>2
    <2>3. CASE i > l
      <3> DEFINE k == i - (l + 1)
      <3>1. k \in 0..2*W /\ (l + 1) + k <= 2 * W /\ k + (l + 1) = i
        BY <1>1, <2>3
      <3> HIDE DEF k
      <3>2. BitOf(x \div 2^(l + 1), k) = BitOf(x, k + (l + 1))
        BY <1>1, <1>7, <3>1, RightBits
      <3>3. BitOf(a \div 2^(l + 1), k) = BitOf(a, k + (l + 1))
        BY <1>1, <1>2, <3>1, RightBits
      <3> QED
        BY <1>10, <2>3, <3>1, <3>2, <3>3
    <2> QED
      BY <2>1, <2>2, <2>3
  <1> QED
    BY <1>11, <1>12 DEF x
-----------------------------------------------------------------------------
(* The handler of VOP3A or VOP3B for one lane.                             *)
Lane(i, t, l) == IF i.op = "V_ADDC_U32" THEN V_ADDC_U32(i, t, l) ELSE Lane3A(i, t, l)

(* The registers after the first n + 1 lanes, from those after n of them.  *)
LaneStep(i, t, n) == IF n \in active THEN Lane(i, t, n) ELSE t

(* The loop over the lanes passes through NLanes + 1 states.               *)
LEMMA InTurnSteps ==
    ASSUME NEW i
    PROVE  \E f : /\ InTurn(i) = f[NLanes]
                  /\ f[0] = [v |-> v, s |-> s]
                  /\ \A n \in 0..NLanes-1 : f[n + 1] = LaneStep(i, f[n], n)
  <1> DEFINE start == [v |-> v, s |-> s]
             After(f) == f = [n \in 0..NLanes |-> IF n = 0 THEN start
                                ELSE IF n - 1 \in active
                                     THEN IF i.op = "V_ADDC_U32" THEN V_ADDC_U32(i, f[n - 1], n - 1)
                                                                 ELSE Lane3A(i, f[n - 1], n - 1)
                                     ELSE f[n - 1]]
             E(n) == \E f : f[0] = start /\ \A k \in 1..n : f[k] = LaneStep(i, f[k - 1], k - 1)
             S == {n \in Nat : E(n)}
  <1>0. NLanes \in Nat
    BY VectorAssumption
  <1>1. 0 \in S
    <2> DEFINE f == [k \in 0..0 |-> start]
    <2>1. f[0] = start /\ \A k \in 1..0 : f[k] = LaneStep(i, f[k - 1], k - 1)
      OBVIOUS
    <2> HIDE DEF start
    <2>2. E(0)
      BY <2>1
    <2> QED
      BY <2>2
  <1>2. ASSUME NEW n \in Nat, n \in S PROVE n + 1 \in S
    <2>1. PICK f : f[0] = start /\ \A k \in 1..n : f[k] = LaneStep(i, f[k - 1], k - 1)
      BY <1>2
    <2> HIDE DEF start
    <2> DEFINE t == LaneStep(i, f[n], n)
               u == [k \in 0..n+1 |-> IF k = n + 1 THEN t ELSE f[k]]
    <2>2. u[0] = start
      BY <2>1
    <2>3. ASSUME NEW k \in 1..n+1 PROVE u[k] = LaneStep(i, u[k - 1], k - 1)
      <3>1. CASE k = n + 1
        <4>1. u[k] = t /\ k - 1 = n /\ u[n] = f[n]
          BY <3>1
        <4> QED
          BY <4>1
      <3>2. CASE k # n + 1
        <4>1. k \in 1..n /\ k - 1 \in 0..n /\ u[k] = f[k] /\ u[k - 1] = f[k - 1]
          BY <3>2
        <4> QED
          BY <2>1, <4>1
      <3> QED
        BY <3>1, <3>2
    <2>4. E(n + 1)
      BY <2>2, <2>3
    <2> QED
      BY <2>4
  <1> HIDE DEF S
  <1>3. Nat \subseteq S
    BY <1>1, <1>2, SetInduction
  <1>4. E(NLanes)
    BY <1>0, <1>3 DEF S
  <1>5. \E f : After(f)
    <2>1. PICK f : f[0] = start /\ \A k \in 1..NLanes : f[k] = LaneStep(i, f[k - 1], k - 1)
      BY <1>4
    <2> HIDE DEF start
    <2> DEFINE u == [k \in 0..NLanes |-> f[k]]
    <2>2. ASSUME NEW n \in 0..NLanes
          PROVE  u[n] = IF n = 0 THEN start
                        ELSE IF n - 1 \in active
                             THEN IF i.op = "V_ADDC_U32" THEN V_ADDC_U32(i, u[n - 1], n - 1)
                                                         ELSE Lane3A(i, u[n - 1], n - 1)
                             ELSE u[n - 1]
      <3>1. CASE n = 0
        BY <2>1, <3>1
      <3>2. CASE n # 0
        <4>1. n \in 1..NLanes /\ n - 1 \in 0..NLanes
          BY <1>0, <3>2
        <4>2. u[n] = f[n] /\ u[n - 1] = f[n - 1] /\ f[n] = LaneStep(i, f[n - 1], n - 1)
          BY <2>1, <4>1
        <4> QED
          BY <3>2, <4>2 DEF LaneStep, Lane
      <3> QED
        BY <3>1, <3>2
    <2>3. After(u)
      BY <2>2
    <2> QED
      BY <2>3
  <1>6. PICK f : InTurn(i) = f[NLanes] /\ After(f)
    BY <1>5 DEF InTurn
  <1>7. f[0] = start
    BY <1>0, <1>6
  <1>8. ASSUME NEW n \in 0..NLanes-1 PROVE f[n + 1] = LaneStep(i, f[n], n)
    <2>1. n + 1 \in 0..NLanes /\ n + 1 # 0 /\ (n + 1) - 1 = n
      BY <1>0
    <2> HIDE DEF start
    <2>2. f[n + 1] = IF n + 1 = 0 THEN start
                     ELSE IF (n + 1) - 1 \in active
                          THEN IF i.op = "V_ADDC_U32" THEN V_ADDC_U32(i, f[(n + 1) - 1], (n + 1) - 1)
                                                      ELSE Lane3A(i, f[(n + 1) - 1], (n + 1) - 1)
                          ELSE f[(n + 1) - 1]
      BY <1>6, <2>1
    <2> QED
      BY <2>1, <2>2 DEF LaneStep, Lane
  <1> QED
    BY <1>6, <1>7, <1>8

(* What holds before the first lane and is kept by every lane holds after  *)
(* the last one, for a set of pairs of a number of lanes and registers.    *)
LEMMA LaneInduction ==
    ASSUME NEW i, NEW Y,
           <<0, [v |-> v, s |-> s]>> \in Y,
           \A n \in 0..NLanes-1 : \A t : <<n, t>> \in Y => <<n + 1, LaneStep(i, t, n)>> \in Y
    PROVE  <<NLanes, InTurn(i)>> \in Y
  <1>1. PICK f : /\ InTurn(i) = f[NLanes]
                 /\ f[0] = [v |-> v, s |-> s]
                 /\ \A n \in 0..NLanes-1 : f[n + 1] = LaneStep(i, f[n], n)
    BY InTurnSteps
  <1> DEFINE S == {n \in Nat : n <= NLanes => <<n, f[n]>> \in Y}
  <1>0. NLanes \in Nat
    BY VectorAssumption
  <1>2. 0 \in S
    BY <1>1
  <1>3. ASSUME NEW n \in Nat, n \in S PROVE n + 1 \in S
    <2> SUFFICES ASSUME n + 1 <= NLanes PROVE <<n + 1, f[n + 1]>> \in Y
      OBVIOUS
    <2>1. n \in 0..NLanes-1 /\ <<n, f[n]>> \in Y
      BY <1>0, <1>3
    <2> QED
      BY <1>1, <2>1
  <1> HIDE DEF S
  <1>4. Nat \subseteq S
    BY <1>2, <1>3, SetInduction
  <1> QED
    BY <1>0, <1>1, <1>4 DEF S
-----------------------------------------------------------------------------
(* What a handler of VOP3A or VOP3B does in one lane.                      *)
Comparisons == Signed3AOps \cup Unsigned3AOps
Written(i) == {i.d} \cup IF i.op = "V_CMPX_EQ_I32_VOP3A" THEN {Exec} ELSE {}
Truth(i, r) == Flag(Compare3A(i.op, i.mods, r[i.x], r[i.y]))

LEMMA LaneBits == \A l \in Lanes : l \in 0..W-1 /\ l \in 0..2*W /\ l \in Nat
  BY VectorAssumption, WidthAssumption DEF Lanes

(* A comparison sets the lane's bit of its destination.                    *)
LEMMA LaneCompare ==
    ASSUME NEW i, i.op \in Comparisons, RegistersExist(i),
           NEW t \in RegisterState, NEW l \in Lanes
    PROVE  /\ Lane(i, t, l) \in RegisterState
           /\ Lane(i, t, l).v = t.v
           /\ \A r \in 0..MaxS : r \notin Written(i) => Lane(i, t, l).s[r] = t.s[r]
           /\ \A r \in Written(i) : r \in 0..MaxS
           /\ \A r \in Written(i), k \in 0..W-1 :
                 BitOf(Lane(i, t, l).s[r], k) = IF k = l THEN Truth(i, t.s) ELSE BitOf(t.s[r], k)
  <1> DEFINE b == Truth(i, t.s)
             set == [t.s EXCEPT ![i.d] = SetBit(@, l, b)]
             both == [set EXCEPT ![Exec] = SetBit(@, l, b)]
             u == Lane(i, t, l)
             cmpx == i.op = "V_CMPX_EQ_I32_VOP3A"
  <1>1. i.d \in 0..MaxS /\ Exec \in 0..MaxS /\ b \in {0, 1} /\ l \in 0..W-1 /\ cmpx \in BOOLEAN
    <2>1. i.d \in 0..MaxS
      BY DEF RegistersExist, Comparisons, ScalarDst, IsScalar
    <2> QED
      BY <2>1, VectorAssumption, LaneBits, FlagType DEF Truth
  <1>2. t.v \in [0..MaxV -> [Lanes -> Word]] /\ t.s \in [0..MaxS -> Word]
    BY DEF RegisterState
  <1>3. u = [t EXCEPT !.s = IF cmpx THEN both ELSE set]
    <2>1. i.op # "V_ADDC_U32"
      BY DEF Comparisons, Signed3AOps, Unsigned3AOps
    <2>2. u = Lane3A(i, t, l)
      BY <2>1 DEF Lane
    <2>3. i.op \in Signed3AOps \cup Unsigned3AOps
      BY DEF Comparisons
    <2>4. u = CompareLane(i, t, l)
      BY <2>2, <2>3 DEF Lane3A, Signed3AOps, Unsigned3AOps, Arithmetic3AOps
    <2> QED
      BY <2>4 DEF CompareLane, Truth
  <1>4. \A a \in Word : SetBit(a, l, b) \in Word
    BY <1>1, SetBitFacts
  <1>5. set \in [0..MaxS -> Word] /\ both \in [0..MaxS -> Word]
    BY <1>1, <1>2, <1>4
  <1>6. u \in RegisterState /\ u.v = t.v /\ u.s = IF cmpx THEN both ELSE set
    BY <1>3, <1>5 DEF RegisterState
  <1>7. Written(i) = IF cmpx THEN {i.d, Exec} ELSE {i.d}
    BY DEF Written
  <1>8. ASSUME NEW a \in Word, NEW k \in 0..W-1
        PROVE  /\ BitOf(SetBit(a, l, b), k) = IF k = l THEN b ELSE BitOf(a, k)
               /\ BitOf(SetBit(SetBit(a, l, b), l, b), k) = IF k = l THEN b ELSE BitOf(a, k)
    <2>1. \A c \in Word : BitOf(SetBit(c, l, b), k) = IF k = l THEN b ELSE BitOf(c, k)
      BY <1>1, SetBitFacts
    <2> QED
      BY <1>4, <2>1
  <1> HIDE DEF b
  <1>9. \A r \in 0..MaxS : r \notin Written(i) => u.s[r] = t.s[r]
    BY <1>1, <1>2, <1>6, <1>7
  <1>10. ASSUME NEW r \in Written(i), NEW k \in 0..W-1
         PROVE  BitOf(u.s[r], k) = IF k = l THEN b ELSE BitOf(t.s[r], k)
    <2>1. r \in 0..MaxS /\ t.s[r] \in Word
      BY ZenonT(30), <1>1, <1>2, <1>7
    <2>2. \/ u.s[r] = SetBit(t.s[r], l, b)
          \/ u.s[r] = SetBit(SetBit(t.s[r], l, b), l, b)
      <3>1. CASE cmpx /\ i.d = Exec
        BY ZenonT(30), <1>1, <1>2, <1>6, <1>7, <3>1
      <3>2. CASE cmpx /\ i.d # Exec
        BY <1>1, <1>2, <1>6, <1>7, <3>2
      <3>3. CASE ~cmpx
        BY <1>1, <1>2, <1>6, <1>7, <3>3
      <3> QED
        BY <3>1, <3>2, <3>3
    <2> QED
      BY <1>8, <2>1, <2>2
  <1> QED
    BY <1>1, <1>6, <1>7, <1>9, <1>10 DEF b

(* An arithmetic instruction or a selection writes the lane's word.        *)
Words3A == Arithmetic3AOps \cup {"V_CNDMASK_B32_VOP3A"}
LaneValue(i, r, l) ==
    IF i.op \in Arithmetic3AOps THEN Arithmetic3A(i.op, r[i.x], r[i.y], r[i.z])
    ELSE V_CNDMASK_B32_VOP3A(i.mods, r[i.x], r[i.y], BitOf(r[i.z], l))

LEMMA LaneWord ==
    ASSUME NEW i, i.op \in Words3A, RegistersExist(i), NEW t \in RegisterState, NEW l \in Lanes
    PROVE  /\ Lane(i, t, l) \in RegisterState
           /\ Lane(i, t, l).s = t.s
           /\ \A r \in 0..MaxV, k \in Lanes :
                 Lane(i, t, l).v[r][k] = IF r = i.d /\ k = l THEN LaneValue(i, t.s, l) ELSE t.v[r][k]
  <1> DEFINE x == LaneValue(i, t.s, l)
  <1>1. /\ i.d \in 0..MaxV /\ i.x \in 0..MaxS /\ i.y \in 0..MaxS /\ i.z \in 0..MaxS
    BY DEF RegistersExist, IsVector, IsScalar, Words3A, VectorDst, Direct, VOP3AOps, Arithmetic3AOps,
           Unimplemented
  <1>2. t.v \in [0..MaxV -> [Lanes -> Word]] /\ t.s \in [0..MaxS -> Word]
    BY DEF RegisterState
  <1>3. x \in Word
    BY <1>1, <1>2, Arithmetic3AType, SelectType DEF LaneValue
  <1>4. Lane(i, t, l) = [t EXCEPT !.v[i.d][l] = x]
    BY DEF Lane, Lane3A, Words3A, LaneValue, Signed3AOps, Unsigned3AOps, Arithmetic3AOps
  <1> HIDE DEF x
  <1>5. [t EXCEPT !.v[i.d][l] = x] = [t EXCEPT !.v = [t.v EXCEPT ![i.d] = [t.v[i.d] EXCEPT ![l] = x]]]
    BY <1>1, <1>2 DEF RegisterState
  <1> DEFINE w == [t.v EXCEPT ![i.d] = [t.v[i.d] EXCEPT ![l] = x]]
  <1>6. w \in [0..MaxV -> [Lanes -> Word]]
    BY <1>1, <1>2, <1>3
  <1>7. \A r \in 0..MaxV, k \in Lanes : w[r][k] = IF r = i.d /\ k = l THEN x ELSE t.v[r][k]
    BY <1>1, <1>2
  <1> HIDE DEF w
  <1>8. Lane(i, t, l) = [t EXCEPT !.v = w]
    BY <1>4, <1>5 DEF w
  <1> QED
    BY <1>6, <1>7, <1>8 DEF RegisterState, x

(* V_LSHR_B64 writes the two words of the shifted pair.                    *)
PairValue(i, r) == Wide(r[i.x], r[i.x + 1]) \div 2^Shift(r[i.y])

LEMMA LanePair ==
    ASSUME NEW i, i.op = "V_LSHR_B64", RegistersExist(i), NEW t \in RegisterState, NEW l \in Lanes
    PROVE  /\ Lane(i, t, l) \in RegisterState
           /\ Lane(i, t, l).s = t.s
           /\ PairValue(i, t.s) \in WideWord
           /\ \A r \in 0..MaxV, k \in Lanes :
                 Lane(i, t, l).v[r][k] =
                    IF r = i.d /\ k = l THEN Wrap(PairValue(i, t.s))
                    ELSE IF r = i.d + 1 /\ k = l THEN PairValue(i, t.s) \div 2^W ELSE t.v[r][k]
  <1> DEFINE p == PairValue(i, t.s)
             lo == Wrap(p)
             hi == p \div 2^W
  <1>1. /\ i.d \in 0..MaxV /\ i.d + 1 \in 0..MaxV
        /\ i.x \in 0..MaxS /\ i.x + 1 \in 0..MaxS /\ i.y \in 0..MaxS
    BY DEF RegistersExist, IsVector, IsScalar, VectorDst, Direct, VOP3AOps, Arithmetic3AOps,
           Unimplemented
  <1>2. t.v \in [0..MaxV -> [Lanes -> Word]] /\ t.s \in [0..MaxS -> Word]
    BY DEF RegisterState
  <1>3. p \in WideWord
    <2> DEFINE x == Wide(t.s[i.x], t.s[i.x + 1])
               n == Shift(t.s[i.y])
    <2>1. x \in WideWord
      BY <1>1, <1>2, WideFacts
    <2>2. n \in 0..W-1
      BY <1>1, <1>2, WordInWide, ShiftType
    <2> HIDE DEF x, n
    <2>3. n \in 0..2*W-1
      BY <2>2, WordSize
    <2>4. x \div 2^n \in WideWord
      BY <2>1, <2>3, Two!LogicalShift, Assumed DEF Two!Word, WideWord, Two!BitOf, BitOf
    <2> QED
      BY <2>4 DEF PairValue, x, n
  <1>4. lo \in Word /\ hi \in Word
    BY <1>3, WordInWide, WideParts, WrapFacts
  <1>5. Lane(i, t, l) = [t EXCEPT !.v[i.d][l] = lo, !.v[i.d + 1][l] = hi]
    BY DEF Lane, Lane3A, PairValue, Signed3AOps, Unsigned3AOps, Arithmetic3AOps
  <1> HIDE DEF p, lo, hi
  <1> DEFINE w == [t.v EXCEPT ![i.d] = [t.v[i.d] EXCEPT ![l] = lo]]
             z == [w EXCEPT ![i.d + 1] = [w[i.d + 1] EXCEPT ![l] = hi]]
  <1>6. Lane(i, t, l) = [t EXCEPT !.v = z]
    BY <1>1, <1>2, <1>5 DEF RegisterState
  <1>7. i.d # i.d + 1
    BY <1>1
  <1>8. w \in [0..MaxV -> [Lanes -> Word]]
    BY <1>1, <1>2, <1>4
  <1>9. \A r \in 0..MaxV, k \in Lanes : w[r][k] = IF r = i.d /\ k = l THEN lo ELSE t.v[r][k]
    BY <1>1, <1>2
  <1> HIDE DEF w
  <1>10. z \in [0..MaxV -> [Lanes -> Word]]
    BY <1>1, <1>4, <1>8
  <1>11. \A r \in 0..MaxV, k \in Lanes : z[r][k] = IF r = i.d + 1 /\ k = l THEN hi ELSE w[r][k]
    BY <1>1, <1>8
  <1> HIDE DEF z
  <1>12. Lane(i, t, l) \in RegisterState /\ Lane(i, t, l).s = t.s /\ Lane(i, t, l).v = z
    BY <1>6, <1>10 DEF RegisterState
  <1>13. \A r \in 0..MaxV, k \in Lanes :
             z[r][k] = IF r = i.d /\ k = l THEN lo ELSE IF r = i.d + 1 /\ k = l THEN hi ELSE t.v[r][k]
    BY <1>7, <1>9, <1>11
  <1> QED
    BY <1>3, <1>12, <1>13 DEF p, lo, hi

(* V_ADDC_U32 writes the lane's sum and its carry.                         *)
Sum(i, t, l) == t.s[i.x] + t.v[i.y][l] + BitOf(t.s[i.z], l)

LEMMA LaneAddc ==
    ASSUME NEW i, i.op = "V_ADDC_U32", RegistersExist(i), NEW t \in RegisterState, NEW l \in Lanes
    PROVE  /\ Lane(i, t, l) \in RegisterState
           /\ \A r \in 0..MaxV, k \in Lanes :
                 Lane(i, t, l).v[r][k] = IF r = i.d /\ k = l THEN Wrap(Sum(i, t, l)) ELSE t.v[r][k]
           /\ \A r \in 0..MaxS : r # i.sd => Lane(i, t, l).s[r] = t.s[r]
           /\ \A k \in 0..W-1 :
                 BitOf(Lane(i, t, l).s[i.sd], k) =
                    IF k = l THEN Sum(i, t, l) \div 2^W ELSE BitOf(t.s[i.sd], k)
           /\ Sum(i, t, l) \div 2^W \in {0, 1}
           /\ i.sd \in 0..MaxS /\ i.d \in 0..MaxV
  <1> DEFINE x == Wrap(Sum(i, t, l))
             c == Sum(i, t, l) \div 2^W
  <1>1. /\ i.d \in 0..MaxV /\ i.y \in 0..MaxV
        /\ i.x \in 0..MaxS /\ i.z \in 0..MaxS /\ i.sd \in 0..MaxS
    BY DEF RegistersExist, IsVector, IsScalar, VectorDst
  <1>2. t.v \in [0..MaxV -> [Lanes -> Word]] /\ t.s \in [0..MaxS -> Word]
    BY DEF RegisterState
  <1>3. x \in Word /\ c \in {0, 1}
    <2>1. t.s[i.x] \in Word /\ t.v[i.y][l] \in Word /\ BitOf(t.s[i.z], l) \in {0, 1}
      BY <1>1, <1>2, BitType, LaneBits, WordInWide
    <2> QED
      BY <2>1, AddFacts DEF Sum
  <1>4. Lane(i, t, l) = [t EXCEPT !.v[i.d][l] = x, !.s[i.sd] = SetBit(t.s[i.sd], l, c)]
    BY <1>1, <1>2 DEF Lane, V_ADDC_U32, Sum, RegisterState
  <1> HIDE DEF x, c
  <1> DEFINE w == [t.v EXCEPT ![i.d] = [t.v[i.d] EXCEPT ![l] = x]]
             z == [t.s EXCEPT ![i.sd] = SetBit(t.s[i.sd], l, c)]
  <1>5. Lane(i, t, l) = [t EXCEPT !.v = w, !.s = z]
    BY <1>1, <1>2, <1>4 DEF RegisterState
  <1>6. w \in [0..MaxV -> [Lanes -> Word]]
    BY <1>1, <1>2, <1>3
  <1>7. \A r \in 0..MaxV, k \in Lanes : w[r][k] = IF r = i.d /\ k = l THEN x ELSE t.v[r][k]
    BY <1>1, <1>2
  <1>8. /\ SetBit(t.s[i.sd], l, c) \in Word
        /\ \A k \in 0..W-1 : BitOf(SetBit(t.s[i.sd], l, c), k) = IF k = l THEN c ELSE BitOf(t.s[i.sd], k)
    BY ZenonT(30), <1>1, <1>2, <1>3, LaneBits, SetBitFacts
  <1>9. z \in [0..MaxS -> Word] /\ z[i.sd] = SetBit(t.s[i.sd], l, c)
    BY <1>1, <1>2, <1>8
  <1>10. \A r \in 0..MaxS : r # i.sd => z[r] = t.s[r]
    BY <1>1, <1>2
  <1> HIDE DEF w, z
  <1>11. Lane(i, t, l) \in RegisterState /\ Lane(i, t, l).v = w /\ Lane(i, t, l).s = z
    BY <1>5, <1>6, <1>9 DEF RegisterState
  <1> QED
    BY <1>1, <1>3, <1>7, <1>8, <1>9, <1>10, <1>11 DEF x, c
-----------------------------------------------------------------------------
(* What an instruction of VOP3A or VOP3B does to the registers, all active *)
(* lanes one after the other.                                              *)
Registers == [v |-> v, s |-> s]

LEMMA LaneNumbers == NLanes \in Nat /\ Lanes = 0..NLanes-1 /\ 0 \in 0..NLanes
  BY VectorAssumption DEF Lanes

(* Comparisons write the bits of the active lanes; all of them compare the *)
(* same two words unless a source is written.                              *)
LEMMA CompareLanes ==
    ASSUME NEW i, i.op \in Comparisons, RegistersExist(i), Registers \in RegisterState,
           active \subseteq Lanes
    PROVE  /\ InTurn(i) \in RegisterState
           /\ InTurn(i).v = v
           /\ \A r \in 0..MaxS : r \notin Written(i) => InTurn(i).s[r] = s[r]
           /\ \A r \in 0..MaxS, l \in Lanes \ active : BitOf(InTurn(i).s[r], l) = BitOf(s[r], l)
           /\ {i.x, i.y} \cap Written(i) = {} =>
                 \A r \in Written(i), l \in active : BitOf(InTurn(i).s[r], l) = Truth(i, s)
  <1> DEFINE apart == {i.x, i.y} \cap Written(i) = {}
             P(n, t) == /\ t.v = v
                        /\ \A r \in 0..MaxS : r \notin Written(i) => t.s[r] = s[r]
                        /\ \A r \in 0..MaxS, l \in Lanes :
                              l \notin active => BitOf(t.s[r], l) = BitOf(s[r], l)
                        /\ apart => \A r \in Written(i), l \in active :
                                       l < n => BitOf(t.s[r], l) = Truth(i, s)
             Y == {y \in (0..NLanes) \X RegisterState : P(y[1], y[2])}
  <1>1. <<0, Registers>> \in Y
    <2>1. \A l \in active : ~(l < 0)
      BY LaneNumbers
    <2>2. P(0, Registers)
      BY <2>1 DEF Registers
    <2> HIDE DEF P
    <2> QED
      BY <2>2, LaneNumbers
  <1>2. ASSUME NEW n \in 0..NLanes-1, NEW t, <<n, t>> \in Y
        PROVE  <<n + 1, LaneStep(i, t, n)>> \in Y
    <2>1. t \in RegisterState /\ P(n, t) /\ n \in Lanes /\ n + 1 \in 0..NLanes
      <3> HIDE DEF P
      <3> QED
        BY <1>2, LaneNumbers
    <2>2. CASE n \in active
      <3> DEFINE u == Lane(i, t, n)
      <3>1. /\ u \in RegisterState
            /\ u.v = t.v
            /\ \A r \in 0..MaxS : r \notin Written(i) => u.s[r] = t.s[r]
            /\ \A r \in Written(i) : r \in 0..MaxS
            /\ \A r \in Written(i), k \in 0..W-1 :
                  BitOf(u.s[r], k) = IF k = n THEN Truth(i, t.s) ELSE BitOf(t.s[r], k)
        BY <2>1, LaneCompare
      <3>2. LaneStep(i, t, n) = u
        BY <2>2 DEF LaneStep
      <3> HIDE DEF u
      <3>3. apart => Truth(i, t.s) = Truth(i, s)
        <4>1. i.x \in 0..MaxS /\ i.y \in 0..MaxS
          BY DEF RegistersExist, Comparisons, Direct, VOP3AOps, IsScalar, Unimplemented,
                 Signed3AOps, Unsigned3AOps
        <4>2. apart => t.s[i.x] = s[i.x] /\ t.s[i.y] = s[i.y]
          BY <2>1, <4>1
        <4> QED
          BY <4>2 DEF Truth
      <3>4. u.v = v /\ \A r \in 0..MaxS : r \notin Written(i) => u.s[r] = s[r]
        BY <2>1, <3>1
      <3>5. ASSUME NEW r \in 0..MaxS, NEW l \in Lanes, l \notin active
            PROVE  BitOf(u.s[r], l) = BitOf(s[r], l)
        BY <2>1, <2>2, <3>1, <3>5, LaneBits
      <3>6. ASSUME apart, NEW r \in Written(i), NEW l \in active, l < n + 1
            PROVE  BitOf(u.s[r], l) = Truth(i, s)
        <4>1. l \in Lanes /\ l \in 0..W-1 /\ l \in Int /\ n \in Int
          BY LaneBits
        <4>2. l = n \/ (l # n /\ l < n)
          BY <3>6, <4>1
        <4> QED
          BY <2>1, <3>1, <3>3, <3>6, <4>1, <4>2
      <3>7. P(n + 1, u)
        BY <3>4, <3>5, <3>6
      <3> HIDE DEF P
      <3> QED
        BY <2>1, <3>1, <3>2, <3>7
    <2>3. CASE n \notin active
      <3>1. LaneStep(i, t, n) = t
        BY <2>3 DEF LaneStep
      <3>2. \A l \in active : l < n + 1 => l < n
        BY <2>3, LaneNumbers
      <3>3. P(n + 1, t)
        BY <2>1, <3>2
      <3> HIDE DEF P
      <3> QED
        BY <2>1, <3>1, <3>3
    <2> QED
      BY <2>2, <2>3
  <1> HIDE DEF Y
  <1>3. <<NLanes, InTurn(i)>> \in Y
    BY <1>1, <1>2, LaneInduction DEF Registers
  <1>4. InTurn(i) \in RegisterState /\ P(NLanes, InTurn(i))
    <2> HIDE DEF P
    <2> QED
      BY <1>3 DEF Y
  <1>5. \A l \in active : l < NLanes
    BY LaneNumbers
  <1> QED
    BY <1>4, <1>5

(* The other instructions of VOP3A write a word of each active lane, or a  *)
(* pair, and leave the scalar registers, their sources, alone.             *)
LEMMA WordLanes ==
    ASSUME NEW i, i.op \in Words3A, RegistersExist(i), Registers \in RegisterState,
           active \subseteq Lanes
    PROVE  /\ InTurn(i) \in RegisterState
           /\ InTurn(i).s = s
           /\ \A r \in 0..MaxV, l \in Lanes :
                 InTurn(i).v[r][l] = IF r = i.d /\ l \in active THEN LaneValue(i, s, l) ELSE v[r][l]
  <1> DEFINE P(n, t) == /\ t.s = s
                        /\ \A r \in 0..MaxV, l \in Lanes :
                              t.v[r][l] = IF r = i.d /\ l \in active /\ l < n
                                          THEN LaneValue(i, s, l) ELSE v[r][l]
             Y == {y \in (0..NLanes) \X RegisterState : P(y[1], y[2])}
  <1>1. <<0, Registers>> \in Y
    <2>1. \A l \in Lanes : ~(l < 0)
      BY LaneNumbers
    <2>2. P(0, Registers)
      BY <2>1 DEF Registers
    <2> HIDE DEF P
    <2> QED
      BY <2>2, LaneNumbers
  <1>2. ASSUME NEW n \in 0..NLanes-1, NEW t, <<n, t>> \in Y
        PROVE  <<n + 1, LaneStep(i, t, n)>> \in Y
    <2>1. t \in RegisterState /\ P(n, t) /\ n \in Lanes /\ n + 1 \in 0..NLanes
      <3> HIDE DEF P
      <3> QED
        BY <1>2, LaneNumbers
    <2>2. \A l \in Lanes : l < n + 1 <=> (l < n \/ l = n)
      BY LaneNumbers
    <2>3. CASE n \in active
      <3> DEFINE u == Lane(i, t, n)
      <3>1. /\ u \in RegisterState
            /\ u.s = t.s
            /\ \A r \in 0..MaxV, k \in Lanes :
                  u.v[r][k] = IF r = i.d /\ k = n THEN LaneValue(i, t.s, n) ELSE t.v[r][k]
        BY <2>1, LaneWord
      <3>2. LaneStep(i, t, n) = u
        BY <2>3 DEF LaneStep
      <3> HIDE DEF u
      <3>3. P(n + 1, u)
        BY <2>1, <2>2, <2>3, <3>1
      <3> HIDE DEF P
      <3> QED
        BY <2>1, <3>1, <3>2, <3>3
    <2>4. CASE n \notin active
      <3>1. LaneStep(i, t, n) = t
        BY <2>4 DEF LaneStep
      <3>2. P(n + 1, t)
        BY <2>1, <2>2, <2>4
      <3> HIDE DEF P
      <3> QED
        BY <2>1, <3>1, <3>2
    <2> QED
      BY <2>3, <2>4
  <1> HIDE DEF Y
  <1>3. <<NLanes, InTurn(i)>> \in Y
    BY <1>1, <1>2, LaneInduction DEF Registers
  <1>4. InTurn(i) \in RegisterState /\ P(NLanes, InTurn(i))
    <2> HIDE DEF P
    <2> QED
      BY <1>3 DEF Y
  <1>5. \A l \in Lanes : l < NLanes
    BY LaneNumbers
  <1> QED
    BY <1>4, <1>5

LEMMA PairLanes ==
    ASSUME NEW i, i.op = "V_LSHR_B64", RegistersExist(i), Registers \in RegisterState,
           active \subseteq Lanes
    PROVE  /\ InTurn(i) \in RegisterState
           /\ InTurn(i).s = s
           /\ PairValue(i, s) \in WideWord
           /\ \A r \in 0..MaxV, l \in Lanes :
                 InTurn(i).v[r][l] = IF r = i.d /\ l \in active THEN Wrap(PairValue(i, s))
                                     ELSE IF r = i.d + 1 /\ l \in active THEN PairValue(i, s) \div 2^W
                                     ELSE v[r][l]
  <1> DEFINE P(n, t) == /\ t.s = s
                        /\ \A r \in 0..MaxV, l \in Lanes :
                              t.v[r][l] = IF r = i.d /\ l \in active /\ l < n THEN Wrap(PairValue(i, s))
                                          ELSE IF r = i.d + 1 /\ l \in active /\ l < n
                                               THEN PairValue(i, s) \div 2^W ELSE v[r][l]
             Y == {y \in (0..NLanes) \X RegisterState : P(y[1], y[2])}
  <1>0. PairValue(i, s) \in WideWord
    <2>1. 0 \in Lanes
      BY VectorAssumption DEF Lanes
    <2>2. PairValue(i, Registers.s) \in WideWord
      BY <2>1, LanePair
    <2> QED
      BY <2>2 DEF Registers
  <1>1. <<0, Registers>> \in Y
    <2>1. \A l \in Lanes : ~(l < 0)
      BY LaneNumbers
    <2>2. P(0, Registers)
      BY <2>1 DEF Registers
    <2> HIDE DEF P
    <2> QED
      BY <2>2, LaneNumbers
  <1>2. ASSUME NEW n \in 0..NLanes-1, NEW t, <<n, t>> \in Y
        PROVE  <<n + 1, LaneStep(i, t, n)>> \in Y
    <2>1. t \in RegisterState /\ P(n, t) /\ n \in Lanes /\ n + 1 \in 0..NLanes
      <3> HIDE DEF P
      <3> QED
        BY <1>2, LaneNumbers
    <2>2. \A l \in Lanes : l < n + 1 <=> (l < n \/ l = n)
      BY LaneNumbers
    <2>3. CASE n \in active
      <3> DEFINE u == Lane(i, t, n)
      <3>1. /\ u \in RegisterState
            /\ u.s = t.s
            /\ \A r \in 0..MaxV, k \in Lanes :
                  u.v[r][k] = IF r = i.d /\ k = n THEN Wrap(PairValue(i, t.s))
                              ELSE IF r = i.d + 1 /\ k = n THEN PairValue(i, t.s) \div 2^W ELSE t.v[r][k]
        BY <2>1, LanePair
      <3>2. LaneStep(i, t, n) = u
        BY <2>3 DEF LaneStep
      <3> HIDE DEF u
      <3>3. P(n + 1, u)
        BY <2>1, <2>2, <2>3, <3>1
      <3> HIDE DEF P
      <3> QED
        BY <2>1, <3>1, <3>2, <3>3
    <2>4. CASE n \notin active
      <3>1. LaneStep(i, t, n) = t
        BY <2>4 DEF LaneStep
      <3>2. P(n + 1, t)
        BY <2>1, <2>2, <2>4
      <3> HIDE DEF P
      <3> QED
        BY <2>1, <3>1, <3>2
    <2> QED
      BY <2>3, <2>4
  <1> HIDE DEF Y
  <1>3. <<NLanes, InTurn(i)>> \in Y
    BY <1>1, <1>2, LaneInduction DEF Registers
  <1>4. InTurn(i) \in RegisterState /\ P(NLanes, InTurn(i))
    <2> HIDE DEF P
    <2> QED
      BY <1>3 DEF Y
  <1>5. \A l \in Lanes : l < NLanes
    BY LaneNumbers
  <1> QED
    BY <1>0, <1>4, <1>5

(* V_ADDC_U32: a lane reads its own word and its own carry bit, which no   *)
(* earlier lane has written; the scalar source is read again in each lane. *)
LEMMA AddcLanes ==
    ASSUME NEW i, i.op = "V_ADDC_U32", RegistersExist(i), Registers \in RegisterState,
           active \subseteq Lanes
    PROVE  /\ InTurn(i) \in RegisterState
           /\ \A r \in 0..MaxV, l \in Lanes : r # i.d \/ l \notin active => InTurn(i).v[r][l] = v[r][l]
           /\ \A r \in 0..MaxS : r # i.sd => InTurn(i).s[r] = s[r]
           /\ \A r \in 0..MaxS, l \in Lanes \ active : BitOf(InTurn(i).s[r], l) = BitOf(s[r], l)
           /\ i.x # i.sd =>
                 \A l \in active : /\ InTurn(i).v[i.d][l] = Wrap(Sum(i, Registers, l))
                                   /\ BitOf(InTurn(i).s[i.sd], l) = Sum(i, Registers, l) \div 2^W
  <1> DEFINE g == Registers
             P(n, t) == /\ \A r \in 0..MaxV, l \in Lanes :
                              r # i.d \/ l \notin active \/ l >= n => t.v[r][l] = g.v[r][l]
                        /\ \A r \in 0..MaxS : r # i.sd => t.s[r] = g.s[r]
                        /\ \A r \in 0..MaxS, l \in Lanes :
                              l \notin active \/ l >= n => BitOf(t.s[r], l) = BitOf(g.s[r], l)
                        /\ i.x # i.sd =>
                              \A l \in active :
                                 l < n => /\ t.v[i.d][l] = Wrap(Sum(i, g, l))
                                          /\ BitOf(t.s[i.sd], l) = Sum(i, g, l) \div 2^W
             Y == {y \in (0..NLanes) \X RegisterState : P(y[1], y[2])}
  <1>0. /\ i.d \in 0..MaxV /\ i.y \in 0..MaxV
        /\ i.x \in 0..MaxS /\ i.z \in 0..MaxS /\ i.sd \in 0..MaxS
    BY DEF RegistersExist, IsVector, IsScalar, VectorDst
  <1>1. <<0, g>> \in Y
    <2>1. \A l \in active : ~(l < 0)
      BY LaneNumbers
    <2>2. P(0, g)
      BY <2>1
    <2> HIDE DEF P
    <2> QED
      BY <2>2, LaneNumbers
  <1>2. ASSUME NEW n \in 0..NLanes-1, NEW t, <<n, t>> \in Y
        PROVE  <<n + 1, LaneStep(i, t, n)>> \in Y
    <2>1. t \in RegisterState /\ P(n, t) /\ n \in Lanes /\ n + 1 \in 0..NLanes
      <3> HIDE DEF P, g
      <3> QED
        BY <1>2, LaneNumbers
    <2> HIDE DEF g
    <2>2. \A l \in Lanes : (l < n + 1 <=> (l < n \/ l = n)) /\ (l >= n + 1 => l >= n /\ l # n)
      BY LaneNumbers
    <2>3. CASE n \in active
      <3> DEFINE u == Lane(i, t, n)
      <3>1. /\ u \in RegisterState
            /\ \A r \in 0..MaxV, k \in Lanes :
                  u.v[r][k] = IF r = i.d /\ k = n THEN Wrap(Sum(i, t, n)) ELSE t.v[r][k]
            /\ \A r \in 0..MaxS : r # i.sd => u.s[r] = t.s[r]
            /\ \A k \in 0..W-1 :
                  BitOf(u.s[i.sd], k) = IF k = n THEN Sum(i, t, n) \div 2^W ELSE BitOf(t.s[i.sd], k)
        BY <2>1, LaneAddc
      <3>2. LaneStep(i, t, n) = u
        BY <2>3 DEF LaneStep
      <3> HIDE DEF u
      <3>3. i.x # i.sd => Sum(i, t, n) = Sum(i, g, n)
        <4>1. n >= n
          BY LaneNumbers
        <4> QED
          BY <1>0, <2>1, <4>1 DEF Sum
      <3>4. ASSUME NEW r \in 0..MaxV, NEW l \in Lanes, r # i.d \/ l \notin active \/ l >= n + 1
            PROVE  u.v[r][l] = g.v[r][l]
        BY <2>1, <2>2, <2>3, <3>1, <3>4
      <3>5. \A r \in 0..MaxS : r # i.sd => u.s[r] = g.s[r]
        BY <2>1, <3>1
      <3>6. ASSUME NEW r \in 0..MaxS, NEW l \in Lanes, l \notin active \/ l >= n + 1
            PROVE  BitOf(u.s[r], l) = BitOf(g.s[r], l)
        <4>1. l # n /\ (l \notin active \/ l >= n) /\ l \in 0..W-1
          BY <2>2, <2>3, <3>6, LaneBits
        <4> QED
          BY <2>1, <3>1, <4>1
      <3>7. ASSUME i.x # i.sd, NEW l \in active, l < n + 1
            PROVE  /\ u.v[i.d][l] = Wrap(Sum(i, g, l))
                   /\ BitOf(u.s[i.sd], l) = Sum(i, g, l) \div 2^W
        <4>1. l \in Lanes /\ l \in 0..W-1
          BY LaneBits
        <4>2. CASE l = n
          BY <1>0, <3>1, <3>3, <3>7, <4>1, <4>2
        <4>3. CASE l # n
          <5>1. l < n
            BY <2>2, <3>7, <4>1, <4>3
          <5>2. u.v[i.d][l] = t.v[i.d][l] /\ BitOf(u.s[i.sd], l) = BitOf(t.s[i.sd], l)
            BY <1>0, <3>1, <4>1, <4>3
          <5> QED
            BY <2>1, <3>7, <5>1, <5>2
        <4> QED
          BY <4>2, <4>3
      <3>8. P(n + 1, u)
        BY <3>4, <3>5, <3>6, <3>7
      <3> HIDE DEF P
      <3> QED
        BY <2>1, <3>1, <3>2, <3>8
    <2>4. CASE n \notin active
      <3>1. LaneStep(i, t, n) = t
        BY <2>4 DEF LaneStep
      <3>2. P(n + 1, t)
        <4>1. \A l \in active : l < n + 1 => l < n
          BY <2>2, <2>4
        <4>2. \A l \in Lanes : l \notin active \/ l >= n + 1 => l \notin active \/ l >= n
          BY <2>2
        <4> QED
          BY <2>1, <4>1, <4>2
      <3> HIDE DEF P
      <3> QED
        BY <2>1, <3>1, <3>2
    <2> QED
      BY <2>3, <2>4
  <1> HIDE DEF Y
  <1>3. <<NLanes, InTurn(i)>> \in Y
    BY <1>1, <1>2, LaneInduction DEF Registers
  <1>4. InTurn(i) \in RegisterState /\ P(NLanes, InTurn(i))
    <2> HIDE DEF P
    <2> QED
      BY <1>3 DEF Y
  <1>5. \A l \in active : l < NLanes
    BY LaneNumbers
  <1>6. g.v = v /\ g.s = s
    BY DEF Registers
  <1> HIDE DEF g
  <1>7. /\ \A r \in 0..MaxV, l \in Lanes : r # i.d \/ l \notin active => InTurn(i).v[r][l] = g.v[r][l]
        /\ \A r \in 0..MaxS : r # i.sd => InTurn(i).s[r] = g.s[r]
        /\ \A r \in 0..MaxS, l \in Lanes \ active : BitOf(InTurn(i).s[r], l) = BitOf(g.s[r], l)
        /\ i.x # i.sd =>
              \A l \in active : /\ InTurn(i).v[i.d][l] = Wrap(Sum(i, g, l))
                                /\ BitOf(InTurn(i).s[i.sd], l) = Sum(i, g, l) \div 2^W
    BY <1>4, <1>5
  <1> QED
    BY <1>4, <1>6, <1>7 DEF g
-----------------------------------------------------------------------------
(* The collected operands and the write-back of VOP1, VOP2 and VOPC.       *)
LEMMA VectorType ==
    ASSUME NEW r \in 0..MaxV, NEW l \in Lanes, Registers \in RegisterState, collect \in BOOLEAN
    PROVE  Vector(r, l) \in Word
  <1>1. v \in [0..MaxV -> [Lanes -> Word]]
    BY DEF Registers, RegisterState
  <1> QED
    BY <1>1, WordSize DEF Vector

LEMMA SourceType ==
    ASSUME NEW o, NEW l \in Lanes, NEW pair \in BOOLEAN, IsSource(o, pair),
           Registers \in RegisterState, collect \in BOOLEAN
    PROVE  Source(o, 0, l) \in Word /\ (pair => Source(o, 1, l) \in Word)
  <1>1. s \in [0..MaxS -> Word]
    BY DEF Registers, RegisterState
  <1>2. CASE o.kind = "imm" /\ o.n \in Word
    BY <1>2, VectorAssumption DEF Source, Lanes
  <1>3. CASE o.kind = "s" /\ IsScalar(o.n, pair)
    <2>1. o.n + 0 \in 0..MaxS /\ (pair => o.n + 1 \in 0..MaxS)
      BY <1>3 DEF IsScalar
    <2> QED
      BY <1>1, <1>3, <2>1, WordSize DEF Source
  <1>4. CASE o.kind = "v" /\ IsVector(o.n, pair)
    <2>1. o.n + 0 \in 0..MaxV /\ (pair => o.n + 1 \in 0..MaxV)
      BY <1>4 DEF IsVector
    <2>2. Vector(o.n + 0, l) \in Word /\ (pair => Vector(o.n + 1, l) \in Word)
      BY <2>1, VectorType
    <2> QED
      BY <1>4, <2>2 DEF Source
  <1> QED
    BY <1>2, <1>3, <1>4 DEF IsSource

(* The operands have the width that Decode gives them.                     *)
LEMMA OperandTypes ==
    ASSUME NEW i, RegistersExist(i), i.op \in VOP2Ops \cup CarryOps \cup VOPCOps, NEW l \in Lanes,
           Registers \in RegisterState, collect \in BOOLEAN
    PROVE  /\ IF i.op \in WideSrc0 THEN Src0(i, l) \in WideWord ELSE Src0(i, l) \in Word
           /\ IF i.op \in WideSrc1 THEN Src1(i, l) \in WideWord ELSE Src1(i, l) \in Word
  <1>1. IsVector(i.x, i.op \in WideSrc0) /\ IsSource(i.src, i.op \in WideSrc1)
    BY DEF RegistersExist
  <1>2. /\ i.op \in WideSrc1 => IsSource(i.src, TRUE)
        /\ i.op \notin WideSrc1 => IsSource(i.src, FALSE)
    BY <1>1 DEF IsSource, IsScalar, IsVector
  <1>3. i.x \in 0..MaxV /\ (i.op \in WideSrc0 => i.x + 1 \in 0..MaxV)
    BY <1>1 DEF IsVector
  <1>4. Vector(i.x, l) \in Word /\ (i.op \in WideSrc0 => Vector(i.x + 1, l) \in Word)
    BY <1>3, VectorType
  <1>5. Source(i.src, 0, l) \in Word /\ (i.op \in WideSrc1 => Source(i.src, 1, l) \in Word)
    <2>1. TRUE \in BOOLEAN /\ FALSE \in BOOLEAN
      OBVIOUS
    <2> QED
      BY <1>2, <2>1, SourceType
  <1>6. IF i.op \in WideSrc0 THEN Src0(i, l) \in WideWord ELSE Src0(i, l) \in Word
    BY <1>4, WideFacts DEF Src0
  <1>7. IF i.op \in WideSrc1 THEN Src1(i, l) \in WideWord ELSE Src1(i, l) \in Word
    BY <1>5, WideFacts DEF Src1
  <1> QED
    BY <1>6, <1>7

(* Write-back reaches the destination in the active lanes, and no other    *)
(* register or lane.                                                       *)
LEMMA WriteBackFacts ==
    ASSUME NEW i, NEW value, \A l \in Lanes : value[l] \in WideWord, i.d \in 0..MaxV,
           Registers \in RegisterState, collect \in BOOLEAN, active \subseteq Lanes
    PROVE  /\ WriteBack(i, value) \in [0..MaxV -> [Lanes -> Word]]
           /\ \A r \in 0..MaxV, l \in Lanes \ active : WriteBack(i, value)[r][l] = v[r][l]
           /\ collect => \A l \in active : WriteBack(i, value)[i.d][l] = Wrap(value[l])
           /\ collect /\ i.op \in WideDst /\ i.d + 1 \in 0..MaxV =>
                 \A l \in active : WriteBack(i, value)[i.d + 1][l] = value[l] \div 2^W
           /\ i.op \notin WideDst =>
                 \A r \in 0..MaxV \ {i.d}, l \in Lanes : WriteBack(i, value)[r][l] = v[r][l]
  <1>1. v \in [0..MaxV -> [Lanes -> Word]]
    BY DEF Registers, RegisterState
  <1>2. \A l \in Lanes : Wrap(value[l]) \in Word /\ value[l] \div 2^W \in Word
    BY WrapFacts, WideParts, WordInWide
  <1>3. CASE ~collect
    BY <1>1, <1>3 DEF WriteBack
  <1>4. CASE collect
    <2> DEFINE new(r, l) == CASE l \in active /\ r = i.d -> Wrap(value[l])
                              [] l \in active /\ r = i.d + 1 /\ i.op \in WideDst -> value[l] \div 2^W
                              [] OTHER -> v[r][l]
               w == WriteBack(i, value)
    <2>1. w = [r \in 0..MaxV |-> [l \in Lanes |-> new(r, l)]]
      BY <1>4 DEF WriteBack
    <2>2. \A r \in 0..MaxV, l \in Lanes : w[r][l] = new(r, l)
      BY <2>1
    <2>3. i.d # i.d + 1
      OBVIOUS
    <2>4. ASSUME NEW r \in 0..MaxV, NEW l \in Lanes
          PROVE  /\ new(r, l) \in Word
                 /\ l \notin active => new(r, l) = v[r][l]
                 /\ l \in active /\ r = i.d => new(r, l) = Wrap(value[l])
                 /\ l \in active /\ r = i.d + 1 /\ i.op \in WideDst => new(r, l) = value[l] \div 2^W
                 /\ r # i.d /\ i.op \notin WideDst => new(r, l) = v[r][l]
      BY <1>1, <1>2, <2>3
    <2> HIDE DEF new
    <2>5. w \in [0..MaxV -> [Lanes -> Word]]
      BY <2>1, <2>4
    <2> HIDE DEF w
    <2> QED
      BY <1>4, <2>2, <2>4, <2>5 DEF w
  <1> QED
    BY <1>3, <1>4
-----------------------------------------------------------------------------
(* The program, the mask and the registers at the start do not change.     *)
ProgramFits ==
    /\ collect \in BOOLEAN /\ active \subseteq Lanes
    /\ Len(code) \in Nat
    /\ \A k \in 1..Len(code) : RegistersExist(code[k])
    /\ orig \in RegisterState

(* The registers after a step, and the lanes that it leaves alone.         *)
Keeps ==
    /\ v' \in [0..MaxV -> [Lanes -> Word]] /\ s' \in [0..MaxS -> Word]
    /\ aborted' \in BOOLEAN
    /\ \A l \in Lanes \ active :
          /\ \A r \in 0..MaxV : v'[r][l] = v[r][l]
          /\ \A r \in 0..MaxS : BitOf(s'[r], l) = BitOf(s[r], l)

LEMMA RegistersFit == TypeOK => Registers \in RegisterState
  BY DEF TypeOK, Registers, RegisterState

(* The values that an instruction on collected operands computes.          *)
Values1(i) == [l \in Lanes |-> VOP1(i.op, Source(i.src, 0, l))]
Values2(i) == [l \in Lanes |-> VOP2(i.op, Src0(i, l), Src1(i, l), BitOf(s[Vcc], l))]
Carried(i) == [l \in Lanes |-> WithCarry(i.op, Src0(i, l), Src1(i, l))]

LEMMA ValueTypes ==
    ASSUME ProgramFits, TypeOK, NEW i, RegistersExist(i)
    PROVE  /\ i.op \in VOP1Ops => i.d \in 0..MaxV /\ \A l \in Lanes : Values1(i)[l] \in WideWord
           /\ i.op \in VOP2Ops => i.d \in 0..MaxV /\ \A l \in Lanes : Values2(i)[l] \in WideWord
           /\ i.op \in CarryOps =>
                 /\ i.d \in 0..MaxV
                 /\ \A l \in Lanes : Carried(i)[l][1] \in WideWord /\ Carried(i)[l][2] \in {0, 1}
  <1>1. Registers \in RegisterState /\ collect \in BOOLEAN
    BY RegistersFit DEF ProgramFits
  <1>2. i.op \in VOP1Ops \cup VOP2Ops \cup CarryOps => i.d \in 0..MaxV
    BY DEF RegistersExist, VectorDst, IsVector
  <1>3. ASSUME i.op \in VOP1Ops, NEW l \in Lanes PROVE Values1(i)[l] \in WideWord
    <2>1. IsSource(i.src, i.op \in WideSrc1)
      BY <1>3 DEF RegistersExist
    <2>2. IsSource(i.src, FALSE)
      BY <2>1 DEF IsSource, IsScalar, IsVector
    <2>3. FALSE \in BOOLEAN
      OBVIOUS
    <2>4. Source(i.src, 0, l) \in Word
      BY <1>1, <2>2, <2>3, SourceType
    <2> QED
      BY <1>3, <2>4, VOP1Type DEF Values1
  <1>4. ASSUME i.op \in VOP2Ops, NEW l \in Lanes PROVE Values2(i)[l] \in WideWord
    <2>1. /\ IF i.op \in WideSrc0 THEN Src0(i, l) \in WideWord ELSE Src0(i, l) \in Word
          /\ IF i.op \in WideSrc1 THEN Src1(i, l) \in WideWord ELSE Src1(i, l) \in Word
      BY <1>1, <1>4, OperandTypes
    <2>2. i.op \notin WideSrc1
      BY <1>4 DEF VOP2Ops, WideSrc1
    <2>3. BitOf(s[Vcc], l) \in {0, 1}
      BY BitType, LaneBits, WordInWide, VectorAssumption DEF TypeOK
    <2> QED
      BY <1>4, <2>1, <2>2, <2>3, VOP2Type DEF Values2
  <1>5. ASSUME i.op \in CarryOps, NEW l \in Lanes
        PROVE  Carried(i)[l][1] \in WideWord /\ Carried(i)[l][2] \in {0, 1}
    <2>1. /\ IF i.op \in WideSrc0 THEN Src0(i, l) \in WideWord ELSE Src0(i, l) \in Word
          /\ IF i.op \in WideSrc1 THEN Src1(i, l) \in WideWord ELSE Src1(i, l) \in Word
      BY <1>1, <1>5, OperandTypes
    <2>2. (i.op \in WideSrc0 <=> i.op = "V_ADD_I64") /\ (i.op \in WideSrc1 <=> i.op = "V_ADD_I64")
      BY <1>5 DEF CarryOps, WideSrc0, WideSrc1
    <2> QED
      BY <1>5, <2>1, <2>2, CarryType DEF Carried
  <1> QED
    BY <1>2, <1>3, <1>4, <1>5

(* Every instruction leaves words in the registers and the inactive lanes  *)
(* as they are.                                                            *)
LEMMA KeepsVector ==
    ASSUME ProgramFits, TypeOK, NEW i, i.d \in 0..MaxV,
           NEW value, \A l \in Lanes : value[l] \in WideWord,
           v' = WriteBack(i, value), UNCHANGED <<s, aborted>>
    PROVE  Keeps
  <1>1. Registers \in RegisterState /\ collect \in BOOLEAN /\ active \subseteq Lanes
    BY RegistersFit DEF ProgramFits
  <1>2. /\ WriteBack(i, value) \in [0..MaxV -> [Lanes -> Word]]
        /\ \A r \in 0..MaxV, l \in Lanes \ active : WriteBack(i, value)[r][l] = v[r][l]
    BY <1>1, WriteBackFacts
  <1>3. s' = s /\ aborted' = aborted
    OBVIOUS
  <1> QED
    BY <1>2, <1>3 DEF Keeps, TypeOK

LEMMA KeepsBits ==
    ASSUME ProgramFits, TypeOK, NEW r \in 0..MaxS, NEW b \in [Lanes -> {0, 1}],
           s' = [s EXCEPT ![r] = SetBits(s[r], b)]
    PROVE  /\ s' \in [0..MaxS -> Word]
           /\ \A q \in 0..MaxS : q # r => s'[q] = s[q]
           /\ \A l \in active : BitOf(s'[r], l) = b[l]
           /\ \A q \in 0..MaxS, l \in Lanes \ active : BitOf(s'[q], l) = BitOf(s[q], l)
  <1>1. s[r] \in Word /\ s \in [0..MaxS -> Word] /\ active \subseteq Lanes
    BY DEF TypeOK, ProgramFits
  <1>2. /\ SetBits(s[r], b) \in Word
        /\ \A l \in active : BitOf(SetBits(s[r], b), l) = b[l]
        /\ \A l \in Lanes \ active : BitOf(SetBits(s[r], b), l) = BitOf(s[r], l)
    BY <1>1, SetBitsFacts
  <1> QED
    BY <1>1, <1>2

LEMMA StepKeeps ==
    ASSUME ProgramFits, TypeOK, Next
    PROVE  Keeps
  <1> DEFINE i == code[pc]
  <1>1. pc \in 1..Len(code) /\ RegistersExist(i)
    BY DEF Next, Running, TypeOK, ProgramFits
  <1>2. Registers \in RegisterState /\ collect \in BOOLEAN /\ active \subseteq Lanes
    BY RegistersFit DEF ProgramFits
  <1>3. v \in [0..MaxV -> [Lanes -> Word]] /\ s \in [0..MaxS -> Word] /\ aborted \in BOOLEAN
    BY DEF TypeOK
  <1> HIDE DEF i
  <1>4. CASE ExecuteVOP1(i)
    BY <1>1, <1>4, ValueTypes, KeepsVector DEF ExecuteVOP1, Values1
  <1>5. CASE ExecuteVOP2(i)
    BY <1>1, <1>5, ValueTypes, KeepsVector DEF ExecuteVOP2, Values2
  <1>6. CASE ExecuteVOP2Carry(i)
    <2> DEFINE value == [l \in Lanes |-> Carried(i)[l][1]]
               bit == [l \in Lanes |-> Carried(i)[l][2]]
    <2>1. v' = WriteBack(i, value) /\ s' = [s EXCEPT ![Vcc] = SetBits(s[Vcc], bit)] /\ aborted' = aborted
      BY <1>6 DEF ExecuteVOP2Carry, Carried
    <2>2. /\ i.d \in 0..MaxV
          /\ \A l \in Lanes : Carried(i)[l][1] \in WideWord /\ Carried(i)[l][2] \in {0, 1}
      BY <1>1, <1>6, ValueTypes DEF ExecuteVOP2Carry
    <2>3. (\A l \in Lanes : value[l] \in WideWord) /\ bit \in [Lanes -> {0, 1}] /\ Vcc \in 0..MaxS
      BY <2>2, VectorAssumption
    <2> HIDE DEF value, bit
    <2>4. /\ WriteBack(i, value) \in [0..MaxV -> [Lanes -> Word]]
          /\ \A r \in 0..MaxV, l \in Lanes \ active : WriteBack(i, value)[r][l] = v[r][l]
      BY <1>2, <2>2, <2>3, WriteBackFacts
    <2>5. /\ s' \in [0..MaxS -> Word]
          /\ \A q \in 0..MaxS, l \in Lanes \ active : BitOf(s'[q], l) = BitOf(s[q], l)
      BY <2>1, <2>3, KeepsBits
    <2> QED
      BY <1>3, <2>1, <2>4, <2>5 DEF Keeps
  <1>7. CASE V_MULLO_U32(i)
    <2>1. PICK value \in [Lanes -> Word] : v' = WriteBack(i, value)
      BY <1>7 DEF V_MULLO_U32
    <2>2. (\A l \in Lanes : value[l] \in WideWord) /\ i.d \in 0..MaxV
      BY <1>1, <1>7, WordInWide DEF V_MULLO_U32, RegistersExist, VectorDst, IsVector
    <2> QED
      BY <1>7, <2>1, <2>2, KeepsVector DEF V_MULLO_U32
  <1>8. CASE ExecuteVOPC(i)
    <2> DEFINE bit == [l \in Lanes |-> Flag(VOPC(i.op, Src0(i, l), Src1(i, l)))]
    <2>1. v' = v /\ aborted' = aborted
      BY <1>8 DEF ExecuteVOPC
    <2>2. bit \in [Lanes -> {0, 1}] /\ i.d \in 0..MaxS
      BY <1>1, <1>8, FlagType DEF ExecuteVOPC, RegistersExist, ScalarDst, IsScalar
    <2>3. s' = IF collect THEN [s EXCEPT ![i.d] = SetBits(s[i.d], bit)] ELSE s
      BY <1>3, <1>8, <2>2 DEF ExecuteVOPC
    <2> HIDE DEF bit
    <2>4. CASE collect
      <3>1. /\ s' \in [0..MaxS -> Word]
            /\ \A q \in 0..MaxS, l \in Lanes \ active : BitOf(s'[q], l) = BitOf(s[q], l)
        BY <2>2, <2>3, <2>4, KeepsBits
      <3> QED
        BY <1>3, <2>1, <3>1 DEF Keeps
    <2>5. CASE ~collect
      BY <1>3, <2>1, <2>3, <2>5 DEF Keeps
    <2> QED
      BY <2>4, <2>5
  <1>9. CASE ExecuteVOP3A(i)
    <2>1. CASE ~(i.mods \subseteq Allowed(i.op))
      <3>1. v' = v /\ s' = s /\ aborted' \in BOOLEAN
        BY <1>9, <2>1 DEF ExecuteVOP3A
      <3> QED
        BY <1>3, <3>1 DEF Keeps
    <2>2. CASE i.mods \subseteq Allowed(i.op)
      <3>1. v' = InTurn(i).v /\ s' = InTurn(i).s /\ aborted' \in BOOLEAN /\ i.op \in Direct
        BY <1>2, <1>9, <2>2 DEF ExecuteVOP3A
      <3>2. i.op \in Comparisons \/ i.op \in Words3A \/ i.op = "V_LSHR_B64"
        BY <3>1 DEF Direct, VOP3AOps, Comparisons, Words3A, Unimplemented
      <3>3. /\ InTurn(i) \in RegisterState
            /\ \A r \in 0..MaxV, l \in Lanes \ active : InTurn(i).v[r][l] = v[r][l]
            /\ \A r \in 0..MaxS, l \in Lanes \ active : BitOf(InTurn(i).s[r], l) = BitOf(s[r], l)
        <4>1. CASE i.op \in Comparisons
          BY <1>1, <1>2, <4>1, CompareLanes
        <4>2. CASE i.op \in Words3A
          BY <1>1, <1>2, <4>2, WordLanes
        <4>3. CASE i.op = "V_LSHR_B64"
          BY <1>1, <1>2, <4>3, PairLanes
        <4> QED
          BY <3>2, <4>1, <4>2, <4>3
      <3> QED
        BY <3>1, <3>3 DEF Keeps, RegisterState
    <2> QED
      BY <2>1, <2>2
  <1>10. CASE V_MADLO_I32_I32(i)
    <2> DEFINE value == [l \in Lanes |->
                 Wrap(Signed(Vector(i.y, l)) * Signed(Vector(i.z, l)) + Vector(i.z, l))]
    <2>1. v' = WriteBack(i, value) /\ UNCHANGED <<s, aborted>>
      BY <1>10 DEF V_MADLO_I32_I32
    <2>2. i.d \in 0..MaxV /\ i.y \in 0..MaxV /\ i.z \in 0..MaxV
      BY <1>1, <1>10 DEF V_MADLO_I32_I32, RegistersExist, VectorDst, IsVector
    <2>3. ASSUME NEW l \in Lanes PROVE value[l] \in WideWord
      <3> DEFINE a == Signed(Vector(i.y, l))
                 b == Signed(Vector(i.z, l))
                 c == Vector(i.z, l)
      <3>1. a \in Int /\ b \in Int /\ c \in Int
        BY <1>2, <2>2, VectorType, SignedType, WordInWide
      <3> HIDE DEF a, b, c
      <3>2. a * b + c \in Int
        BY <3>1
      <3>3. value[l] = Wrap(a * b + c)
        BY DEF a, b, c
      <3> QED
        BY <3>2, <3>3, WrapFacts, WordInWide
    <2> HIDE DEF value
    <2> QED
      BY <2>1, <2>2, <2>3, KeepsVector
  <1>11. CASE ExecuteVOP3B(i)
    <2>1. v' = InTurn(i).v /\ s' = InTurn(i).s /\ aborted' = aborted /\ i.op = "V_ADDC_U32"
      BY <1>11 DEF ExecuteVOP3B
    <2>2. /\ InTurn(i) \in RegisterState
          /\ \A r \in 0..MaxV, l \in Lanes \ active : InTurn(i).v[r][l] = v[r][l]
          /\ \A r \in 0..MaxS, l \in Lanes \ active : BitOf(InTurn(i).s[r], l) = BitOf(s[r], l)
      BY <1>1, <1>2, <2>1, AddcLanes
    <2> QED
      BY <1>3, <2>1, <2>2 DEF Keeps, RegisterState
  <1>12. CASE ExecuteUnimplemented(i)
    BY <1>2, <1>3, <1>12 DEF ExecuteUnimplemented, Keeps
  <1> QED
    BY <1>4, <1>5, <1>6, <1>7, <1>8, <1>9, <1>10, <1>11, <1>12 DEF Next, i
-----------------------------------------------------------------------------
(* The opcode of an instruction determines its handler.                    *)
LEMMA Dispatch ==
    ASSUME Next, NEW i, i = code[pc]
    PROVE  /\ i.op \in VOP1Ops => ExecuteVOP1(i)
           /\ i.op \in VOP2Ops => ExecuteVOP2(i)
           /\ i.op \in CarryOps => ExecuteVOP2Carry(i)
           /\ i.op \in Direct => ExecuteVOP3A(i)
           /\ i.op = "V_ADDC_U32" => ExecuteVOP3B(i)
  <1> DEFINE c == i.op
  <1>1. /\ ExecuteVOP1(i) => c \in VOP1Ops
        /\ ExecuteVOP2(i) => c \in VOP2Ops
        /\ ExecuteVOP2Carry(i) => c \in CarryOps
        /\ V_MULLO_U32(i) => c = "V_MULLO_U32"
        /\ ExecuteVOPC(i) => c \in VOPCOps
        /\ ExecuteVOP3A(i) => c \in Direct
        /\ V_MADLO_I32_I32(i) => c = "V_MADLO_I32_I32"
        /\ ExecuteVOP3B(i) => c = "V_ADDC_U32"
        /\ ExecuteUnimplemented(i) => c \in Unimplemented
    BY DEF ExecuteVOP1, ExecuteVOP2, ExecuteVOP2Carry, V_MULLO_U32, ExecuteVOPC, ExecuteVOP3A,
           V_MADLO_I32_I32, ExecuteVOP3B, ExecuteUnimplemented
  <1>2. \/ ExecuteVOP1(i) \/ ExecuteVOP2(i) \/ ExecuteVOP2Carry(i) \/ V_MULLO_U32(i)
        \/ ExecuteVOPC(i) \/ ExecuteVOP3A(i) \/ V_MADLO_I32_I32(i) \/ ExecuteVOP3B(i)
        \/ ExecuteUnimplemented(i)
    BY DEF Next
  <1> HIDE DEF c
  <1>3. c \in VOP1Ops =>
           /\ c \notin VOP2Ops /\ c \notin CarryOps /\ c # "V_MULLO_U32" /\ c \notin VOPCOps
           /\ c \notin Direct /\ c # "V_MADLO_I32_I32" /\ c # "V_ADDC_U32" /\ c \notin Unimplemented
    BY DEF VOP1Ops, VOP2Ops, CarryOps, VOPCOps, Direct, VOP3AOps, Signed3AOps, Unsigned3AOps,
           Arithmetic3AOps, Unimplemented
  <1>4. c \in VOP2Ops =>
           /\ c \notin CarryOps /\ c # "V_MULLO_U32" /\ c \notin VOPCOps
           /\ c \notin Direct /\ c # "V_MADLO_I32_I32" /\ c # "V_ADDC_U32" /\ c \notin Unimplemented
    BY DEF VOP2Ops, CarryOps, VOPCOps, Direct, VOP3AOps, Signed3AOps, Unsigned3AOps,
           Arithmetic3AOps, Unimplemented
  <1>5. c \in CarryOps =>
           /\ c # "V_MULLO_U32" /\ c \notin VOPCOps
           /\ c \notin Direct /\ c # "V_MADLO_I32_I32" /\ c # "V_ADDC_U32" /\ c \notin Unimplemented
    BY DEF CarryOps, VOPCOps, Direct, VOP3AOps, Signed3AOps, Unsigned3AOps,
           Arithmetic3AOps, Unimplemented
  <1>6. c \in Direct =>
           /\ c # "V_MULLO_U32" /\ c \notin VOPCOps
           /\ c # "V_MADLO_I32_I32" /\ c # "V_ADDC_U32" /\ c \notin Unimplemented
    BY DEF VOPCOps, Direct, VOP3AOps, Signed3AOps, Unsigned3AOps, Arithmetic3AOps, Unimplemented
  <1>7. c = "V_ADDC_U32" => c \notin VOPCOps /\ c \notin Unimplemented
    BY DEF VOPCOps, Unimplemented
  <1> QED
    BY <1>1, <1>2, <1>3, <1>4, <1>5, <1>6, <1>7 DEF c

(* What a step that writes back leaves in the registers.                   *)
StoredIn(i, regs, x, l) ==
    /\ regs[i.d][l] = Wrap(x)
    /\ i.op \in WideDst => regs[i.d + 1][l] = x \div 2^W

LEMMA CollectedStep ==
    ASSUME ProgramFits, TypeOK, Next, collect, NEW i, i = code[pc]
    PROVE  /\ i.op \in VOP1Ops =>
                 s' = s /\ \A l \in active : StoredIn(i, v', Values1(i)[l], l)
           /\ i.op \in VOP2Ops =>
                 s' = s /\ \A l \in active : StoredIn(i, v', Values2(i)[l], l)
           /\ i.op \in CarryOps =>
                 /\ \A r \in 0..MaxS \ {Vcc} : s'[r] = s[r]
                 /\ \A l \in active : /\ StoredIn(i, v', Carried(i)[l][1], l)
                                      /\ BitOf(s'[Vcc], l) = Carried(i)[l][2]
           /\ i.op \in (VOP1Ops \cup VOP2Ops \cup CarryOps) \ WideDst =>
                 \A r \in 0..MaxV \ {i.d}, l \in Lanes : v'[r][l] = v[r][l]
  <1>1. RegistersExist(i)
    BY DEF Next, Running, TypeOK, ProgramFits
  <1>2. Registers \in RegisterState /\ collect \in BOOLEAN /\ active \subseteq Lanes
    BY RegistersFit DEF ProgramFits
  <1>3. i.op \in VOP1Ops \cup VOP2Ops \cup CarryOps /\ i.op \in WideDst => i.d + 1 \in 0..MaxV
    BY <1>1 DEF RegistersExist, IsVector, VectorDst
  <1>4. ASSUME i.op \in VOP1Ops \cup VOP2Ops \cup CarryOps, i.d \in 0..MaxV,
               NEW value, \A l \in Lanes : value[l] \in WideWord, v' = WriteBack(i, value)
        PROVE  /\ \A l \in active : StoredIn(i, v', value[l], l)
               /\ i.op \notin WideDst => \A r \in 0..MaxV \ {i.d}, l \in Lanes : v'[r][l] = v[r][l]
    <2>1. /\ \A l \in active : WriteBack(i, value)[i.d][l] = Wrap(value[l])
          /\ i.op \in WideDst /\ i.d + 1 \in 0..MaxV =>
                \A l \in active : WriteBack(i, value)[i.d + 1][l] = value[l] \div 2^W
          /\ i.op \notin WideDst =>
                \A r \in 0..MaxV \ {i.d}, l \in Lanes : WriteBack(i, value)[r][l] = v[r][l]
      BY <1>2, <1>4, WriteBackFacts
    <2> QED
      BY <1>3, <1>4, <2>1 DEF StoredIn
  <1>5. ASSUME i.op \in VOP1Ops
        PROVE  /\ s' = s /\ \A l \in active : StoredIn(i, v', Values1(i)[l], l)
               /\ i.op \notin WideDst => \A r \in 0..MaxV \ {i.d}, l \in Lanes : v'[r][l] = v[r][l]
    <2>1. v' = WriteBack(i, Values1(i)) /\ s' = s
      BY <1>5, Dispatch DEF ExecuteVOP1, Values1
    <2>2. i.d \in 0..MaxV /\ \A l \in Lanes : Values1(i)[l] \in WideWord
      BY <1>1, <1>5, ValueTypes
    <2> QED
      BY <1>4, <1>5, <2>1, <2>2
  <1>6. ASSUME i.op \in VOP2Ops
        PROVE  /\ s' = s /\ \A l \in active : StoredIn(i, v', Values2(i)[l], l)
               /\ i.op \notin WideDst => \A r \in 0..MaxV \ {i.d}, l \in Lanes : v'[r][l] = v[r][l]
    <2>1. v' = WriteBack(i, Values2(i)) /\ s' = s
      BY <1>6, Dispatch DEF ExecuteVOP2, Values2
    <2>2. i.d \in 0..MaxV /\ \A l \in Lanes : Values2(i)[l] \in WideWord
      BY <1>1, <1>6, ValueTypes
    <2> QED
      BY <1>4, <1>6, <2>1, <2>2
  <1>7. ASSUME i.op \in CarryOps
        PROVE  /\ \A r \in 0..MaxS \ {Vcc} : s'[r] = s[r]
               /\ \A l \in active : /\ StoredIn(i, v', Carried(i)[l][1], l)
                                    /\ BitOf(s'[Vcc], l) = Carried(i)[l][2]
               /\ i.op \notin WideDst => \A r \in 0..MaxV \ {i.d}, l \in Lanes : v'[r][l] = v[r][l]
    <2> DEFINE value == [l \in Lanes |-> Carried(i)[l][1]]
               bit == [l \in Lanes |-> Carried(i)[l][2]]
    <2>1. v' = WriteBack(i, value) /\ s' = [s EXCEPT ![Vcc] = SetBits(s[Vcc], bit)]
      BY <1>7, Dispatch DEF ExecuteVOP2Carry, Carried
    <2>2. /\ i.d \in 0..MaxV
          /\ \A l \in Lanes : Carried(i)[l][1] \in WideWord /\ Carried(i)[l][2] \in {0, 1}
      BY <1>1, <1>7, ValueTypes
    <2>3. (\A l \in Lanes : value[l] \in WideWord) /\ bit \in [Lanes -> {0, 1}] /\ Vcc \in 0..MaxS
      BY <2>2, VectorAssumption
    <2>4. \A l \in active : value[l] = Carried(i)[l][1] /\ bit[l] = Carried(i)[l][2]
      BY <1>2
    <2> HIDE DEF value, bit
    <2>5. /\ \A q \in 0..MaxS : q # Vcc => s'[q] = s[q]
          /\ \A l \in active : BitOf(s'[Vcc], l) = bit[l]
      BY <2>1, <2>3, KeepsBits
    <2> QED
      BY <1>4, <1>7, <2>1, <2>2, <2>3, <2>4, <2>5
  <1> QED
    BY <1>5, <1>6, <1>7

(* What a step of VOP3A that does not abort leaves in the registers.       *)
LEMMA DirectStep ==
    ASSUME ProgramFits, TypeOK, Next, ~aborted', NEW i, i = code[pc], i.op \in Direct
    PROVE  /\ RegistersExist(i)
           /\ \/ active = {} /\ v' = v /\ s' = s
              \/ v' = InTurn(i).v /\ s' = InTurn(i).s
           /\ Registers \in RegisterState /\ active \subseteq Lanes
  <1>1. RegistersExist(i)
    BY DEF Next, Running, TypeOK, ProgramFits
  <1>2. Registers \in RegisterState /\ collect \in BOOLEAN /\ active \subseteq Lanes
    BY RegistersFit DEF ProgramFits
  <1>3. ExecuteVOP3A(i)
    BY Dispatch
  <1>4. CASE i.mods \subseteq Allowed(i.op)
    BY <1>1, <1>2, <1>3, <1>4 DEF ExecuteVOP3A
  <1>5. CASE ~(i.mods \subseteq Allowed(i.op))
    BY <1>1, <1>2, <1>3, <1>5 DEF ExecuteVOP3A
  <1> QED
    BY <1>4, <1>5
-----------------------------------------------------------------------------
(* The registers after the first instruction, from those at the start.     *)
First0(l) == IF code[1].op \in WideSrc0 THEN Wide(A(l), orig.v[code[1].x + 1][l]) ELSE A(l)
Stored(x, l) ==
    /\ Result(l) = Wrap(x)
    /\ code[1].op \in WideDst => v[code[1].d + 1][l] = x \div 2^W

CollectedEffect ==
    LET i == code[1]
    IN  collect /\ pc = 2 =>
          /\ i.op \in VOP1Ops =>
                s = orig.s /\ \A l \in active : Stored(VOP1(i.op, B(l)), l)
          /\ i.op \in VOP2Ops =>
                /\ s = orig.s
                /\ \A l \in active : Stored(VOP2(i.op, First0(l), B(l), BitOf(orig.s[Vcc], l)), l)
          /\ i.op \in CarryOps \ WideSrc1 =>
                /\ \A r \in 0..MaxS \ {Vcc} : s[r] = orig.s[r]
                /\ \A l \in active : /\ Stored(WithCarry(i.op, A(l), B(l))[1], l)
                                     /\ BitOf(s[Vcc], l) = WithCarry(i.op, A(l), B(l))[2]
          /\ i.op \in (VOP1Ops \cup VOP2Ops \cup CarryOps) \ WideDst =>
                \A r \in 0..MaxV \ {i.d}, l \in Lanes : v[r][l] = orig.v[r][l]

DirectEffect ==
    LET i == code[1]
    IN  pc = 2 /\ ~aborted =>
          /\ i.op \in Comparisons /\ {i.x, i.y} \cap Written(i) = {} =>
                /\ \A r \in 0..MaxS : r \notin Written(i) => s[r] = orig.s[r]
                /\ \A l \in active, r \in Written(i) : BitOf(s[r], l) = Truth(i, orig.s)
          /\ i.op \in Words3A => \A l \in active : Result(l) = LaneValue(i, orig.s, l)
          /\ i.op = "V_LSHR_B64" =>
                \A l \in active : /\ Result(l) = Wrap(PairValue(i, orig.s))
                                  /\ v[i.d + 1][l] = PairValue(i, orig.s) \div 2^W
                                  /\ PairValue(i, orig.s) \in WideWord

Started == pc = 1 => v = orig.v /\ s = orig.s

(* The sources of the first instruction hold what they held at the start.  *)
LEMMA FirstOperands ==
    ASSUME ProgramFits, v = orig.v, s = orig.s, collect, NEW i, i = code[1], RegistersExist(i),
           NEW l \in Lanes
    PROVE  /\ i.op \in VOP1Ops \cup VOP2Ops \cup CarryOps => Source(i.src, 0, l) = B(l)
           /\ Src0(i, l) = First0(l)
           /\ i.op \in VOP2Ops \cup CarryOps /\ i.op \notin WideSrc1 => Src1(i, l) = B(l)
  <1>1. i.op \in VOP1Ops \cup VOP2Ops \cup CarryOps => Source(i.src, 0, l) = B(l)
    <2> SUFFICES ASSUME i.op \in VOP1Ops \cup VOP2Ops \cup CarryOps PROVE Source(i.src, 0, l) = B(l)
      OBVIOUS
    <2>1. IsSource(i.src, i.op \in WideSrc1)
      BY DEF RegistersExist
    <2>2. \/ i.src.kind = "imm"
          \/ i.src.kind = "s" /\ i.src.n + 0 = i.src.n
          \/ i.src.kind = "v" /\ i.src.n + 0 = i.src.n
      BY <2>1 DEF IsSource, IsScalar, IsVector
    <2> QED
      BY <2>2 DEF Source, B, Held, Vector
  <1>2. Src0(i, l) = First0(l)
    BY DEF Src0, First0, A, Vector
  <1> QED
    BY <1>1, <1>2 DEF Src1

LEMMA FirstCollected ==
    ASSUME ProgramFits, TypeOK, Started, Next
    PROVE  CollectedEffect'
  <1> DEFINE i == code[1]
  <1>1. /\ pc' = pc + 1 /\ collect' = collect /\ active' = active /\ code' = code /\ orig' = orig
        /\ pc \in 1..Len(code) /\ Len(code) \in Nat
    BY DEF Next, Running, Advance, TypeOK, ProgramFits
  <1> SUFFICES ASSUME collect, pc' = 2
               PROVE  /\ i.op \in VOP1Ops =>
                            s' = orig.s /\ \A l \in active : StoredIn(i, v', VOP1(i.op, B(l)), l)
                      /\ i.op \in VOP2Ops =>
                            /\ s' = orig.s
                            /\ \A l \in active :
                                  StoredIn(i, v', VOP2(i.op, First0(l), B(l), BitOf(orig.s[Vcc], l)), l)
                      /\ i.op \in CarryOps \ WideSrc1 =>
                            /\ \A r \in 0..MaxS \ {Vcc} : s'[r] = orig.s[r]
                            /\ \A l \in active :
                                  /\ StoredIn(i, v', WithCarry(i.op, A(l), B(l))[1], l)
                                  /\ BitOf(s'[Vcc], l) = WithCarry(i.op, A(l), B(l))[2]
                      /\ i.op \in (VOP1Ops \cup VOP2Ops \cup CarryOps) \ WideDst =>
                            \A r \in 0..MaxV \ {i.d}, l \in Lanes : v'[r][l] = orig.v[r][l]
    BY ZenonT(30), <1>1 DEF CollectedEffect, Stored, StoredIn, Result, A, B, Held, First0
  <1>2. pc = 1 /\ v = orig.v /\ s = orig.s /\ i = code[pc] /\ RegistersExist(i) /\ active \subseteq Lanes
    BY <1>1 DEF Started, ProgramFits
  <1>3. /\ i.op \in VOP1Ops =>
              s' = s /\ \A l \in active : StoredIn(i, v', Values1(i)[l], l)
        /\ i.op \in VOP2Ops =>
              s' = s /\ \A l \in active : StoredIn(i, v', Values2(i)[l], l)
        /\ i.op \in CarryOps =>
              /\ \A r \in 0..MaxS \ {Vcc} : s'[r] = s[r]
              /\ \A l \in active : /\ StoredIn(i, v', Carried(i)[l][1], l)
                                   /\ BitOf(s'[Vcc], l) = Carried(i)[l][2]
        /\ i.op \in (VOP1Ops \cup VOP2Ops \cup CarryOps) \ WideDst =>
              \A r \in 0..MaxV \ {i.d}, l \in Lanes : v'[r][l] = v[r][l]
    BY <1>2, CollectedStep
  <1>4. \A l \in active :
           /\ i.op \in VOP1Ops \cup VOP2Ops \cup CarryOps => Source(i.src, 0, l) = B(l)
           /\ Src0(i, l) = First0(l)
           /\ i.op \in VOP2Ops \cup CarryOps /\ i.op \notin WideSrc1 => Src1(i, l) = B(l)
    BY <1>2, FirstOperands
  <1>5. /\ i.op \in VOP2Ops => i.op \notin WideSrc1
        /\ i.op \in CarryOps \ WideSrc1 => i.op \notin WideSrc0
    BY DEF VOP2Ops, CarryOps, WideSrc1, WideSrc0
  <1>6. ASSUME i.op \in VOP1Ops, NEW l \in active PROVE Values1(i)[l] = VOP1(i.op, B(l))
    BY <1>2, <1>4, <1>6 DEF Values1
  <1>7. ASSUME i.op \in VOP2Ops, NEW l \in active
        PROVE  Values2(i)[l] = VOP2(i.op, First0(l), B(l), BitOf(orig.s[Vcc], l))
    BY <1>2, <1>4, <1>5, <1>7 DEF Values2
  <1>8. ASSUME i.op \in CarryOps \ WideSrc1, NEW l \in active
        PROVE  Carried(i)[l] = WithCarry(i.op, A(l), B(l))
    <2>1. First0(l) = A(l)
      BY <1>5, <1>8 DEF First0
    <2> QED
      BY <1>2, <1>4, <1>8, <2>1 DEF Carried
  <1> HIDE DEF i
  <1> QED
    BY <1>2, <1>3, <1>6, <1>7, <1>8

LEMMA FirstDirect ==
    ASSUME ProgramFits, TypeOK, Started, Next
    PROVE  DirectEffect'
  <1> DEFINE i == code[1]
  <1>1. /\ pc' = pc + 1 /\ collect' = collect /\ active' = active /\ code' = code /\ orig' = orig
        /\ pc \in 1..Len(code) /\ Len(code) \in Nat
    BY DEF Next, Running, Advance, TypeOK, ProgramFits
  <1> SUFFICES ASSUME ~aborted', pc' = 2
               PROVE  /\ i.op \in Comparisons /\ {i.x, i.y} \cap Written(i) = {} =>
                            /\ \A r \in 0..MaxS : r \notin Written(i) => s'[r] = s[r]
                            /\ \A l \in active, r \in Written(i) : BitOf(s'[r], l) = Truth(i, s)
                      /\ i.op \in Words3A => \A l \in active : v'[i.d][l] = LaneValue(i, s, l)
                      /\ i.op = "V_LSHR_B64" =>
                            \A l \in active : /\ v'[i.d][l] = Wrap(PairValue(i, s))
                                              /\ v'[i.d + 1][l] = PairValue(i, s) \div 2^W
                                              /\ PairValue(i, s) \in WideWord
    <2>1. pc' = 2 => pc = 1 /\ s = orig.s
      BY <1>1 DEF Started
    <2>2. Written(i)' = Written(i) /\ i' = i
      BY <1>1 DEF Written
    <2>3. /\ Truth(i, orig.s)' = Truth(i, orig.s)
          /\ PairValue(i, orig.s)' = PairValue(i, orig.s)
          /\ \A l \in active : LaneValue(i, orig.s, l)' = LaneValue(i, orig.s, l)
      BY <1>1 DEF Truth, PairValue, LaneValue
    <2> QED
      BY <1>1, <2>1, <2>2, <2>3 DEF DirectEffect, Result
  <1>2. pc = 1 /\ i = code[pc]
    BY <1>1
  <1> HIDE DEF i
  <1>3. i.op \in Comparisons \/ i.op \in Words3A \/ i.op = "V_LSHR_B64" => i.op \in Direct
    BY DEF Direct, VOP3AOps, Comparisons, Words3A, Unimplemented, Signed3AOps, Unsigned3AOps,
           Arithmetic3AOps
  <1>4. ASSUME i.op \in Direct
        PROVE  /\ RegistersExist(i)
               /\ \/ active = {} /\ v' = v /\ s' = s
                  \/ v' = InTurn(i).v /\ s' = InTurn(i).s
               /\ Registers \in RegisterState /\ active \subseteq Lanes
    BY <1>2, <1>4, DirectStep
  <1>5. ASSUME i.op \in Comparisons, {i.x, i.y} \cap Written(i) = {}
        PROVE  /\ \A r \in 0..MaxS : r \notin Written(i) => s'[r] = s[r]
               /\ \A l \in active, r \in Written(i) : BitOf(s'[r], l) = Truth(i, s)
    BY <1>3, <1>4, <1>5, CompareLanes
  <1>6. ASSUME i.op \in Words3A, NEW l \in active PROVE v'[i.d][l] = LaneValue(i, s, l)
    <2>1. i.d \in 0..MaxV
      BY <1>3, <1>4, <1>6 DEF RegistersExist, Words3A, VectorDst, IsVector
    <2> QED
      BY <1>3, <1>4, <1>6, <2>1, WordLanes
  <1>7. ASSUME i.op = "V_LSHR_B64", NEW l \in active
        PROVE  /\ v'[i.d][l] = Wrap(PairValue(i, s))
               /\ v'[i.d + 1][l] = PairValue(i, s) \div 2^W
               /\ PairValue(i, s) \in WideWord
    <2>1. i.d \in 0..MaxV /\ i.d + 1 \in 0..MaxV /\ i.d # i.d + 1
      BY <1>3, <1>4, <1>7 DEF RegistersExist, VectorDst, IsVector
    <2> QED
      BY <1>3, <1>4, <1>7, <2>1, PairLanes
  <1> QED
    BY <1>5, <1>6, <1>7
-----------------------------------------------------------------------------
(* The registers after the second instruction, for the pairs of            *)
(* instructions whose results belong together.                             *)
ChainEffect ==
    LET i == code[1]
        j == code[2]
    IN  /\ collect /\ RanBoth("V_ADDCO_U32", "V_ADDC_U32")
        /\ j.z = Vcc /\ j.x \notin {Vcc, j.sd} /\ i.d \notin {j.y, j.d}
        => \A l \in active :
              LET sum == orig.s[j.x] + orig.v[j.y][l] + ((A(l) + B(l)) \div 2^W)
              IN  /\ Result(l) = Wrap(A(l) + B(l))
                  /\ v[j.d][l] = Wrap(sum)
                  /\ BitOf(s[j.sd], l) = sum \div 2^W

SelectEffect ==
    LET i == code[1]
        j == code[2]
    IN  \A l \in active :
          /\ collect /\ RanBoth("V_SUB_U32", "V_CNDMASK_B32") /\ SameSources =>
                v[j.d][l] = IF B(l) > A(l) THEN B(l) ELSE A(l)
          /\ /\ RanBoth("V_CMP_GT_I32_VOP3A", "V_CNDMASK_B32_VOP3A")
             /\ i.mods = {} /\ j.mods = {} /\ i.d \notin {i.x, i.y}
             /\ j.x = i.y /\ j.y = i.x /\ j.z = i.d
             => v[j.d][l] = IF Signed(SA) > Signed(SB) THEN SA ELSE SB

ProductEffect ==
    \A l \in active, op \in {"V_MULHI_I32", "V_MULHI_U32"} :
        collect /\ RanBoth("V_MULLO_I32", op) /\ SameSources /\ code[2].d # code[1].d =>
            /\ Result(l) = V_MULLO_I32(A(l), B(l))
            /\ v[code[2].d][l] = IF op = "V_MULHI_I32" THEN V_MULHI_I32(A(l), B(l))
                                                       ELSE V_MULHI_U32(A(l), B(l))

ChopEffect ==
    \A l \in active :
        /\ collect /\ RanBoth("V_CHOP_B16_B32", "V_SEXT_I32_I16")
        /\ code[2].src.kind = "v" /\ code[2].src.n = code[1].d
        => v[code[2].d][l] = Wrap(Sext(Chop(B(l), W \div 2), W \div 2))

SecondEffect == ChainEffect /\ SelectEffect /\ ProductEffect /\ ChopEffect

(* What the sources of the first instruction held are words.               *)
LEMMA HeldTypes ==
    ASSUME ProgramFits, NEW i, i = code[1], RegistersExist(i), NEW l \in Lanes
    PROVE  /\ i.op \in VOP1Ops \cup VOP2Ops \cup CarryOps => B(l) \in Word
           /\ i.op \in VOP2Ops \cup CarryOps => A(l) \in Word
           /\ i.op \in VOP2Ops \cup CarryOps /\ i.op \in WideSrc0 =>
                 orig.v[i.x + 1][l] \in Word /\ First0(l) \in WideWord
  <1>1. orig.v \in [0..MaxV -> [Lanes -> Word]] /\ orig.s \in [0..MaxS -> Word]
    BY DEF ProgramFits, RegisterState
  <1>2. ASSUME i.op \in VOP1Ops \cup VOP2Ops \cup CarryOps PROVE B(l) \in Word
    <2>1. IsSource(i.src, i.op \in WideSrc1)
      BY <1>2 DEF RegistersExist
    <2>2. \/ i.src.kind = "imm" /\ i.src.n \in Word
          \/ i.src.kind = "s" /\ i.src.n \in 0..MaxS
          \/ i.src.kind = "v" /\ i.src.n \in 0..MaxV
      BY <2>1 DEF IsSource, IsScalar, IsVector
    <2> QED
      BY <1>1, <2>2 DEF B, Held
  <1>3. i.op \in VOP2Ops \cup CarryOps =>
           i.x \in 0..MaxV /\ (i.op \in WideSrc0 => i.x + 1 \in 0..MaxV)
    BY DEF RegistersExist, IsVector
  <1>4. i.op \in VOP2Ops \cup CarryOps => A(l) \in Word
    BY <1>1, <1>3 DEF A
  <1>5. i.op \in VOP2Ops \cup CarryOps /\ i.op \in WideSrc0 =>
           orig.v[i.x + 1][l] \in Word /\ First0(l) \in WideWord
    BY <1>1, <1>3, <1>4, WideFacts DEF First0
  <1> QED
    BY <1>2, <1>4, <1>5

(* The second instruction of a pair with the same sources reads the same   *)
(* words: the first has written back to its destination and VCC only.      *)
LEMMA SecondOperands ==
    ASSUME ProgramFits, CollectedEffect, pc = 2, collect, SameSources,
           NEW i, i = code[1], RegistersExist(i), i.op \in {"V_SUB_U32", "V_MULLO_I32"},
           NEW j, j = code[2], j.op \in {"V_CNDMASK_B32", "V_MULHI_I32", "V_MULHI_U32"},
           NEW l \in Lanes
    PROVE  Src0(j, l) = A(l) /\ Src1(j, l) = B(l)
  <1>1. /\ i.op \in VOP2Ops \cup CarryOps /\ i.op \notin WideDst /\ i.op \notin WideSrc0
        /\ i.op \notin WideSrc1 /\ j.op \notin WideSrc0 /\ j.op \notin WideSrc1
        /\ i.op \in VOP2Ops \/ i.op \in CarryOps \ WideSrc1
    BY DEF VOP2Ops, CarryOps, WideDst, WideSrc0, WideSrc1
  <1>2. IsVector(i.x, i.op \in WideSrc0) /\ IsSource(i.src, i.op \in WideSrc1)
    BY <1>1 DEF RegistersExist
  <1>3. i.x \in 0..MaxV
    BY <1>2 DEF IsVector
  <1>4. \/ i.src.kind = "imm"
        \/ i.src.kind = "s" /\ i.src.n \in 0..MaxS /\ i.src.n + 0 = i.src.n
        \/ i.src.kind = "v" /\ i.src.n \in 0..MaxV /\ i.src.n + 0 = i.src.n
    BY <1>2 DEF IsSource, IsScalar, IsVector
  <1>5. /\ \A r \in 0..MaxV \ {i.d} : v[r][l] = orig.v[r][l]
        /\ \A r \in 0..MaxS \ {Vcc} : s[r] = orig.s[r]
    BY <1>1 DEF CollectedEffect
  <1>6. /\ j.x = i.x /\ j.src = i.src /\ i.d # i.x
        /\ i.src.kind = "v" => i.src.n # i.d
        /\ i.src.kind = "s" => i.src.n # Vcc
    BY DEF SameSources
  <1>7. Src0(j, l) = A(l)
    BY <1>1, <1>3, <1>5, <1>6 DEF Src0, Vector, A
  <1>8. Source(i.src, 0, l) = B(l)
    <2>1. CASE i.src.kind = "imm"
      BY <2>1 DEF Source, B, Held
    <2>2. CASE i.src.kind = "s"
      BY <1>4, <1>5, <1>6, <2>2 DEF Source, B, Held
    <2>3. CASE i.src.kind = "v"
      BY <1>4, <1>5, <1>6, <2>3 DEF Source, B, Held, Vector
    <2> QED
      BY <1>4, <2>1, <2>2, <2>3
  <1> QED
    BY <1>1, <1>6, <1>7, <1>8 DEF Src1

(* The second of two instructions, with what stays as it is.               *)
LEMMA SecondRan ==
    ASSUME ProgramFits, TypeOK, Next
    PROVE  /\ collect' = collect /\ active' = active /\ code' = code /\ orig' = orig
           /\ active \subseteq Lanes
           /\ \A op1, op2 : RanBoth(op1, op2)' =>
                 /\ pc = 2 /\ ~aborted /\ ~aborted' /\ code[pc] = code[2]
                 /\ code[1].op = op1 /\ code[2].op = op2
                 /\ RegistersExist(code[1]) /\ RegistersExist(code[2])
  <1>1. /\ pc' = pc + 1 /\ collect' = collect /\ active' = active /\ code' = code /\ orig' = orig
        /\ pc \in 1..Len(code) /\ Len(code) \in Nat /\ ~aborted
    BY DEF Next, Running, Advance, TypeOK, ProgramFits
  <1>2. pc' = 3 => pc = 2 /\ 1 \in 1..Len(code) /\ 2 \in 1..Len(code)
    BY <1>1
  <1> QED
    BY <1>1, <1>2 DEF RanBoth, ProgramFits

LEMMA SecondChain ==
    ASSUME ProgramFits, TypeOK, CollectedEffect, Next
    PROVE  ChainEffect'
  <1> DEFINE i == code[1]
             j == code[2]
             sum(l) == orig.s[j.x] + orig.v[j.y][l] + ((A(l) + B(l)) \div 2^W)
  <1>1. collect' = collect /\ active' = active /\ code' = code /\ orig' = orig /\ active \subseteq Lanes
    BY SecondRan
  <1> SUFFICES ASSUME collect, RanBoth("V_ADDCO_U32", "V_ADDC_U32")',
                      j.z = Vcc, j.x \notin {Vcc, j.sd}, i.d \notin {j.y, j.d}, NEW l \in active
               PROVE  /\ v'[i.d][l] = Wrap(A(l) + B(l))
                      /\ v'[j.d][l] = Wrap(sum(l))
                      /\ BitOf(s'[j.sd], l) = sum(l) \div 2^W
    BY <1>1 DEF ChainEffect, Result, A, B, Held
  <1>2. /\ pc = 2 /\ code[pc] = j /\ i.op = "V_ADDCO_U32" /\ j.op = "V_ADDC_U32"
        /\ RegistersExist(i) /\ RegistersExist(j) /\ l \in Lanes
    BY <1>1, SecondRan
  <1> HIDE DEF i, j
  <1>3. i.op \in CarryOps \ WideSrc1 /\ i.op \notin WideDst /\ i.op \in CarryOps
    BY <1>2 DEF CarryOps, WideSrc1, WideDst
  <1>4. i.d \in 0..MaxV
    BY <1>2, <1>3 DEF RegistersExist, VectorDst, IsVector
  <1>5. /\ j.d \in 0..MaxV /\ j.y \in 0..MaxV
        /\ j.x \in 0..MaxS /\ j.z \in 0..MaxS /\ j.sd \in 0..MaxS
    BY <1>2 DEF RegistersExist, IsVector, IsScalar, VectorDst
  <1>6. /\ \A r \in 0..MaxS \ {Vcc} : s[r] = orig.s[r]
        /\ v[i.d][l] = Wrap(WithCarry(i.op, A(l), B(l))[1])
        /\ BitOf(s[Vcc], l) = WithCarry(i.op, A(l), B(l))[2]
        /\ \A r \in 0..MaxV \ {i.d} : v[r][l] = orig.v[r][l]
    BY <1>2, <1>3 DEF CollectedEffect, Stored, Result, i
  <1>7. A(l) \in Word /\ B(l) \in Word
    BY <1>2, <1>3, HeldTypes DEF i
  <1>8. /\ WithCarry(i.op, A(l), B(l))[1] = Wrap(A(l) + B(l))
        /\ WithCarry(i.op, A(l), B(l))[2] = (A(l) + B(l)) \div 2^W
    BY <1>2 DEF WithCarry, V_ADDCO_U32
  <1>9. Wrap(Wrap(A(l) + B(l))) = Wrap(A(l) + B(l))
    <2>1. A(l) + B(l) \in Int
      BY <1>7, WordInWide
    <2>2. Wrap(A(l) + B(l)) \in Word
      BY <2>1, WrapFacts
    <2> QED
      BY <2>2, WrapFacts, WordInWide
  <1>10. v' = InTurn(j).v /\ s' = InTurn(j).s
    BY <1>2, Dispatch DEF ExecuteVOP3B
  <1>11. /\ \A r \in 0..MaxV, k \in Lanes : r # j.d \/ k \notin active => InTurn(j).v[r][k] = v[r][k]
         /\ j.x # j.sd =>
               \A k \in active : /\ InTurn(j).v[j.d][k] = Wrap(Sum(j, Registers, k))
                                 /\ BitOf(InTurn(j).s[j.sd], k) = Sum(j, Registers, k) \div 2^W
    <2>1. Registers \in RegisterState
      BY RegistersFit
    <2> QED
      BY <1>1, <1>2, <2>1, AddcLanes
  <1>12. Sum(j, Registers, l) = sum(l)
    <2>1. Registers.s = s /\ Registers.v = v
      BY DEF Registers
    <2> QED
      BY <1>5, <1>6, <1>8, <2>1 DEF Sum
  <1> QED
    BY <1>2, <1>4, <1>6, <1>8, <1>9, <1>10, <1>11, <1>12

LEMMA SecondSelect ==
    ASSUME ProgramFits, TypeOK, CollectedEffect, DirectEffect, Next
    PROVE  SelectEffect'
  <1> DEFINE i == code[1]
             j == code[2]
  <1>1. collect' = collect /\ active' = active /\ code' = code /\ orig' = orig /\ active \subseteq Lanes
    BY SecondRan
  <1>2. ASSUME NEW l \in active, collect, RanBoth("V_SUB_U32", "V_CNDMASK_B32")', SameSources
        PROVE  v'[j.d][l] = IF B(l) > A(l) THEN B(l) ELSE A(l)
    <2>1. /\ pc = 2 /\ code[pc] = j /\ i.op = "V_SUB_U32" /\ j.op = "V_CNDMASK_B32"
          /\ RegistersExist(i) /\ l \in Lanes
      BY <1>1, <1>2, SecondRan
    <2>2. i.op \in CarryOps \ WideSrc1 /\ i.op \in CarryOps /\ j.op \in VOP2Ops
      BY <2>1 DEF CarryOps, WideSrc1, VOP2Ops
    <2>3. A(l) \in Word /\ B(l) \in Word
      BY <2>1, <2>2, HeldTypes
    <2>4. BitOf(s[Vcc], l) = Flag(B(l) > A(l))
      BY <1>2, <2>1, <2>2 DEF CollectedEffect, WithCarry, V_SUB_U32
    <2>5. Src0(j, l) = A(l) /\ Src1(j, l) = B(l)
      BY <1>2, <2>1, SecondOperands
    <2>6. v'[j.d][l] = Wrap(Values2(j)[l])
      BY <1>2, <2>1, <2>2, CollectedStep DEF StoredIn
    <2>7. Values2(j)[l] = IF B(l) > A(l) THEN B(l) ELSE A(l)
      BY <2>1, <2>4, <2>5 DEF Values2, VOP2, V_CNDMASK_B32, Flag
    <2>8. Wrap(A(l)) = A(l) /\ Wrap(B(l)) = B(l)
      BY <2>3, WrapFacts, WordInWide
    <2> QED
      BY <2>6, <2>7, <2>8
  <1>3. ASSUME NEW l \in active, RanBoth("V_CMP_GT_I32_VOP3A", "V_CNDMASK_B32_VOP3A")',
               i.mods = {}, j.mods = {}, i.d \notin {i.x, i.y}, j.x = i.y, j.y = i.x, j.z = i.d
        PROVE  v'[j.d][l] = IF Signed(SA) > Signed(SB) THEN SA ELSE SB
    <2>1. /\ pc = 2 /\ ~aborted /\ ~aborted' /\ code[pc] = j /\ i.op = "V_CMP_GT_I32_VOP3A"
          /\ j.op = "V_CNDMASK_B32_VOP3A"
          /\ RegistersExist(i) /\ RegistersExist(j) /\ l \in Lanes
      BY <1>1, <1>3, SecondRan
    <2>2. /\ i.op \in Comparisons /\ i.op \in Direct /\ Written(i) = {i.d}
          /\ j.op \in Words3A /\ j.op \in Direct /\ j.op \notin Arithmetic3AOps
      BY <2>1 DEF Comparisons, Words3A, Direct, VOP3AOps, Signed3AOps, Unimplemented, Written,
                  Arithmetic3AOps
    <2>3. i.x \in 0..MaxS /\ i.y \in 0..MaxS /\ i.d \in 0..MaxS /\ j.d \in 0..MaxV
      BY <2>1, <2>2 DEF RegistersExist, ScalarDst, VectorDst, Comparisons, IsScalar, IsVector
    <2>4. /\ s[i.x] = SA /\ s[i.y] = SB /\ BitOf(s[i.d], l) = Truth(i, orig.s)
      <3>1. {i.x, i.y} \cap Written(i) = {} /\ i.x \notin Written(i) /\ i.y \notin Written(i)
        BY <1>3, <2>2
      <3>2. /\ \A r \in 0..MaxS : r \notin Written(i) => s[r] = orig.s[r]
            /\ \A k \in active, r \in Written(i) : BitOf(s[r], k) = Truth(i, orig.s)
        BY <2>1, <2>2, <3>1 DEF DirectEffect
      <3> QED
        BY <2>2, <2>3, <3>1, <3>2 DEF SA, SB
    <2>5. Truth(i, orig.s) = Flag(Signed(SA) > Signed(SB))
      BY <1>3, <2>1 DEF Truth, Compare3A, V_CMP_GT_I32_VOP3A, Modified, SA, SB
    <2>6. /\ v' = InTurn(j).v
          /\ Registers \in RegisterState
      BY <2>1, <2>2, DirectStep
    <2>7. v'[j.d][l] = LaneValue(j, s, l)
      BY <1>1, <2>1, <2>2, <2>3, <2>6, WordLanes
    <2>8. LaneValue(j, s, l) = IF BitOf(s[i.d], l) = 1 THEN s[i.x] ELSE s[i.y]
      BY <1>3, <2>2 DEF LaneValue, V_CNDMASK_B32_VOP3A
    <2> QED
      BY <2>4, <2>5, <2>7, <2>8 DEF Flag
  <1> QED
    BY <1>1, <1>2, <1>3 DEF SelectEffect, SameSources, A, B, Held, SA, SB

LEMMA SecondProduct ==
    ASSUME ProgramFits, TypeOK, CollectedEffect, Next
    PROVE  ProductEffect'
  <1> DEFINE i == code[1]
             j == code[2]
  <1>1. collect' = collect /\ active' = active /\ code' = code /\ orig' = orig /\ active \subseteq Lanes
    BY SecondRan
  <1>2. ASSUME NEW l \in active, NEW op \in {"V_MULHI_I32", "V_MULHI_U32"}, collect,
               RanBoth("V_MULLO_I32", op)', SameSources, j.d # i.d
        PROVE  /\ v'[i.d][l] = V_MULLO_I32(A(l), B(l))
               /\ v'[j.d][l] = IF op = "V_MULHI_I32" THEN V_MULHI_I32(A(l), B(l))
                                                     ELSE V_MULHI_U32(A(l), B(l))
    <2>1. /\ pc = 2 /\ code[pc] = j /\ i.op = "V_MULLO_I32" /\ j.op = op
          /\ RegistersExist(i) /\ l \in Lanes
      BY <1>1, <1>2, SecondRan
    <2>2. /\ i.op \in VOP2Ops /\ i.op \notin WideSrc0 /\ i.d \in 0..MaxV
          /\ j.op \in VOP2Ops /\ j.op \notin WideDst /\ j.op \notin WideSrc0
      BY <1>2, <2>1 DEF WideSrc0, WideDst, VOP2Ops, RegistersExist, VectorDst, IsVector
    <2>3. A(l) \in Word /\ B(l) \in Word
      BY <2>1, <2>2, HeldTypes
    <2>4. v[i.d][l] = Wrap(VOP2(i.op, First0(l), B(l), BitOf(orig.s[Vcc], l)))
      BY <1>2, <2>1, <2>2 DEF CollectedEffect, Stored, Result
    <2>5. VOP2(i.op, First0(l), B(l), BitOf(orig.s[Vcc], l)) = V_MULLO_I32(A(l), B(l))
      BY <2>1, <2>2 DEF VOP2, First0
    <2>6. Src0(j, l) = A(l) /\ Src1(j, l) = B(l)
      BY <1>2, <2>1, SecondOperands
    <2>7. v'[j.d][l] = Wrap(Values2(j)[l]) /\ v'[i.d][l] = v[i.d][l]
      BY <1>2, <2>1, <2>2, CollectedStep DEF StoredIn
    <2>8. Values2(j)[l] = IF op = "V_MULHI_I32" THEN V_MULHI_I32(A(l), B(l))
                                                ELSE V_MULHI_U32(A(l), B(l))
      BY <1>2, <2>1, <2>6 DEF Values2, VOP2
    <2>9. V_MULLO_I32(A(l), B(l)) \in Word /\ V_MULHI_I32(A(l), B(l)) \in Word
          /\ V_MULHI_U32(A(l), B(l)) \in Word
      <3>1. \A x \in Int : Wrap(x) \in Word
        BY WrapFacts
      <3>2. Signed(A(l)) * Signed(B(l)) \in Int
        BY <2>3, SignedType
      <3> DEFINE x == Sext(A(l), W)
                 y == Sext(B(l), W)
      <3>3. x \in Int /\ y \in Int
        BY <2>3, SextType, WordInWide, WordSize
      <3> HIDE DEF x, y
      <3>4. WideWrap(x * y) \in WideWord
        BY <3>3, WideWrapFacts
      <3>5. V_MULHI_I32(A(l), B(l)) \in Word
        BY <3>4, WideParts DEF V_MULHI_I32, x, y
      <3> QED
        BY <2>3, <3>1, <3>2, <3>5, HighProductType DEF V_MULLO_I32
    <2>10. \A x \in Word : Wrap(x) = x
      BY WrapFacts, WordInWide
    <2> QED
      BY <2>4, <2>5, <2>7, <2>8, <2>9, <2>10
  <1> QED
    BY ZenonT(30), <1>1, <1>2 DEF ProductEffect, Result, SameSources, A, B, Held

LEMMA SecondChop ==
    ASSUME ProgramFits, TypeOK, CollectedEffect, Next
    PROVE  ChopEffect'
  <1> DEFINE i == code[1]
             j == code[2]
  <1>1. collect' = collect /\ active' = active /\ code' = code /\ orig' = orig /\ active \subseteq Lanes
    BY SecondRan
  <1>2. ASSUME NEW l \in active, collect, RanBoth("V_CHOP_B16_B32", "V_SEXT_I32_I16")',
               j.src.kind = "v", j.src.n = i.d
        PROVE  v'[j.d][l] = Wrap(Sext(Chop(B(l), W \div 2), W \div 2))
    <2>1. /\ pc = 2 /\ code[pc] = j /\ i.op = "V_CHOP_B16_B32" /\ j.op = "V_SEXT_I32_I16"
          /\ RegistersExist(i) /\ l \in Lanes
      BY <1>1, <1>2, SecondRan
    <2>2. i.op \in VOP1Ops /\ j.op \in VOP1Ops /\ i.d \in 0..MaxV
      BY <2>1 DEF VOP1Ops, RegistersExist, VectorDst, IsVector
    <2>3. B(l) \in Word
      BY <2>1, <2>2, HeldTypes
    <2>4. v[i.d][l] = Wrap(Chop(B(l), W \div 2))
      BY <1>2, <2>1, <2>2 DEF CollectedEffect, Stored, Result, VOP1, Extended
    <2>5. Wrap(Chop(B(l), W \div 2)) = Chop(B(l), W \div 2)
      <3> DEFINE h == W \div 2
      <3>1. h \in 0..2*W /\ h \in Nat /\ W \in Nat /\ h <= W /\ W <= 2 * W
        BY Widths
      <3> HIDE DEF h
      <3>2. B(l) % 2^h \in 0..2^h-1 /\ 2^h \in Nat /\ 2^W \in Nat /\ 2^h <= 2^W
        BY <2>3, <3>1, ChopType, WordInWide, Powers, PowerMonotone, WordSize
      <3>3. B(l) % 2^h \in Word
        BY <3>2 DEF Word
      <3>4. Wrap(B(l) % 2^h) = B(l) % 2^h
        BY <3>3, WrapFacts, WordInWide
      <3> QED
        BY <3>4 DEF Chop, h
    <2>6. Source(j.src, 0, l) = v[i.d][l]
      <3>1. j.src.n + 0 = i.d
        BY <1>2, <2>2
      <3> QED
        BY <1>2, <3>1 DEF Source, Vector
    <2>7. v'[j.d][l] = Wrap(Values1(j)[l])
      BY <1>2, <2>1, <2>2, CollectedStep DEF StoredIn
    <2>8. Values1(j)[l] = Sext(v[i.d][l], W \div 2)
      BY <2>1, <2>6 DEF Values1, VOP1, Extended
    <2> QED
      BY <2>4, <2>5, <2>7, <2>8
  <1> QED
    BY <1>1, <1>2 DEF ChopEffect, B, Held
-----------------------------------------------------------------------------
(* The inductive invariant: a program that fits, words in all registers,   *)
(* the inactive lanes as they were, and the effects of the first two       *)
(* instructions.                                                           *)
IInv ==
    /\ ProgramFits /\ TypeOK /\ OthersKept /\ Started
    /\ CollectedEffect /\ DirectEffect /\ SecondEffect

LEMMA InitInv == Init => IInv
  <1> SUFFICES ASSUME Init PROVE IInv
    OBVIOUS
  <1>1. PICK p \in Programs : /\ collect = p.collect /\ active = p.active /\ code = p.code
                              /\ orig \in Contents[p.from]
    BY DEF Init
  <1>2. v = orig.v /\ s = orig.s /\ pc = 1 /\ aborted = FALSE
    BY DEF Init
  <1>3. ProgramFits
    BY <1>1, ProgramAssumption DEF ProgramFits
  <1>4. TypeOK
    <2>1. orig.v \in [0..MaxV -> [Lanes -> Word]] /\ orig.s \in [0..MaxS -> Word] /\ Len(code) \in Nat
      BY <1>3 DEF ProgramFits, RegisterState
    <2>2. pc \in 1..Len(code)+1
      BY <1>2, <2>1
    <2>3. aborted \in BOOLEAN
      BY <1>2
    <2> QED
      BY <1>2, <2>1, <2>2, <2>3 DEF TypeOK
  <1>5. OthersKept /\ Started
    BY <1>2 DEF OthersKept, Started
  <1>6. CollectedEffect /\ DirectEffect /\ SecondEffect
    BY <1>2 DEF CollectedEffect, DirectEffect, SecondEffect, ChainEffect, SelectEffect, ProductEffect,
                ChopEffect, RanBoth
  <1> QED
    BY <1>3, <1>4, <1>5, <1>6 DEF IInv

LEMMA NextInv == IInv /\ [Next]_vars => IInv'
  <1> SUFFICES ASSUME IInv, [Next]_vars PROVE IInv'
    OBVIOUS
  <1>1. CASE Next
    <2>1. ProgramFits /\ TypeOK /\ OthersKept /\ Started /\ CollectedEffect /\ DirectEffect
      BY DEF IInv
    <2>2. /\ pc' = pc + 1 /\ collect' = collect /\ active' = active /\ code' = code /\ orig' = orig
          /\ pc \in 1..Len(code) /\ Len(code) \in Nat
      BY <1>1, <2>1 DEF Next, Running, Advance, TypeOK, ProgramFits
    <2>3. Keeps
      BY <1>1, <2>1, StepKeeps
    <2>4. ProgramFits'
      BY <2>1, <2>2 DEF ProgramFits
    <2>5. TypeOK'
      BY <2>2, <2>3 DEF TypeOK, Keeps
    <2>6. OthersKept'
      BY <2>1, <2>2, <2>3 DEF OthersKept, Keeps
    <2>7. Started'
      BY <2>2 DEF Started
    <2>8. CollectedEffect' /\ DirectEffect'
      BY <1>1, <2>1, FirstCollected, FirstDirect
    <2>9. SecondEffect'
      BY <1>1, <2>1, SecondChain, SecondSelect, SecondProduct, SecondChop DEF SecondEffect
    <2> QED
      BY <2>4, <2>5, <2>6, <2>7, <2>8, <2>9 DEF IInv
  <1>2. CASE UNCHANGED vars
    <2>1. collect' = collect /\ active' = active /\ code' = code /\ orig' = orig /\ pc' = pc
          /\ v' = v /\ s' = s /\ aborted' = aborted
      BY <1>2 DEF vars
    <2>2. ProgramFits' /\ TypeOK' /\ OthersKept' /\ Started'
      BY <2>1 DEF IInv, ProgramFits, TypeOK, OthersKept, Started
    <2>3. CollectedEffect'
      <3>1. CollectedEffect
        BY DEF IInv
      <3>2. \A l : A(l)' = A(l) /\ B(l)' = B(l) /\ First0(l)' = First0(l)
        BY <2>1 DEF First0, A, B, Held
      <3>3. \A x, l : StoredIn(code[1], v, x, l) <=> Stored(x, l)
        BY DEF Stored, StoredIn, Result
      <3>4. \A l : /\ Stored(VOP1(code[1].op, B(l)), l)' <=> StoredIn(code[1], v, VOP1(code[1].op, B(l)), l)
                   /\ Stored(VOP2(code[1].op, First0(l), B(l), BitOf(orig.s[Vcc], l)), l)' <=>
                         StoredIn(code[1], v, VOP2(code[1].op, First0(l), B(l), BitOf(orig.s[Vcc], l)), l)
                   /\ Stored(WithCarry(code[1].op, A(l), B(l))[1], l)' <=>
                         StoredIn(code[1], v, WithCarry(code[1].op, A(l), B(l))[1], l)
        BY <2>1, <3>2 DEF Stored, StoredIn, Result
      <3> QED
        BY <2>1, <3>1, <3>2, <3>3, <3>4 DEF CollectedEffect
    <2>4. DirectEffect'
      BY <2>1 DEF IInv, DirectEffect, Result, Truth, Written, LaneValue, PairValue
    <2>5. SecondEffect'
      <3>1. ChainEffect /\ SelectEffect /\ ProductEffect /\ ChopEffect
        BY DEF IInv, SecondEffect
      <3>2. ChainEffect'
        BY <2>1, <3>1 DEF ChainEffect, RanBoth, Result, A, B, Held
      <3>3. SelectEffect'
        BY <2>1, <3>1 DEF SelectEffect, RanBoth, SameSources, A, B, Held, SA, SB
      <3>4. ProductEffect'
        BY ZenonT(30), <2>1, <3>1 DEF ProductEffect, RanBoth, SameSources, Result, A, B, Held
      <3>5. ChopEffect'
        BY <2>1, <3>1 DEF ChopEffect, RanBoth, B, Held
      <3> QED
        BY <3>2, <3>3, <3>4, <3>5 DEF SecondEffect
    <2> QED
      BY <2>2, <2>3, <2>4, <2>5 DEF IInv
  <1> QED
    BY <1>1, <1>2

(* IInv holds in every execution of every program that fits.               *)
THEOREM Invariance == Spec => []IInv
  BY InitInv, NextInv, PTL DEF Spec

(* No vector instruction touches a register or a mask bit of an inactive   *)
(* lane: write-back and the lane loop respect the active mask.             *)
THEOREM InactiveKept == Spec => []OthersKept
  <1>1. IInv => OthersKept
    BY DEF IInv
  <1> QED
    BY <1>1, Invariance, PTL
-----------------------------------------------------------------------------
(* From the effects to what arithmetic says.                               *)
LEMMA RanExist ==
    ASSUME ProgramFits, TypeOK
    PROVE  /\ active \subseteq Lanes
           /\ pc = 2 => RegistersExist(code[1])
           /\ pc = 3 => RegistersExist(code[1]) /\ RegistersExist(code[2])
  <1>1. pc \in 1..Len(code)+1 /\ Len(code) \in Nat
    BY DEF ProgramFits, TypeOK
  <1>2. (pc = 2 => 1 \in 1..Len(code)) /\ (pc = 3 => 1 \in 1..Len(code) /\ 2 \in 1..Len(code))
    BY <1>1
  <1> QED
    BY <1>2 DEF ProgramFits

(* The carry of the low words and the sum of the high words.               *)
LEMMA ChainSum ==
    ASSUME NEW a \in Word, NEW b \in Word, NEW p \in Word, NEW q \in Word,
           NEW c, c = (a + b) \div 2^W
    PROVE  Wide(a, p) + Wide(b, q) =
              Wide(Wrap(a + b), Wrap(p + q + c)) + 2^(2*W) * ((p + q + c) \div 2^W)
  <1> DEFINE m == 2^W
             lo == Wrap(a + b)
             hi == Wrap(p + q + c)
             k == (p + q + c) \div m
  <1>1. a \in Int /\ b \in Int /\ p \in Int /\ q \in Int /\ m \in Int /\ 2^(2*W) = m * m
    BY WordInWide, WordSize, WideSize
  <1>2. a + b + 0 = a + b
    BY <1>1
  <1>3. lo \in Int /\ c \in {0, 1} /\ lo + m * c = a + b
    <2>1. 0 \in {0, 1}
      OBVIOUS
    <2> QED
      BY <1>2, <2>1, AddFacts, WordInWide
  <1>4. hi \in Int /\ k \in {0, 1} /\ hi + m * k = p + q + c
    BY <1>3, AddFacts, WordInWide
  <1> HIDE DEF m, lo, hi, k
  <1>5. a + m * p + (b + m * q) = lo + m * hi + (m * m) * k
    <2>1. m * hi + m * (m * k) = m * p + m * q + m * c
      <3>1. m * (hi + m * k) = m * hi + m * (m * k)
        BY <1>1, <1>4
      <3>2. m * (p + q + c) = m * p + m * q + m * c
        BY <1>1, <1>3
      <3> QED
        BY <1>4, <3>1, <3>2
    <2>2. m * (m * k) = (m * m) * k
      BY <1>1, <1>4
    <2>3. m * hi \in Int /\ m * p \in Int /\ m * q \in Int /\ m * c \in Int /\ (m * m) * k \in Int
      BY <1>1, <1>3, <1>4
    <2> DEFINE mh == m * hi
               mp == m * p
               mq == m * q
               mc == m * c
               mk == (m * m) * k
    <2>4. /\ mh \in Int /\ mp \in Int /\ mq \in Int /\ mc \in Int /\ mk \in Int
          /\ mh + mk = mp + mq + mc /\ lo + mc = a + b
          /\ lo \in Int /\ a \in Int /\ b \in Int
      BY <1>1, <1>3, <2>1, <2>2, <2>3
    <2> HIDE DEF mh, mp, mq, mc, mk
    <2>5. a + mp + (b + mq) = lo + mh + mk
      BY <2>4
    <2> QED
      BY <2>5 DEF mh, mp, mq, mk
  <1> QED
    BY <1>1, <1>5 DEF Wide, m, lo, hi, k

LEMMA CarriesHold == IInv => CarriesExact
  <1> SUFFICES ASSUME IInv PROVE CarriesExact
    OBVIOUS
  <1>1. ProgramFits /\ TypeOK /\ CollectedEffect /\ ChainEffect
    BY DEF IInv, SecondEffect
  <1>2. active \subseteq Lanes
    BY <1>1, RanExist
  <1>3. CarryChainExact
    <2> DEFINE i == code[1]
               j == code[2]
    <2> SUFFICES ASSUME collect, RanBoth("V_ADDCO_U32", "V_ADDC_U32"),
                        j.z = Vcc, j.x \notin {Vcc, j.sd}, i.d \notin {j.y, j.d}, NEW l \in active
                 PROVE  Wide(A(l), orig.s[j.x]) + Wide(B(l), orig.v[j.y][l]) =
                           Wide(Result(l), v[j.d][l]) + 2^(2*W) * BitOf(s[j.sd], l)
      BY DEF CarryChainExact
    <2>1. i.op = "V_ADDCO_U32" /\ j.op = "V_ADDC_U32" /\ RegistersExist(i) /\ RegistersExist(j)
      BY <1>1, RanExist DEF RanBoth
    <2>2. i.op \in CarryOps /\ j.x \in 0..MaxS /\ j.y \in 0..MaxV
      BY <2>1 DEF CarryOps, RegistersExist, IsScalar, IsVector
    <2>3. A(l) \in Word /\ B(l) \in Word
      BY <1>1, <1>2, <2>1, <2>2, HeldTypes
    <2>4. orig.s[j.x] \in Word /\ orig.v[j.y][l] \in Word
      <3>1. orig.v \in [0..MaxV -> [Lanes -> Word]] /\ orig.s \in [0..MaxS -> Word]
        BY <1>1 DEF ProgramFits, RegisterState
      <3> QED
        BY ZenonT(30), <1>2, <2>2, <3>1
    <2> DEFINE c == (A(l) + B(l)) \div 2^W
               sum == orig.s[j.x] + orig.v[j.y][l] + c
    <2>5. Result(l) = Wrap(A(l) + B(l)) /\ v[j.d][l] = Wrap(sum) /\ BitOf(s[j.sd], l) = sum \div 2^W
      BY <1>1 DEF ChainEffect
    <2> QED
      BY <2>3, <2>4, <2>5, ChainSum
  <1>4. BorrowExact
    <2>1. ASSUME NEW l \in active, NEW op \in {"V_SUB_U32", "V_SUBREV_U32"}, collect, Ran(op)
          PROVE  /\ A(l) \in Word /\ B(l) \in Word
                 /\ Result(l) = Wrap(WithCarry(op, A(l), B(l))[1])
                 /\ BitOf(s[Vcc], l) = WithCarry(op, A(l), B(l))[2]
      <3>1. pc = 2 /\ code[1].op = op /\ RegistersExist(code[1]) /\ l \in Lanes
        BY <1>1, <1>2, <2>1, RanExist DEF Ran
      <3>2. op \in CarryOps /\ op \in CarryOps \ WideSrc1
        BY <2>1 DEF CarryOps, WideSrc1
      <3> QED
        BY <1>1, <2>1, <3>1, <3>2, HeldTypes DEF CollectedEffect, Stored
    <2>2. ASSUME NEW a \in Word, NEW b \in Word
          PROVE  Wrap(Wrap(a - b)) - 2^W * Flag(b > a) = a - b
      <3>1. Wrap(a - b) \in Word /\ Wrap(a - b) - 2^W * Flag(b > a) = a - b
        BY SubFacts
      <3> QED
        BY <3>1, WrapFacts, WordInWide
    <2>3. ASSUME NEW l \in active, collect, Ran("V_SUB_U32")
          PROVE  Result(l) - 2^W * BitOf(s[Vcc], l) = A(l) - B(l)
      <3>1. /\ A(l) \in Word /\ B(l) \in Word
            /\ Result(l) = Wrap(WithCarry("V_SUB_U32", A(l), B(l))[1])
            /\ BitOf(s[Vcc], l) = WithCarry("V_SUB_U32", A(l), B(l))[2]
        BY <2>1, <2>3
      <3>2. Result(l) = Wrap(Wrap(A(l) - B(l))) /\ BitOf(s[Vcc], l) = Flag(B(l) > A(l))
        BY <3>1 DEF WithCarry, V_SUB_U32
      <3> QED
        BY <2>2, <3>1, <3>2
    <2>4. ASSUME NEW l \in active, collect, Ran("V_SUBREV_U32")
          PROVE  Result(l) - 2^W * BitOf(s[Vcc], l) = B(l) - A(l)
      <3>1. /\ A(l) \in Word /\ B(l) \in Word
            /\ Result(l) = Wrap(WithCarry("V_SUBREV_U32", A(l), B(l))[1])
            /\ BitOf(s[Vcc], l) = WithCarry("V_SUBREV_U32", A(l), B(l))[2]
        BY <2>1, <2>4
      <3>2. Result(l) = Wrap(Wrap(B(l) - A(l))) /\ BitOf(s[Vcc], l) = Flag(A(l) > B(l))
        BY <3>1 DEF WithCarry, V_SUBREV_U32
      <3> QED
        BY <2>2, <3>1, <3>2
    <2> QED
      BY <2>3, <2>4 DEF BorrowExact
  <1> QED
    BY <1>3, <1>4 DEF CarriesExact

(* Carries and borrows go from lane to lane's bit and on to the next       *)
(* instruction without loss, whatever registers the two instructions name. *)
THEOREM Carries == Spec => []CarriesExact
  BY CarriesHold, Invariance, PTL
-----------------------------------------------------------------------------
(* The results of single handlers.  The selections.                        *)
LEMMA MaxHolds == IInv => SelectsMax
  <1> SUFFICES ASSUME IInv PROVE SelectsMax
    OBVIOUS
  <1>1. ProgramFits /\ TypeOK /\ CollectedEffect /\ SelectEffect
    BY DEF IInv, SecondEffect
  <1>2. active \subseteq Lanes
    BY <1>1, RanExist
  <1>3. ASSUME NEW l \in active, collect, RanBoth("V_SUB_U32", "V_CNDMASK_B32"), SameSources
        PROVE  v[code[2].d][l] = Larger(A(l), B(l))
    <2>1. code[1].op = "V_SUB_U32" /\ RegistersExist(code[1]) /\ l \in Lanes
      BY <1>1, <1>2, <1>3, RanExist DEF RanBoth
    <2>2. code[1].op \in CarryOps
      BY <2>1 DEF CarryOps
    <2>3. A(l) \in Int /\ B(l) \in Int
      BY <1>1, <2>1, <2>2, HeldTypes, WordInWide
    <2>4. v[code[2].d][l] = IF B(l) > A(l) THEN B(l) ELSE A(l)
      BY <1>1, <1>3 DEF SelectEffect
    <2> QED
      BY <2>3, <2>4 DEF Larger
  <1>4. ASSUME NEW l \in active, RanBoth("V_CMP_GT_I32_VOP3A", "V_CNDMASK_B32_VOP3A"),
               code[1].mods = {}, code[2].mods = {}, code[1].d \notin {code[1].x, code[1].y},
               code[2].x = code[1].y, code[2].y = code[1].x, code[2].z = code[1].d
        PROVE  Signed(v[code[2].d][l]) = Larger(Signed(SA), Signed(SB))
    <2>1. code[1].op = "V_CMP_GT_I32_VOP3A" /\ RegistersExist(code[1])
      BY <1>1, <1>4, RanExist DEF RanBoth
    <2>2. code[1].op \in Direct
      BY <2>1 DEF Direct, VOP3AOps, Signed3AOps, Unimplemented
    <2>3. code[1].x \in 0..MaxS /\ code[1].y \in 0..MaxS
      BY <2>1, <2>2 DEF RegistersExist, IsScalar
    <2>4. orig.s \in [0..MaxS -> Word]
      BY <1>1 DEF ProgramFits, RegisterState
    <2>5. Signed(SA) \in Int /\ Signed(SB) \in Int
      BY <2>3, <2>4, SignedType DEF SA, SB
    <2>6. v[code[2].d][l] = IF Signed(SA) > Signed(SB) THEN SA ELSE SB
      BY <1>1, <1>4 DEF SelectEffect
    <2> QED
      BY <2>5, <2>6 DEF Larger
  <1>5. ASSUME NEW l \in active, collect, Ran("V_MAX_I32")
        PROVE  Signed(Result(l)) = Larger(Signed(A(l)), Signed(B(l)))
    <2>1. code[1].op = "V_MAX_I32" /\ RegistersExist(code[1]) /\ l \in Lanes /\ pc = 2
      BY <1>1, <1>2, <1>5, RanExist DEF Ran
    <2>2. code[1].op \in VOP2Ops /\ code[1].op \notin WideSrc0
      BY <2>1 DEF VOP2Ops, WideSrc0
    <2>3. A(l) \in Word /\ B(l) \in Word
      BY <1>1, <2>1, <2>2, HeldTypes
    <2>4. Result(l) = Wrap(VOP2(code[1].op, First0(l), B(l), BitOf(orig.s[Vcc], l)))
      BY <1>1, <1>5, <2>1, <2>2 DEF CollectedEffect, Stored
    <2>5. VOP2(code[1].op, First0(l), B(l), BitOf(orig.s[Vcc], l)) = V_MAX_I32(A(l), B(l))
      BY <2>1, <2>2 DEF VOP2, First0
    <2>6. V_MAX_I32(A(l), B(l)) \in Word
      BY <2>3 DEF V_MAX_I32
    <2>7. Result(l) = V_MAX_I32(A(l), B(l))
      BY <2>4, <2>5, <2>6, WrapFacts, WordInWide
    <2>8. Signed(A(l)) \in Int /\ Signed(B(l)) \in Int
      BY <2>3, SignedType
    <2> QED
      BY <2>7, <2>8 DEF V_MAX_I32, Larger
  <1> QED
    BY <1>3, <1>4, <1>5 DEF SelectsMax

(* What a VOP3A instruction with three scalar sources has left.            *)
LEMMA RanWords ==
    ASSUME IInv, NEW op \in Words3A \cup Comparisons \cup {"V_LSHR_B64"}, Ran(op)
    PROVE  /\ SA \in Word /\ SB \in Word /\ SC \in Word
           /\ op \in Arithmetic3AOps => \A l \in active : Result(l) = Arithmetic3A(op, SA, SB, SC)
           /\ op = "V_LSHR_B64" => orig.s[code[1].x + 1] \in Word
           /\ RegistersExist(code[1])
  <1>1. ProgramFits /\ TypeOK /\ DirectEffect
    BY DEF IInv
  <1>2. pc = 2 /\ ~aborted /\ code[1].op = op /\ RegistersExist(code[1])
    BY <1>1, RanExist DEF Ran
  <1>3. op \in Direct
    BY DEF Direct, VOP3AOps, Comparisons, Words3A, Unimplemented, Signed3AOps, Unsigned3AOps,
           Arithmetic3AOps
  <1>4. /\ code[1].x \in 0..MaxS /\ code[1].y \in 0..MaxS /\ code[1].z \in 0..MaxS
        /\ op = "V_LSHR_B64" => code[1].x + 1 \in 0..MaxS
    BY <1>2, <1>3 DEF RegistersExist, IsScalar
  <1>5. orig.s \in [0..MaxS -> Word]
    BY <1>1 DEF ProgramFits, RegisterState
  <1>6. SA \in Word /\ SB \in Word /\ SC \in Word /\ (op = "V_LSHR_B64" => orig.s[code[1].x + 1] \in Word)
    BY <1>4, <1>5 DEF SA, SB, SC
  <1>7. op \in Arithmetic3AOps => \A l \in active : Result(l) = Arithmetic3A(op, SA, SB, SC)
    BY <1>1, <1>2 DEF DirectEffect, LaneValue, Words3A, SA, SB, SC
  <1> QED
    BY <1>2, <1>6, <1>7

(* Shifts of words and of pairs, bit by bit.                               *)
LEMMA WordShifts ==
    ASSUME NEW a \in Word, NEW n \in 0..W-1
    PROVE  /\ a \div 2^n \in Word /\ Wrap(Signed(a) \div 2^n) \in Word /\ Wrap(a * 2^n) \in Word
           /\ \A i \in 0..W-1 :
                 /\ BitOf(a \div 2^n, i) = IF i + n < W THEN BitOf(a, i + n) ELSE 0
                 /\ BitOf(Wrap(Signed(a) \div 2^n), i) = BitOf(a, Smaller(i + n, W - 1))
                 /\ BitOf(Wrap(a * 2^n), i) = IF i < n THEN 0 ELSE BitOf(a, i - n)
  <1>1. /\ a \div 2^n \in Word
        /\ \A i \in 0..W-1 : BitOf(a \div 2^n, i) = IF i + n < W THEN BitOf(a, i + n) ELSE 0
    BY One!LogicalShift, Assumed DEF One!Word, Word, One!BitOf, BitOf
  <1>2. /\ Wrap(Signed(a) \div 2^n) \in Word
        /\ \A i \in 0..W-1 : BitOf(Wrap(Signed(a) \div 2^n), i) = BitOf(a, Smaller(i + n, W - 1))
    BY One!ArithmeticShift, Assumed DEF One!Word, Word, One!BitOf, BitOf, One!Wrap, Wrap,
       One!Signed, Signed, One!Negative, Negative, One!Smaller, Smaller
  <1>3. /\ Wrap(a * 2^n) \in Word
        /\ \A i \in 0..W-1 : BitOf(Wrap(a * 2^n), i) = IF i < n THEN 0 ELSE BitOf(a, i - n)
    BY One!LeftShift, Assumed DEF One!Word, Word, One!BitOf, BitOf, One!Wrap, Wrap
  <1> QED
    BY <1>1, <1>2, <1>3

LEMMA PairShifts ==
    ASSUME NEW x \in WideWord, NEW n \in 0..2*W-1
    PROVE  \A i \in 0..2*W-1 :
              /\ BitOf(x \div 2^n, i) = IF i + n < 2 * W THEN BitOf(x, i + n) ELSE 0
              /\ BitOf(WideWrap(WideSigned(x) \div 2^n), i) = BitOf(x, Smaller(i + n, 2 * W - 1))
              /\ BitOf(WideWrap(x * 2^n), i) = IF i < n THEN 0 ELSE BitOf(x, i - n)
  <1>1. \A i \in 0..2*W-1 : BitOf(x \div 2^n, i) = IF i + n < 2 * W THEN BitOf(x, i + n) ELSE 0
    BY Two!LogicalShift, Assumed DEF Two!Word, WideWord, Two!BitOf, BitOf
  <1>2. \A i \in 0..2*W-1 :
           BitOf(WideWrap(WideSigned(x) \div 2^n), i) = BitOf(x, Smaller(i + n, 2 * W - 1))
    BY Two!ArithmeticShift, Assumed DEF Two!Word, WideWord, Two!BitOf, BitOf, Two!Wrap, WideWrap,
       Two!Signed, WideSigned, Two!Negative, Two!Smaller, Smaller
  <1>3. \A i \in 0..2*W-1 : BitOf(WideWrap(x * 2^n), i) = IF i < n THEN 0 ELSE BitOf(x, i - n)
    BY Two!LeftShift, Assumed DEF Two!Word, WideWord, Two!BitOf, BitOf, Two!Wrap, WideWrap
  <1> QED
    BY <1>1, <1>2, <1>3

LEMMA InvertFacts ==
    ASSUME NEW a \in Word
    PROVE  Invert(a) \in Word /\ \A i \in 0..W-1 : BitOf(Invert(a), i) = 1 - BitOf(a, i)
  BY One!InvertFacts, Assumed DEF One!Word, Word, One!BitOf, BitOf, One!Invert, Invert

(* V_BFE_U32: a field without its sign.                                    *)
LEMMA FieldBits ==
    ASSUME NEW a \in Word, NEW n \in 0..W-1, NEW w \in 0..W-1, NEW i \in 0..W-1
    PROVE  BitOf((a \div 2^n) % 2^w, i) = IF i < Smaller(w, W - n) THEN BitOf(a, n + i) ELSE 0
  <1> DEFINE x == a \div 2^n
             y == x % 2^w
             q == x \div 2^w
  <1>1. W \in Nat /\ w \in 0..2*W /\ i \in 0..2*W
    BY WordSize
  <1>2. x \in Int /\ BitOf(x, i) = IF i + n < W THEN BitOf(a, i + n) ELSE 0
    BY WordShifts, WordInWide
  <1>3. 2^w \in Nat \ {0}
    BY <1>1, Powers
  <1> HIDE DEF x
  <1>4. y \in 0..2^w-1 /\ q \in Int /\ x = q * 2^w + y
    BY <1>2, <1>3, DivMod
  <1> HIDE DEF y, q
  <1>5. CASE i < w
    <2>1. BitOf(y + q * 2^w, i) = BitOf(y, i)
      BY <1>1, <1>3, <1>4, <1>5, BitBelow
    <2>2. q * 2^w \in Int /\ y \in Int
      BY <1>3, <1>4
    <2>3. y + q * 2^w = x
      BY <1>4, <2>2
    <2>4. i + n = n + i /\ (i + n < W <=> i < W - n)
      BY <1>1
    <2>5. i < Smaller(w, W - n) <=> i < W - n
      BY <1>1, <1>5 DEF Smaller
    <2> QED
      BY <1>2, <2>1, <2>3, <2>4, <2>5 DEF x, y
  <1>6. CASE ~(i < w)
    <2>1. y \in -(2^w)..2^w-1 /\ ~(y < 0) /\ i \in w..2*W
      BY <1>1, <1>3, <1>4, <1>6
    <2>2. BitOf(y, i) = 0
      BY <1>1, <2>1, BitAbove
    <2>3. ~(i < Smaller(w, W - n))
      BY <1>1, <1>6 DEF Smaller
    <2> QED
      BY <2>2, <2>3 DEF x, y
  <1> QED
    BY <1>5, <1>6

(* V_BFE_I32: a field with its sign.                                       *)
SignedField(a, n, w, i) ==
    CASE w = 0 -> 0
      [] w # 0 /\ i < w -> BitOf(a, n + i)
      [] OTHER -> BitOf(a, n + w - 1)

LEMMA SignedFieldBits ==
    ASSUME NEW a \in Word, NEW b \in Word, NEW c \in Word, NEW i \in 0..W-1
    PROVE  BitOf(V_BFE_I32(a, b, c), i) =
              SignedField(a, Shift(b), Smaller(Shift(c), W - Shift(b)), i)
  <1> DEFINE n == Shift(b)
             w == Shift(c)
             m == Smaller(w, W - n)
  <1>1. W \in Nat /\ n \in 0..W-1 /\ w \in 0..W-1
    BY WordSize, WordInWide, ShiftType
  <1>2. V_BFE_I32(a, b, c) = IF w = 0 THEN 0
                             ELSE IF n + w < W THEN Wrap(Signed(Wrap(a * 2^(W - n - w))) \div 2^(W - w))
                             ELSE Wrap(Signed(a) \div 2^n)
    BY DEF V_BFE_I32
  <1> HIDE DEF n, w
  <1>3. CASE w = 0
    <2>1. m = 0
      BY <1>1, <1>3 DEF Smaller
    <2>2. BitOf(0, i) = 0
      <3> DEFINE e == 2^i
      <3>1. e \in Nat \ {0}
        BY <1>1, Powers
      <3> HIDE DEF e
      <3>2. 0 * e <= 0 /\ 0 < 0 * e + e
        BY <3>1
      <3>3. 0 \div e = 0
        BY <3>1, <3>2, DivUnique
      <3>4. BitOf(0, i) = (0 \div e) % 2
        BY DEF BitOf, e
      <3>5. \A z \in Int : z = 0 => z % 2 = 0
        OBVIOUS
      <3> QED
        BY <3>3, <3>4, <3>5
    <2> QED
      BY <1>2, <1>3, <2>1, <2>2 DEF SignedField, n, w
  <1>4. CASE w # 0 /\ n + w < W
    <2> DEFINE k == W - n - w
               u == Wrap(a * 2^k)
               r == Wrap(Signed(u) \div 2^(W - w))
    <2>1. k \in 0..W-1 /\ W - w \in 0..W-1 /\ m = w
      BY <1>1, <1>4 DEF Smaller
    <2>2. u \in Word /\ \A j \in 0..W-1 : BitOf(u, j) = IF j < k THEN 0 ELSE BitOf(a, j - k)
      BY ZenonT(30), <2>1, WordShifts
    <2>3. BitOf(r, i) = BitOf(u, Smaller(i + (W - w), W - 1))
      <3> HIDE DEF u
      <3> QED
        BY <2>1, <2>2, WordShifts
    <2>4. V_BFE_I32(a, b, c) = r
      BY <1>2, <1>4
    <2> HIDE DEF u, r
    <2> DEFINE j == Smaller(i + (W - w), W - 1)
    <2>5. j \in 0..W-1 /\ ~(j < k) /\ j - k = IF i < w THEN n + i ELSE n + w - 1
      BY <1>1, <1>4, <2>1 DEF Smaller
    <2> HIDE DEF j
    <2>6. BitOf(u, j) = BitOf(a, j - k)
      BY <2>2, <2>5
    <2>7. BitOf(r, i) = BitOf(u, j)
      BY <2>3 DEF j
    <2>8. SignedField(a, n, w, i) = BitOf(a, IF i < w THEN n + i ELSE n + w - 1)
      BY <1>4 DEF SignedField
    <2> QED
      BY <2>1, <2>4, <2>5, <2>6, <2>7, <2>8 DEF n, w
  <1>5. CASE w # 0 /\ ~(n + w < W)
    <2>1. V_BFE_I32(a, b, c) = Wrap(Signed(a) \div 2^n)
      BY <1>2, <1>5
    <2>2. BitOf(Wrap(Signed(a) \div 2^n), i) = BitOf(a, Smaller(i + n, W - 1))
      BY <1>1, WordShifts
    <2>3. m = W - n /\ m # 0 /\ Smaller(i + n, W - 1) = IF i < m THEN n + i ELSE n + m - 1
      BY <1>1, <1>5 DEF Smaller
    <2>4. SignedField(a, n, m, i) = BitOf(a, IF i < m THEN n + i ELSE n + m - 1)
      BY <2>3 DEF SignedField
    <2> QED
      BY <2>1, <2>2, <2>3, <2>4 DEF n, w
  <1> QED
    BY <1>3, <1>4, <1>5

LEMMA FieldsHold == IInv => FieldsExact
  <1> SUFFICES ASSUME IInv, NEW l \in active, NEW i \in 0..W-1
               PROVE  /\ Ran("V_BFE_U32") => BitOf(Result(l), i) =
                            IF i < Smaller(Shift(SC), W - Shift(SB)) THEN BitOf(SA, Shift(SB) + i) ELSE 0
                      /\ Ran("V_BFE_I32") =>
                            /\ Shift(SC) = 0 => BitOf(Result(l), i) = 0
                            /\ i < Shift(SC) =>
                                  BitOf(Result(l), i) = BitOf(SA, Smaller(Shift(SB) + i, W - 1))
                      /\ Ran("V_ALIGNBIT_B32") =>
                            BitOf(Result(l), i) = BitOf(Wide(SB, SA), i + Shift(SC))
                      /\ Ran("V_BFI_B32") =>
                            BitOf(Result(l), i) = IF BitOf(SA, i) = 1 THEN BitOf(SB, i) ELSE BitOf(SC, i)
    BY DEF FieldsExact, Shift
  <1>1. ASSUME NEW op \in {"V_BFE_U32", "V_BFE_I32", "V_ALIGNBIT_B32", "V_BFI_B32"}, Ran(op)
        PROVE  /\ SA \in Word /\ SB \in Word /\ SC \in Word
               /\ Result(l) = Arithmetic3A(op, SA, SB, SC)
               /\ Shift(SB) \in 0..W-1 /\ Shift(SC) \in 0..W-1
    <2>1. op \in Arithmetic3AOps /\ op \in Words3A \cup Comparisons \cup {"V_LSHR_B64"}
      BY <1>1 DEF Arithmetic3AOps, Words3A
    <2> QED
      BY <1>1, <2>1, RanWords, ShiftType, WordInWide
  <1>2. ASSUME Ran("V_BFE_U32")
        PROVE  BitOf(Result(l), i) =
                  IF i < Smaller(Shift(SC), W - Shift(SB)) THEN BitOf(SA, Shift(SB) + i) ELSE 0
    <2>1. Result(l) = (SA \div 2^Shift(SB)) % 2^Shift(SC)
      BY <1>1, <1>2 DEF Arithmetic3A, V_BFE_U32
    <2> QED
      BY <1>1, <1>2, <2>1, FieldBits
  <1>3. ASSUME Ran("V_BFE_I32")
        PROVE  /\ Shift(SC) = 0 => BitOf(Result(l), i) = 0
               /\ i < Shift(SC) =>
                     BitOf(Result(l), i) = BitOf(SA, Smaller(Shift(SB) + i, W - 1))
    <2> DEFINE n == Shift(SB)
               c == Shift(SC)
               w == Smaller(c, W - n)
    <2>1. Result(l) = V_BFE_I32(SA, SB, SC)
      BY <1>1, <1>3 DEF Arithmetic3A
    <2>2. BitOf(Result(l), i) = SignedField(SA, n, w, i)
      BY <1>1, <1>3, <2>1, SignedFieldBits
    <2>3. W \in Nat /\ n \in 0..W-1 /\ c \in 0..W-1
      BY <1>1, <1>3, WordSize
    <2> HIDE DEF n, c
    <2>4. ASSUME c = 0 PROVE SignedField(SA, n, w, i) = 0
      <3>1. w = 0
        BY <2>3, <2>4 DEF Smaller
      <3> QED
        BY <3>1 DEF SignedField
    <2>5. ASSUME i < c PROVE SignedField(SA, n, w, i) = BitOf(SA, Smaller(n + i, W - 1))
      <3>1. w # 0 /\ w \in Nat /\ (i < w => Smaller(n + i, W - 1) = n + i)
            /\ (~(i < w) => Smaller(n + i, W - 1) = n + w - 1)
        BY <2>3, <2>5 DEF Smaller
      <3> HIDE DEF w
      <3> QED
        BY <3>1 DEF SignedField
    <2> QED
      BY <2>2, <2>4, <2>5 DEF n, c
  <1>4. ASSUME Ran("V_ALIGNBIT_B32")
        PROVE  BitOf(Result(l), i) = BitOf(Wide(SB, SA), i + Shift(SC))
    <2> DEFINE x == Wide(SB, SA)
               n == Shift(SC)
    <2>1. Result(l) = Wrap(x \div 2^n)
      BY <1>1, <1>4 DEF Arithmetic3A, V_ALIGNBIT_B32
    <2>2. n \in 0..W-1
      BY <1>1, <1>4
    <2>3. x \in Int
      BY <1>1, <1>4, WideFacts, WordInWide
    <2> HIDE DEF x, n
    <2>4. n \in 0..2*W /\ i \in 0..2*W /\ n + i <= 2 * W
      BY <2>2, WordSize
    <2>5. x \div 2^n \in Int
      BY <2>2, <2>3, ShiftedType
    <2> QED
      BY <2>1, <2>3, <2>4, <2>5, WrapFacts, RightBits DEF x, n
  <1>5. ASSUME Ran("V_BFI_B32")
        PROVE  BitOf(Result(l), i) = IF BitOf(SA, i) = 1 THEN BitOf(SB, i) ELSE BitOf(SC, i)
    <2> DEFINE a == SA
               b == SB
               c == SC
               x == BitAnd(a, b)
               y == BitAnd(Invert(a), c)
    <2>1. a \in Word /\ b \in Word /\ c \in Word /\ Result(l) = BitOr(x, y)
      BY <1>1, <1>5 DEF Arithmetic3A, V_BFI_B32
    <2> HIDE DEF a, b, c
    <2>2. Invert(a) \in Word /\ BitOf(Invert(a), i) = 1 - BitOf(a, i)
      BY <2>1, InvertFacts
    <2>3. x \in Word /\ BitOf(x, i) = BitOf(a, i) * BitOf(b, i)
      BY <2>1, BitOperators
    <2>4. y \in Word /\ BitOf(y, i) = BitOf(Invert(a), i) * BitOf(c, i)
      BY <2>1, <2>2, BitOperators
    <2> HIDE DEF x, y
    <2>5. BitOf(BitOr(x, y), i) = BitOf(x, i) + BitOf(y, i) - BitOf(x, i) * BitOf(y, i)
      BY <2>3, <2>4, BitOperators
    <2>6. BitOf(a, i) \in {0, 1} /\ BitOf(b, i) \in {0, 1} /\ BitOf(c, i) \in {0, 1}
      <3>1. i \in 0..2*W
        BY WordSize
      <3> QED
        BY <2>1, <3>1, BitType, WordInWide
    <2> DEFINE p == BitOf(a, i)
               q == BitOf(b, i)
               r == BitOf(c, i)
               px == BitOf(x, i)
               py == BitOf(y, i)
    <2>7. p \in {0, 1} /\ q \in {0, 1} /\ r \in {0, 1} /\ px = p * q /\ py = (1 - p) * r
      BY <2>2, <2>3, <2>4, <2>6
    <2> HIDE DEF p, q, r, px, py
    <2>8. px + py - px * py = IF p = 1 THEN q ELSE r
      BY <2>7
    <2> QED
      BY <2>1, <2>5, <2>8 DEF p, q, r, px, py, a, b, c
  <1> QED
    BY <1>2, <1>3, <1>4, <1>5

(* The shifts of pairs.                                                    *)
LEMMA PairsHold == IInv => PairShiftsExact
  <1> SUFFICES ASSUME IInv PROVE PairShiftsExact
    OBVIOUS
  <1> DEFINE At(y, k) == IF k \in 0..2*W-1 THEN BitOf(y, k) ELSE 0
  <1>1. ProgramFits /\ TypeOK /\ CollectedEffect /\ DirectEffect
    BY DEF IInv
  <1>2. active \subseteq Lanes /\ W \in Nat
    BY <1>1, RanExist, WordSize
  <1>3. ASSUME NEW l \in active, collect, NEW op \in {"V_LSHL_B64", "V_ASHR_I64"}, Ran(op)
        PROVE  /\ B(l) \in Word /\ First0(l) \in WideWord
               /\ First0(l) = Wide(A(l), orig.v[code[1].x + 1][l])
               /\ Shift(B(l)) \in 0..W-1
               /\ ResultPair(l) = IF op = "V_LSHL_B64" THEN V_LSHL_B64(First0(l), B(l))
                                                       ELSE V_ASHR_I64(First0(l), B(l))
    <2>1. code[1].op = op /\ RegistersExist(code[1]) /\ l \in Lanes /\ pc = 2
      BY <1>1, <1>2, <1>3, RanExist DEF Ran
    <2>2. op \in VOP2Ops /\ op \in WideSrc0 /\ op \in WideDst
      BY <1>3 DEF VOP2Ops, WideSrc0, WideDst
    <2>3. B(l) \in Word /\ First0(l) \in WideWord
      BY <1>1, <2>1, <2>2, HeldTypes
    <2> DEFINE x == VOP2(op, First0(l), B(l), BitOf(orig.s[Vcc], l))
    <2>4. Result(l) = Wrap(x) /\ v[code[1].d + 1][l] = x \div 2^W
      BY <1>1, <1>3, <2>1, <2>2 DEF CollectedEffect, Stored
    <2>5. x \in WideWord
      <3>1. Vcc \in 0..MaxS /\ orig.s \in [0..MaxS -> Word]
        BY <1>1, VectorAssumption DEF ProgramFits, RegisterState
      <3>2. BitOf(orig.s[Vcc], l) \in {0, 1}
        BY <2>1, <3>1, BitType, LaneBits, WordInWide
      <3> QED
        BY <2>2, <2>3, <3>2, VOP2Type
    <2>6. x = IF op = "V_LSHL_B64" THEN V_LSHL_B64(First0(l), B(l)) ELSE V_ASHR_I64(First0(l), B(l))
      BY <1>3 DEF VOP2
    <2> HIDE DEF x
    <2>7. ResultPair(l) = x
      BY <2>4, <2>5, WideParts DEF ResultPair, Result
    <2>8. First0(l) = Wide(A(l), orig.v[code[1].x + 1][l])
      BY <2>1, <2>2 DEF First0
    <2> QED
      BY <2>3, <2>6, <2>7, <2>8, ShiftType, WordInWide
  <1>4. ASSUME NEW l \in active, NEW i \in 0..2*W-1, collect, Ran("V_LSHL_B64")
        PROVE  BitOf(ResultPair(l), i) = At(Wide(A(l), orig.v[code[1].x + 1][l]), i - Shift(B(l)))
    <2> DEFINE x == First0(l)
               n == Shift(B(l))
    <2>1. x \in WideWord /\ n \in 0..W-1 /\ ResultPair(l) = WideWrap(x * 2^n)
      BY <1>3, <1>4 DEF V_LSHL_B64
    <2>2. x = Wide(A(l), orig.v[code[1].x + 1][l])
      BY <1>3, <1>4
    <2> HIDE DEF x, n
    <2>3. n \in 0..2*W-1 /\ (i < n <=> i - n \notin 0..2*W-1)
      BY <1>2, <2>1
    <2>4. BitOf(WideWrap(x * 2^n), i) = IF i < n THEN 0 ELSE BitOf(x, i - n)
      BY <2>1, <2>3, PairShifts
    <2> QED
      BY <2>1, <2>2, <2>3, <2>4 DEF n
  <1>5. ASSUME NEW l \in active, NEW i \in 0..2*W-1, collect, Ran("V_ASHR_I64")
        PROVE  BitOf(ResultPair(l), i)
                  = At(Wide(A(l), orig.v[code[1].x + 1][l]), Smaller(i + Shift(B(l)), 2*W - 1))
    <2> DEFINE x == First0(l)
               n == Shift(B(l))
    <2>1. x \in WideWord /\ n \in 0..W-1 /\ ResultPair(l) = WideWrap(WideSigned(x) \div 2^n)
      BY <1>3, <1>5 DEF V_ASHR_I64
    <2>2. x = Wide(A(l), orig.v[code[1].x + 1][l])
      BY <1>3, <1>5
    <2> HIDE DEF x, n
    <2>3. n \in 0..2*W-1 /\ Smaller(i + n, 2*W - 1) \in 0..2*W-1
      BY <1>2, <2>1 DEF Smaller
    <2>4. BitOf(WideWrap(WideSigned(x) \div 2^n), i) = BitOf(x, Smaller(i + n, 2*W - 1))
      BY <2>1, <2>3, PairShifts
    <2> QED
      BY <2>1, <2>2, <2>3, <2>4 DEF n
  <1>6. ASSUME NEW l \in active, NEW i \in 0..2*W-1, Ran("V_LSHR_B64")
        PROVE  BitOf(ResultPair(l), i) = At(Wide(SA, orig.s[code[1].x + 1]), i + Shift(SB))
    <2> DEFINE x == Wide(SA, orig.s[code[1].x + 1])
               n == Shift(SB)
    <2>0. "V_LSHR_B64" \in Words3A \cup Comparisons \cup {"V_LSHR_B64"}
      OBVIOUS
    <2>1. SA \in Word /\ SB \in Word /\ orig.s[code[1].x + 1] \in Word
      BY <1>6, <2>0, RanWords
    <2>2. x \in WideWord /\ n \in 0..W-1
      BY <2>1, WideFacts, ShiftType, WordInWide
    <2>3. PairValue(code[1], orig.s) = x \div 2^n
      BY DEF PairValue, SA, SB
    <2>4. /\ Result(l) = Wrap(x \div 2^n) /\ v[code[1].d + 1][l] = (x \div 2^n) \div 2^W
          /\ x \div 2^n \in WideWord
      BY <1>1, <1>6, <2>3 DEF DirectEffect, Ran
    <2> HIDE DEF x, n
    <2> DEFINE y == x \div 2^n
    <2>5. y \in WideWord /\ Result(l) = Wrap(y) /\ v[code[1].d + 1][l] = y \div 2^W
      BY <2>4
    <2> HIDE DEF y
    <2>6. ResultPair(l) = y
      BY <2>5, WideParts DEF ResultPair, Result
    <2>7. n \in 0..2*W-1 /\ (i + n < 2*W <=> i + n \in 0..2*W-1)
      BY <1>2, <2>2
    <2>8. BitOf(x \div 2^n, i) = IF i + n < 2*W THEN BitOf(x, i + n) ELSE 0
      BY <2>2, <2>7, PairShifts
    <2> QED
      BY <2>6, <2>7, <2>8 DEF x, n, y
  <1> QED
    BY <1>4, <1>5, <1>6 DEF PairShiftsExact, Shift

(* The median and the largest of three numbers.                            *)
LEMMA MedianHolds == IInv => MedianExact
  <1> SUFFICES ASSUME IInv PROVE MedianExact
    OBVIOUS
  <1> DEFINE n == [k \in {1, 2, 3} |-> Signed(<<SA, SB, SC>>[k])]
  <1>1. ASSUME NEW op \in {"V_MED3_I32", "V_MAX3_I32"}, Ran(op)
        PROVE  /\ Signed(SA) \in Int /\ Signed(SB) \in Int /\ Signed(SC) \in Int
               /\ \A l \in active : Result(l) = Arithmetic3A(op, SA, SB, SC)
    <2>1. op \in Arithmetic3AOps /\ op \in Words3A \cup Comparisons \cup {"V_LSHR_B64"}
      BY <1>1 DEF Arithmetic3AOps, Words3A
    <2> QED
      BY <1>1, <2>1, RanWords, SignedType
  <1>2. n[1] = Signed(SA) /\ n[2] = Signed(SB) /\ n[3] = Signed(SC)
    OBVIOUS
  <1> HIDE DEF n
  <1>3. ASSUME NEW l \in active, Ran("V_MED3_I32")
        PROVE  \E i, j, k \in {1, 2, 3} :
                  /\ i # j /\ i # k /\ j # k
                  /\ n[i] <= n[j] /\ n[j] <= n[k] /\ Signed(Result(l)) = n[j]
    <2>1. n[1] \in Int /\ n[2] \in Int /\ n[3] \in Int /\ Result(l) = V_MED3_I32(SA, SB, SC)
      BY <1>1, <1>2, <1>3 DEF Arithmetic3A
    <2>2. \/ n[1] <= n[2] /\ n[2] <= n[3] /\ Signed(Result(l)) = n[2]
          \/ n[1] <= n[3] /\ n[3] <= n[2] /\ Signed(Result(l)) = n[3]
          \/ n[2] <= n[1] /\ n[1] <= n[3] /\ Signed(Result(l)) = n[1]
          \/ n[2] <= n[3] /\ n[3] <= n[1] /\ Signed(Result(l)) = n[3]
          \/ n[3] <= n[1] /\ n[1] <= n[2] /\ Signed(Result(l)) = n[1]
          \/ n[3] <= n[2] /\ n[2] <= n[1] /\ Signed(Result(l)) = n[2]
      BY <1>2, <2>1 DEF V_MED3_I32
    <2> QED
      BY <2>2
  <1>4. ASSUME NEW l \in active, Ran("V_MAX3_I32")
        PROVE  Signed(Result(l)) = Larger(n[1], Larger(n[2], n[3]))
    <2>1. n[1] \in Int /\ n[2] \in Int /\ n[3] \in Int /\ Result(l) = V_MAX3_I32(SA, SB, SC)
      BY <1>1, <1>2, <1>4 DEF Arithmetic3A
    <2> QED
      BY <1>2, <2>1 DEF V_MAX3_I32, Larger
  <1> QED
    BY <1>3, <1>4 DEF MedianExact, n

(* A multiple of the divisor does not change the remainder.                *)
LEMMA ModShift ==
    ASSUME NEW m \in Nat \ {0}, NEW x \in Int, NEW k \in Int
    PROVE  /\ (x + k * m) % m = x % m
           /\ x \in 0..m-1 => x % m = x
  <1>1. ASSUME NEW y \in Int, NEW j \in Int, NEW r \in 0..m-1, y = j * m + r
        PROVE  y % m = r
    <2>1. j * m \in Int /\ j * m <= y /\ y < j * m + m
      BY <1>1
    <2>2. y \div m = j
      BY <1>1, <2>1, DivUnique
    <2>3. y = j * m + (y % m) /\ y % m \in 0..m-1
      BY <1>1, <2>2, DivMod
    <2> QED
      BY <1>1, <2>1, <2>3
  <1> DEFINE q == x \div m
             r == x % m
  <1>2. q \in Int /\ r \in 0..m-1 /\ x = q * m + r
    BY DivMod
  <1> HIDE DEF q, r
  <1>3. x + k * m \in Int /\ q + k \in Int /\ x + k * m = (q + k) * m + r
    BY <1>2
  <1>4. (x + k * m) % m = r
    BY <1>1, <1>2, <1>3
  <1>5. x \in 0..m-1 => x % m = x
    <2>1. 0 \in Int /\ x = 0 * m + x
      OBVIOUS
    <2> QED
      BY <1>1, <2>1
  <1> QED
    BY <1>4, <1>5 DEF r

LEMMA ModSmall == \A m \in Nat \ {0} : \A x \in 0..m-1 : x % m = x
  <1> SUFFICES ASSUME NEW m \in Nat \ {0}, NEW x \in 0..m-1 PROVE x % m = x
    OBVIOUS
  <1>1. x \in Int /\ 0 \in Int
    OBVIOUS
  <1> QED
    BY <1>1, ModShift

(* A register cannot tell a number from one that differs by its range.     *)
LEMMA WrapShift ==
    ASSUME NEW x \in Int, NEW k \in Int
    PROVE  /\ Wrap(x + k * 2^W) = Wrap(x)
           /\ WideWrap(x + k * 2^(2*W)) = WideWrap(x)
           /\ Wrap(WideWrap(x)) = Wrap(x)
  <1>1. 2^W \in Nat \ {0} /\ 2^(2*W) \in Nat \ {0} /\ 2^(2*W) = 2^W * 2^W
    BY WordSize, WideSize
  <1>2. PICK p \in Int : WideWrap(x) = x + p * 2^(2*W)
    BY WideWrapFacts
  <1>3. p * 2^W \in Int /\ WideWrap(x) = x + (p * 2^W) * 2^W
    BY <1>1, <1>2
  <1>4. \A j \in Int : Wrap(x + j * 2^W) = Wrap(x)
    BY <1>1, ModShift DEF Wrap
  <1>5. WideWrap(x + k * 2^(2*W)) = WideWrap(x)
    BY <1>1, ModShift DEF WideWrap
  <1> QED
    BY <1>3, <1>4, <1>5

(* A number in the signed range survives being stored.                     *)
LEMMA SignedWrap ==
    ASSUME NEW x \in Int
    PROVE  /\ x \in -(2^(W-1))..2^(W-1)-1 => Signed(Wrap(x)) = x
           /\ x \in -(2^(2*W-1))..2^(2*W-1)-1 => WideSigned(WideWrap(x)) = x
  <1>1. /\ 2^W \in Nat \ {0} /\ 2^(W-1) \in Nat /\ 2^W = 2 * 2^(W-1)
        /\ 2^(2*W) \in Nat \ {0} /\ 2^(2*W-1) \in Nat /\ 2^(2*W) = 2 * 2^(2*W-1)
    BY WordSize, WideSize
  <1>2. ASSUME NEW m \in Nat \ {0}, NEW h \in Nat, m = 2 * h, x \in -h..h-1
        PROVE  x % m = IF x < 0 THEN x + m ELSE x
    <2>1. CASE x < 0
      <3>1. x + m \in 0..m-1 /\ x + m \in Int /\ 1 \in Int /\ x + 1 * m = x + m
        BY <1>2, <2>1
      <3>2. (x + m) % m = x + m
        BY <1>2, <3>1, ModSmall
      <3>3. (x + 1 * m) % m = x % m
        BY <1>2, <3>1, ModShift
      <3> QED
        BY <2>1, <3>1, <3>2, <3>3
    <2>2. CASE x >= 0
      <3>1. x \in 0..m-1
        BY <1>2, <2>2
      <3> QED
        BY <1>2, <2>2, <3>1, ModSmall
    <2> QED
      BY <2>1, <2>2
  <1>3. ASSUME x \in -(2^(W-1))..2^(W-1)-1 PROVE Signed(Wrap(x)) = x
    <2>1. Wrap(x) = IF x < 0 THEN x + 2^W ELSE x
      BY <1>1, <1>2, <1>3 DEF Wrap
    <2> QED
      BY <1>1, <1>3, <2>1 DEF Signed, Negative
  <1>4. ASSUME x \in -(2^(2*W-1))..2^(2*W-1)-1 PROVE WideSigned(WideWrap(x)) = x
    <2>1. WideWrap(x) = IF x < 0 THEN x + 2^(2*W) ELSE x
      BY <1>1, <1>2, <1>4 DEF WideWrap
    <2> QED
      BY <1>1, <1>4, <2>1 DEF WideSigned
  <1> QED
    BY <1>3, <1>4

(* A word and its signed reading differ by the range of a register.        *)
LEMMA SignedShift ==
    ASSUME NEW a \in Word
    PROVE  /\ \E k \in Int : Signed(a) = a + k * 2^W
           /\ Wrap(Signed(a)) = a
  <1>1. 2^W \in Nat /\ a \in Int /\ Wrap(a) = a
    BY WordSize, WordInWide, WrapFacts
  <1>2. Signed(a) = a + 0 * 2^W \/ Signed(a) = a + (-1) * 2^W
    BY <1>1 DEF Signed
  <1>3. PICK k \in {0, -1} : Signed(a) = a + k * 2^W
    BY <1>2
  <1>4. k \in Int
    BY <1>3
  <1> QED
    BY <1>1, <1>3, <1>4, WrapShift

(* Sign extension reads the top bit of the narrow word.                    *)
LEMMA SextValue ==
    ASSUME NEW w \in 1..W, NEW x \in 0..2^w-1
    PROVE  Sext(x, w) = WideWrap(IF x >= 2^(w-1) THEN x - 2^w ELSE x)
  <1>1. W \in Nat /\ w \in 0..2*W /\ w - 1 \in 0..2*W /\ w - 1 \in w-1..2*W /\ w - 1 \in 0..w-1
    BY WordSize
  <1>2. w - 1 \in Nat /\ 1 \in Nat /\ (w - 1) + 1 <= 2 * W /\ (w - 1) + 1 = w
    BY <1>1
  <1>3. 2^w \in Nat \ {0} /\ 2^(w-1) \in Nat \ {0} /\ 2^w = 2 * 2^(w-1)
    <2>1. 2^((w - 1) + 1) = 2^(w - 1) * 2^1
      BY <1>2, PowerSum
    <2>2. 2^1 = 2
      <3>1. 0 \in 0..W-1 /\ 2^0 \in Nat
        BY WordSize, PowerAssumption
      <3>2. 2^(0 + 0) = 2^0 * 2^0 /\ 2^0 \in Nat \ {0}
        BY PowerSum, Powers, WordSize
      <3>3. 2^(0 + 1) = 2 * 2^0 /\ 0 + 0 = 0 /\ 0 + 1 = 1
        BY <3>1, PowerAssumption
      <3>4. 2^0 = 1
        BY <3>2, <3>3
      <3> QED
        BY <3>3, <3>4
    <2> QED
      BY <1>1, <1>2, <2>1, <2>2, Powers
  <1>4. Chop(x, w) = x
    BY <1>3, ModSmall DEF Chop
  <1>5. CASE x < 2^(w-1)
    <2>1. x \in -(2^(w-1))..2^(w-1)-1 /\ ~(x < 0)
      BY <1>3, <1>5
    <2>2. BitOf(x, w - 1) = 0
      BY <1>1, <2>1, BitAbove
    <2>3. 2^w <= 2^(2*W) /\ 2^(2*W) \in Nat
      BY <1>1, <1>2, PowerMonotone, WideSize
    <2>4. x \in WideWord /\ x \in Int
      BY <1>3, <2>3 DEF WideWord
    <2>5. WideWrap(x) = x
      BY <2>4, WideWrapFacts
    <2> QED
      BY <1>3, <1>4, <1>5, <2>2, <2>5 DEF Sext
  <1>6. CASE x >= 2^(w-1)
    <2> DEFINE y == x - 2^w
    <2>1. y \in -(2^(w-1))..2^(w-1)-1 /\ y < 0 /\ y \in Int /\ 1 \in Int /\ y + 1 * 2^w = x
      BY <1>3, <1>6
    <2> HIDE DEF y
    <2>2. BitOf(y, w - 1) = 1
      BY <1>1, <2>1, BitAbove
    <2>3. BitOf(y + 1 * 2^w, w - 1) = BitOf(y, w - 1)
      BY <1>1, <2>1, BitBelow
    <2>4. BitOf(x, w - 1) = 1
      BY <2>1, <2>2, <2>3
    <2> QED
      BY <1>3, <1>4, <1>6, <2>4 DEF Sext, y
  <1> QED
    BY <1>3, <1>5, <1>6

(* The product of two signed words fits in a pair of words.                *)
LEMMA ProductRange ==
    ASSUME NEW i \in -(2^(W-1))..2^(W-1)-1, NEW j \in -(2^(W-1))..2^(W-1)-1
    PROVE  i * j \in -(2^(2*W-1))..2^(2*W-1)-1
  <1> DEFINE h == 2^(W-1)
  <1>1. h \in Nat \ {0} /\ i \in -h..h-1 /\ j \in -h..h-1
    BY WordSize
  <1>2. 2^(2*W-1) = 2 * (h * h) /\ 2^(2*W-1) \in Nat
    <2>1. 2^W = 2 * h /\ 2^(2*W) = 2^W * 2^W /\ 2^(2*W) = 2 * 2^(2*W-1) /\ 2^(2*W-1) \in Nat
      BY WordSize, WideSize
    <2> HIDE DEF h
    <2>2. (2 * h) * (2 * h) = 4 * (h * h) /\ h * h \in Nat
      BY <1>1
    <2> QED
      BY <2>1, <2>2
  <1> HIDE DEF h
  <1> DEFINE p == i * j
             q == h * h
  <1>3. (h - i) * (h - j) \in Nat /\ (h + i) * (h + j) \in Nat
    BY <1>1
  <1>4. (h - i) * (h + j) \in Nat /\ (h + i) * (h - j) \in Nat
    BY <1>1
  <1>5. (h - i) * (h - j) + (h + i) * (h + j) = 2 * q + 2 * p
    BY <1>1
  <1>6. (h - i) * (h + j) + (h + i) * (h - j) = 2 * q - 2 * p
    BY <1>1
  <1>7. p \in Int /\ q \in Nat \ {0}
    BY <1>1
  <1> HIDE DEF p, q
  <1>8. 2 * q + 2 * p >= 0
    BY <1>3, <1>5
  <1>9. 2 * q - 2 * p >= 0
    BY <1>4, <1>6
  <1>10. p \in -(2 * q)..2 * q - 1
    BY <1>7, <1>8, <1>9
  <1> QED
    BY <1>2, <1>10 DEF p, q

(* V_MULLO_I32 and the two forms of V_MULHI compute the words of products. *)
LEMMA ProductWords ==
    ASSUME NEW a \in Word, NEW b \in Word
    PROVE  /\ Wide(V_MULLO_I32(a, b), V_MULHI_I32(a, b)) \in WideWord
           /\ WideSigned(Wide(V_MULLO_I32(a, b), V_MULHI_I32(a, b))) = Signed(a) * Signed(b)
           /\ Wide(V_MULLO_I32(a, b), V_MULHI_U32(a, b)) = a * b
  <1> DEFINE i == Signed(a)
             j == Signed(b)
             m == 2^W
             mm == 2^(2*W)
  <1>1. /\ a \in Int /\ b \in Int /\ i \in Int /\ j \in Int /\ m \in Nat \ {0} /\ mm \in Nat \ {0}
        /\ i \in -(2^(W-1))..2^(W-1)-1 /\ j \in -(2^(W-1))..2^(W-1)-1
    BY WordInWide, SignedType, SignedFacts, WordSize, WideSize
  <1>2. i * j \in Int /\ i * j \in -(2^(2*W-1))..2^(2*W-1)-1
    BY <1>1, ProductRange
  <1>3. /\ Wide(V_MULLO_I32(a, b), V_MULHI_I32(a, b)) \in WideWord
        /\ WideSigned(Wide(V_MULLO_I32(a, b), V_MULHI_I32(a, b))) = i * j
    <2>1. Sext(a, W) = WideWrap(i) /\ Sext(b, W) = WideWrap(j)
      <3>1. W \in 1..W /\ Word = 0..2^W-1
        BY WordSize DEF Word
      <3>2. \A x \in Word : Sext(x, W) = WideWrap(IF x >= 2^(W-1) THEN x - 2^W ELSE x)
        BY <3>1, SextValue
      <3> QED
        BY <3>2 DEF Signed, Negative
    <2>2. PICK p \in Int : WideWrap(i) = i + p * mm
      BY <1>1, WideWrapFacts
    <2>3. PICK q \in Int : WideWrap(j) = j + q * mm
      BY <1>1, WideWrapFacts
    <2> HIDE DEF i, j, mm
    <2> DEFINE k == i * q + p * j + p * q * mm
    <2>4. k \in Int /\ (i + p * mm) * (j + q * mm) = i * j + k * mm
      BY <1>1
    <2> HIDE DEF k
    <2>5. WideWrap(i * j + k * mm) = WideWrap(i * j)
      BY <1>2, <2>4, WrapShift DEF mm
    <2>6. V_MULHI_I32(a, b) = WideWrap(i * j) \div 2^W
      BY <2>1, <2>2, <2>3, <2>4, <2>5 DEF V_MULHI_I32
    <2>7. V_MULLO_I32(a, b) = Wrap(WideWrap(i * j))
      BY <1>2, WrapShift DEF V_MULLO_I32, i, j
    <2>8. WideWrap(i * j) \in WideWord
      BY <1>2, WideWrapFacts
    <2>9. Wide(V_MULLO_I32(a, b), V_MULHI_I32(a, b)) = WideWrap(i * j)
      BY <2>6, <2>7, <2>8, WideParts
    <2> QED
      BY <1>2, <2>8, <2>9, SignedWrap
  <1>4. Wide(V_MULLO_I32(a, b), V_MULHI_U32(a, b)) = a * b
    <2>1. PICK p \in Int : i = a + p * m
      BY SignedShift
    <2>2. PICK q \in Int : j = b + q * m
      BY SignedShift
    <2> HIDE DEF i, j, m
    <2> DEFINE k == a * q + p * b + p * q * m
    <2>3. k \in Int /\ a * b \in Int /\ (a + p * m) * (b + q * m) = a * b + k * m
      BY <1>1
    <2> HIDE DEF k
    <2>4. Wrap(a * b + k * m) = Wrap(a * b)
      BY <2>3, WrapShift DEF m
    <2>5. V_MULLO_I32(a, b) = Wrap(a * b)
      BY <2>1, <2>2, <2>3, <2>4 DEF V_MULLO_I32, i, j
    <2>6. a * b \in WideWord
      <3>1. a \in 0..m-1 /\ b \in 0..m-1 /\ 2^(2*W) = m * m
        BY WideSize DEF Word, m
      <3>2. a * b \in Nat /\ (m - 1 - a) * b \in Nat /\ m * (m - 1 - b) \in Nat
        BY <1>1, <3>1
      <3>3. (m - 1 - a) * b + m * (m - 1 - b) = m * m - m - b - a * b
        BY <1>1, <3>1
      <3>4. a * b <= m * m - 1
        <4> DEFINE x == a * b
                   y == m * m
                   z == (m - 1 - a) * b + m * (m - 1 - b)
        <4>1. x \in Nat /\ y \in Nat /\ z \in Nat /\ z = y - m - b - x /\ m \in Nat \ {0} /\ b \in Nat
          BY <1>1, <3>1, <3>2, <3>3
        <4> HIDE DEF x, y, z
        <4>2. x <= y - 1
          BY <4>1
        <4> QED
          BY <4>2 DEF x, y
      <3> QED
        BY <1>1, <3>1, <3>2, <3>4 DEF WideWord
    <2> QED
      BY <2>5, <2>6, WideParts DEF V_MULHI_U32
  <1> QED
    BY <1>3, <1>4

(* For numbers that are not negative the signed product is the unsigned    *)
(* one.                                                                    *)
LEMMA PlainProduct ==
    ASSUME NEW a \in Word, NEW b \in Word, a < 2^(W-1), b < 2^(W-1)
    PROVE  Wide(V_MULLO_I32(a, b), V_MULHI_I32(a, b)) = a * b
  <1> DEFINE x == Wide(V_MULLO_I32(a, b), V_MULHI_I32(a, b))
             mm == 2^(2*W)
  <1>1. a \in Nat /\ b \in Nat /\ a * b \in Nat
    BY WordSize DEF Word
  <1>2. Signed(a) = a /\ Signed(b) = b
    BY <1>1, WordSize DEF Signed, Negative
  <1>3. WideSigned(x) = a * b
    BY <1>2, ProductWords
  <1>4. x \in WideWord
    BY ProductWords
  <1>5. x \in Int /\ x < mm /\ mm \in Nat
    BY <1>4, WideSize, WordInWide DEF WideWord
  <1>6. WideSigned(x) = IF x >= 2^(2*W-1) THEN x - mm ELSE x
    BY DEF WideSigned
  <1> HIDE DEF x, mm
  <1>7. ~(x >= 2^(2*W-1))
    BY <1>1, <1>3, <1>5, <1>6
  <1> QED
    BY <1>3, <1>6, <1>7 DEF x

LEMMA ProductHolds == IInv => ProductExact
  <1> SUFFICES ASSUME IInv PROVE ProductExact
    OBVIOUS
  <1>1. ProgramFits /\ TypeOK /\ ProductEffect
    BY DEF IInv, SecondEffect
  <1>2. active \subseteq Lanes
    BY <1>1, RanExist
  <1>3. ASSUME NEW l \in active, NEW op \in {"V_MULHI_I32", "V_MULHI_U32"}, collect,
               RanBoth("V_MULLO_I32", op), SameSources, code[2].d # code[1].d
        PROVE  /\ op = "V_MULHI_I32" /\ A(l) < 2^(W-1) /\ B(l) < 2^(W-1) =>
                     Wide(Result(l), v[code[2].d][l]) = A(l) * B(l)
               /\ op = "V_MULHI_U32" => Wide(Result(l), v[code[2].d][l]) = A(l) * B(l)
    <2>1. code[1].op = "V_MULLO_I32" /\ RegistersExist(code[1]) /\ l \in Lanes
      BY <1>1, <1>2, <1>3, RanExist DEF RanBoth
    <2>2. code[1].op \in VOP2Ops
      BY <2>1 DEF VOP2Ops
    <2>3. A(l) \in Word /\ B(l) \in Word
      BY <1>1, <2>1, <2>2, HeldTypes
    <2>4. /\ Result(l) = V_MULLO_I32(A(l), B(l))
          /\ v[code[2].d][l] = IF op = "V_MULHI_I32" THEN V_MULHI_I32(A(l), B(l))
                                                     ELSE V_MULHI_U32(A(l), B(l))
      BY <1>1, <1>3 DEF ProductEffect
    <2> QED
      BY <2>3, <2>4, ProductWords, PlainProduct
  <1> QED
    BY <1>3 DEF ProductExact

(* The modifiers change the sign of every number but the smallest.         *)
LEMMA NegFacts ==
    ASSUME NEW a \in Word, a # 2^(W-1)
    PROVE  /\ NegI(a) \in Word /\ NegI(a) # 2^(W-1) /\ Signed(NegI(a)) = -Signed(a)
           /\ AbsI(a) \in Word /\ AbsI(a) # 2^(W-1)
           /\ Signed(AbsI(a)) = IF Signed(a) < 0 THEN -Signed(a) ELSE Signed(a)
  <1> DEFINE h == 2^(W-1)
             i == Signed(a)
  <1>1. h \in Nat \ {0} /\ 2^W = 2 * h /\ a \in Int /\ a >= 0 /\ -a \in Int
    BY WordSize, WordInWide
  <1>2. i \in -h..h-1 /\ (i < 0 <=> Negative(a)) /\ i \in Int /\ -i \in Int
    BY <1>1, SignedFacts
  <1>3. i # -h
    BY <1>1 DEF Signed, Negative
  <1>4. Signed(h) = -h
    BY <1>1 DEF Signed, Negative
  <1>5. Wrap(-a) = Wrap(-i)
    <2>1. PICK k \in Int : i = a + k * 2^W
      BY SignedShift
    <2>2. -i = (-a) + (-k) * 2^W /\ -k \in Int
      BY <1>1, <2>1
    <2> QED
      BY <1>1, <2>2, WrapShift
  <1>6. -i \in -h..h-1
    BY <1>1, <1>2, <1>3
  <1>7. NegI(a) \in Word
    BY <1>1, WrapFacts DEF NegI
  <1>8. Signed(NegI(a)) = -i
    BY <1>2, <1>5, <1>6, SignedWrap DEF NegI
  <1> HIDE DEF h, i
  <1>9. NegI(a) # h
    BY <1>1, <1>2, <1>4, <1>6, <1>8
  <1> QED
    BY <1>1, <1>2, <1>7, <1>8, <1>9 DEF AbsI, NegI, h, i

LEMMA ModifiedNumber ==
    ASSUME NEW a \in Word, NEW m, NEW n, m = {} \/ a # 2^(W-1)
    PROVE  Modified(m, n, a) \in Word /\ Signed(Modified(m, n, a)) = Number(m, n, a)
  <1>1. CASE m = {}
    BY <1>1 DEF Modified, Number
  <1>2. CASE a # 2^(W-1)
    <2> DEFINE b == IF <<"abs", n>> \in m THEN AbsI(a) ELSE a
    <2>1. /\ b \in Word /\ b # 2^(W-1)
          /\ Signed(b) = IF <<"abs", n>> \in m /\ Signed(a) < 0 THEN -Signed(a) ELSE Signed(a)
      BY <1>2, NegFacts
    <2>2. NegI(b) \in Word /\ Signed(NegI(b)) = -Signed(b)
      BY <2>1, NegFacts
    <2>3. Modified(m, n, a) = IF <<"neg", n>> \in m THEN NegI(b) ELSE b
      BY DEF Modified
    <2>4. Number(m, n, a) = IF <<"neg", n>> \in m THEN -Signed(b) ELSE Signed(b)
      BY <2>1 DEF Number
    <2> HIDE DEF b
    <2> QED
      BY <2>1, <2>2, <2>3, <2>4
  <1> QED
    BY <1>1, <1>2

LEMMA SignedInjective == \A a, b \in Word : Signed(a) = Signed(b) <=> a = b
  BY SignedShift

LEMMA ModifiersHold == IInv => ModifiersExact
  <1> SUFFICES ASSUME IInv PROVE ModifiersExact
    OBVIOUS
  <1> DEFINE m == code[1].mods
             i == Number(m, 0, SA)
             j == Number(m, 1, SB)
             Holds(op) == CASE op \in {"V_CMP_EQ_I32_VOP3A", "V_CMPX_EQ_I32_VOP3A"} -> i = j
                            [] op = "V_CMP_NE_I32_VOP3A" -> i # j
                            [] op = "V_CMP_LT_I32_VOP3A" -> i < j
                            [] op = "V_CMP_LE_I32_VOP3A" -> i <= j
                            [] op = "V_CMP_GT_I32_VOP3A" -> i > j
                            [] op = "V_CMP_GE_I32_VOP3A" -> i >= j
  <1>1. ASSUME NEW op \in Signed3AOps, Ran(op),
               {code[1].x, code[1].y} \cap Written(code[1]) = {}, m = {} \/ 2^(W-1) \notin {SA, SB}
        PROVE  \A l \in active, r \in Written(code[1]) : BitOf(s[r], l) = Flag(Holds(op))
    <2>1. op \in Comparisons /\ op \in Words3A \cup Comparisons \cup {"V_LSHR_B64"}
      BY DEF Comparisons
    <2>2. SA \in Word /\ SB \in Word
      BY <1>1, <2>1, RanWords
    <2> DEFINE a == Modified(m, 0, SA)
               b == Modified(m, 1, SB)
    <2>3. a \in Word /\ b \in Word /\ Signed(a) = i /\ Signed(b) = j
      <3>1. m = {} \/ SA # 2^(W-1)
        BY <1>1
      <3>2. m = {} \/ SB # 2^(W-1)
        BY <1>1
      <3> QED
        BY <2>2, <3>1, <3>2, ModifiedNumber
    <2> HIDE DEF m, i, j
    <2>4. i = j <=> a = b
      BY <2>3, SignedInjective
    <2>5. pc = 2 /\ ~aborted /\ code[1].op = op
      BY <1>1 DEF Ran
    <2>6. \A l \in active, r \in Written(code[1]) : BitOf(s[r], l) = Truth(code[1], orig.s)
      BY <1>1, <2>1, <2>5 DEF IInv, DirectEffect
    <2>7. Truth(code[1], orig.s) = Flag(Compare3A(op, m, SA, SB))
      BY <2>5 DEF Truth, SA, SB, m
    <2>8. Flag(Compare3A(op, m, SA, SB)) = Flag(Holds(op))
      <3>1. CASE op = "V_CMP_EQ_I32_VOP3A"
        BY <2>4, <3>1 DEF Compare3A, V_CMP_EQ_I32_VOP3A, Flag
      <3>2. CASE op = "V_CMPX_EQ_I32_VOP3A"
        BY <2>4, <3>2 DEF Compare3A, V_CMPX_EQ_I32_VOP3A, Flag
      <3>3. CASE op = "V_CMP_NE_I32_VOP3A"
        BY <2>4, <3>3 DEF Compare3A, V_CMP_NE_I32_VOP3A, Flag
      <3>4. CASE op = "V_CMP_LT_I32_VOP3A"
        BY <2>3, <3>4 DEF Compare3A, V_CMP_LT_I32_VOP3A, Flag
      <3>5. CASE op = "V_CMP_LE_I32_VOP3A"
        BY <2>3, <3>5 DEF Compare3A, V_CMP_LE_I32_VOP3A, Flag
      <3>6. CASE op = "V_CMP_GT_I32_VOP3A"
        BY <2>3, <3>6 DEF Compare3A, V_CMP_GT_I32_VOP3A, Flag
      <3>7. CASE op = "V_CMP_GE_I32_VOP3A"
        BY <2>3, <3>7 DEF Compare3A, V_CMP_GE_I32_VOP3A, Flag
      <3> QED
        BY <1>1, <3>1, <3>2, <3>3, <3>4, <3>5, <3>6, <3>7 DEF Signed3AOps
    <2> QED
      BY <2>6, <2>7, <2>8
  <1>2. \A op \in Signed3AOps : Ran(op) =>
           Written(code[1]) = {code[1].d} \cup IF op = "V_CMPX_EQ_I32_VOP3A" THEN {Exec} ELSE {}
    BY DEF Ran, Written
  <1> QED
    BY <1>1, <1>2 DEF ModifiersExact

(* A half word with its sign extended is the word it was cut from.         *)
LEMMA ChopBack ==
    ASSUME NEW b \in Word, Signed(b) \in -(2^(W \div 2 - 1))..2^(W \div 2 - 1)-1
    PROVE  Wrap(Sext(Chop(b, W \div 2), W \div 2)) = b
  <1> DEFINE w == W \div 2
             m == 2^w
             h == 2^(w - 1)
             x == Signed(b)
  <1>1. w \in 1..W /\ W \in Nat /\ w + w = W
    BY Widths
  <1> HIDE DEF w
  <1>2. m \in Nat \ {0} /\ h \in Nat \ {0} /\ m = 2 * h /\ m * m = 2^W
    <2>1. w - 1 \in 0..W-1 /\ w \in 0..2*W /\ w - 1 \in 0..2*W /\ (w - 1) + 1 = w
      BY <1>1
    <2>2. w \in Nat /\ w + w <= 2 * W
      BY <1>1
    <2> QED
      BY <1>1, <2>1, <2>2, PowerAssumption, Powers, PowerSum
  <1>3. x \in -h..h-1 /\ x \in Int
    BY <1>2 DEF w
  <1>4. PICK k \in Int : x = b + k * 2^W
    BY SignedShift
  <1>5. b \in Int /\ Wrap(x) = b
    BY WordInWide, SignedShift
  <1> HIDE DEF m, h, x
  <1>6. b % m = x % m
    <2> DEFINE j == k * m
    <2>1. j \in Int /\ x = b + j * m
      BY <1>2, <1>4, <1>5
    <2> HIDE DEF j
    <2>2. (b + j * m) % m = b % m
      BY <1>2, <1>5, <2>1, ModShift
    <2> QED
      BY <2>1, <2>2
  <1>7. x % m = IF x < 0 THEN x + m ELSE x
    <2>1. CASE x < 0
      <3>1. x + m \in 0..m-1 /\ 1 \in Int /\ x + 1 * m = x + m
        BY <1>2, <1>3, <2>1
      <3>2. (x + m) % m = x + m
        BY <1>2, <3>1, ModSmall
      <3>3. (x + 1 * m) % m = x % m
        BY <1>2, <1>3, <3>1, ModShift
      <3> QED
        BY <2>1, <3>1, <3>2, <3>3
    <2>2. CASE x >= 0
      <3>1. x \in 0..m-1
        BY <1>2, <1>3, <2>2
      <3> QED
        BY <1>2, <2>2, <3>1, ModSmall
    <2> QED
      BY <1>3, <2>1, <2>2
  <1> DEFINE c == IF x < 0 THEN x + m ELSE x
  <1>8. c \in 0..m-1 /\ x = IF c >= h THEN c - m ELSE c
    BY <1>2, <1>3
  <1> HIDE DEF c
  <1>9. Sext(c, w) = WideWrap(x)
    BY <1>1, <1>8, SextValue DEF m, h
  <1>10. Wrap(WideWrap(x)) = Wrap(x)
    BY <1>3, WrapShift
  <1>11. Chop(b, w) = c
    BY <1>6, <1>7 DEF Chop, m, c
  <1> QED
    BY <1>5, <1>9, <1>10, <1>11 DEF w

LEMMA ExtendHolds == IInv => ExtendExact
  <1> SUFFICES ASSUME IInv PROVE ExtendExact
    OBVIOUS
  <1>1. ProgramFits /\ TypeOK /\ CollectedEffect /\ ChopEffect
    BY DEF IInv, SecondEffect
  <1>2. active \subseteq Lanes
    BY <1>1, RanExist
  <1>3. ASSUME NEW l \in active, collect, NEW op \in {"V_SEXT_I64_I32", "V_ZEXT_B64_B32"}, Ran(op)
        PROVE  /\ op = "V_SEXT_I64_I32" => WideSigned(ResultPair(l)) = Signed(B(l))
               /\ op = "V_ZEXT_B64_B32" => ResultPair(l) = B(l)
    <2>1. code[1].op = op /\ RegistersExist(code[1]) /\ l \in Lanes /\ pc = 2
      BY <1>1, <1>2, <1>3, RanExist DEF Ran
    <2>2. op \in VOP1Ops /\ op \in WideDst
      BY <1>3 DEF VOP1Ops, WideDst
    <2>3. B(l) \in Word
      BY <1>1, <2>1, <2>2, HeldTypes
    <2> DEFINE x == VOP1(op, B(l))
    <2>4. Result(l) = Wrap(x) /\ v[code[1].d + 1][l] = x \div 2^W
      BY <1>1, <1>3, <2>1, <2>2 DEF CollectedEffect, Stored
    <2>5. x = IF op = "V_SEXT_I64_I32" THEN Sext(B(l), W) ELSE Chop(B(l), W)
      BY <1>3 DEF VOP1, Extended, Zext
    <2>6. W \in 1..W /\ W \in 0..2*W /\ 2^W \in Nat \ {0}
      BY WordSize
    <2>7. Sext(B(l), W) = WideWrap(Signed(B(l)))
      <3>1. \A y \in 0..2^W-1 : Sext(y, W) = WideWrap(IF y >= 2^(W-1) THEN y - 2^W ELSE y)
        BY <2>6, SextValue
      <3> QED
        BY <2>3, <3>1 DEF Signed, Negative, Word
    <2>8. Chop(B(l), W) = B(l)
      BY <2>3, <2>6, ModSmall DEF Chop, Word
    <2>9. x \in WideWord
      BY <2>3, <2>5, <2>6, SextType, ChopType, WordInWide
    <2> HIDE DEF x
    <2>10. ResultPair(l) = x
      BY <2>4, <2>9, WideParts DEF ResultPair, Result
    <2>11. WideSigned(WideWrap(Signed(B(l)))) = Signed(B(l))
      <3> DEFINE i == Signed(B(l))
                 h == 2^(W-1)
                 hh == 2^(2*W-1)
      <3>1. i \in -h..h-1 /\ h \in Nat /\ hh \in Nat
        BY <2>3, SignedFacts, WordSize, WideSize
      <3>2. h <= hh
        <4>1. W - 1 \in Nat /\ 2*W-1 \in Nat /\ W - 1 <= 2*W - 1 /\ 2*W - 1 <= 2*W
          BY WordSize
        <4> QED
          BY <4>1, PowerMonotone
      <3> HIDE DEF i, h, hh
      <3>3. i \in -hh..hh-1 /\ i \in Int
        BY <3>1, <3>2
      <3> QED
        BY <3>3, SignedWrap DEF i, hh
    <2> QED
      BY <1>3, <2>5, <2>7, <2>8, <2>10, <2>11
  <1>4. ASSUME NEW l \in active, collect, RanBoth("V_CHOP_B16_B32", "V_SEXT_I32_I16"),
               code[2].src.kind = "v", code[2].src.n = code[1].d,
               Signed(B(l)) \in -(2^(W \div 2 - 1))..2^(W \div 2 - 1)-1
        PROVE  v[code[2].d][l] = B(l)
    <2>1. code[1].op = "V_CHOP_B16_B32" /\ RegistersExist(code[1]) /\ l \in Lanes
      BY <1>1, <1>2, <1>4, RanExist DEF RanBoth
    <2>2. code[1].op \in VOP1Ops
      BY <2>1 DEF VOP1Ops
    <2>3. B(l) \in Word
      BY <1>1, <2>1, <2>2, HeldTypes
    <2>4. v[code[2].d][l] = Wrap(Sext(Chop(B(l), W \div 2), W \div 2))
      BY <1>1, <1>4 DEF ChopEffect
    <2> QED
      BY <1>4, <2>3, <2>4, ChopBack
  <1> QED
    BY <1>3, <1>4 DEF ExtendExact

(* The other vector handlers: every register holds a word, and at the end  *)
(* of the programs that VectorExact names the destinations hold what       *)
(* arithmetic says of the sources, for any width, registers and mask.      *)
THEOREM VectorResults == Spec => []VectorExact
  <1>1. IInv => VectorExact
    BY MaxHolds, ModifiersHold, ProductHolds, FieldsHold, PairsHold, MedianHolds, ExtendHolds
       DEF IInv, VectorExact
  <1> QED
    BY <1>1, Invariance, PTL
=============================================================================
