------------------------- MODULE ScalarAlu_proofs -------------------------
(***************************************************************************)
(* The scalar handlers for words of any even width and any number of       *)
(* registers: results, carries and bits are those of the definitions by    *)
(* numbers and bits.                                                       *)
(***************************************************************************)
EXTENDS ScalarAlu, NaturalsInduction, WellFoundedInduction, TLAPS

(* Induction over the naturals, for a set.                                 *)
LEMMA SetInduction ==
    ASSUME NEW S, 0 \in S, \A n \in Nat : n \in S => n + 1 \in S
    PROVE  Nat \subseteq S
  <1> DEFINE T == Nat \ S
             R == OpToRel(<, Nat)
  <1>1. IsWellFoundedOn(R, Nat)
    BY NatLessThanWellFounded, Zenon
  <1>2. ASSUME T # {} PROVE FALSE
    <2>1. T \subseteq Nat
      OBVIOUS
    <2> HIDE DEF R, T
    <2>2. PICK x \in T : \A y \in T : ~(<<y, x>> \in R)
      BY <1>1, <1>2, <2>1, WFMin
    <2> USE DEF T
    <2>3. x # 0 /\ x - 1 \in Nat
      OBVIOUS
    <2>4. x - 1 \in T
      BY <2>3
    <2>5. <<x - 1, x>> \in R
      BY <2>3 DEF R, OpToRel
    <2> QED
      BY <2>2, <2>4, <2>5
  <1> QED
    BY <1>2
-----------------------------------------------------------------------------
(* Division with a positive divisor.                                       *)
LEMMA DivMod ==
    ASSUME NEW m \in Nat \ {0}, NEW x \in Int
    PROVE  /\ x % m \in 0..m-1
           /\ x \div m \in Int
           /\ x = (x \div m) * m + (x % m)
  OBVIOUS

LEMMA DivUnique ==
    ASSUME NEW m \in Nat \ {0}, NEW x \in Int, NEW q \in Int,
           q * m <= x, x < q * m + m
    PROVE  x \div m = q
  OBVIOUS

LEMMA DivShift ==
    ASSUME NEW m \in Nat \ {0}, NEW x \in Int, NEW j \in Int
    PROVE  (x + j * m) \div m = (x \div m) + j
  <1> DEFINE q == x \div m
             r == x % m
  <1>1. r \in 0..m-1 /\ q \in Int /\ x = q * m + r
    BY DivMod
  <1> HIDE DEF q, r
  <1>2. (q + j) * m = q * m + j * m /\ q + j \in Int /\ j * m \in Int /\ q * m \in Int
    BY <1>1
  <1>3. x + j * m \in Int
    BY <1>2
  <1>4. (q + j) * m <= x + j * m /\ x + j * m < (q + j) * m + m
    BY <1>1, <1>2
  <1>5. (x + j * m) \div m = q + j
    BY <1>2, <1>3, <1>4, DivUnique
  <1> QED
    BY <1>5 DEF q

LEMMA DivDiv ==
    ASSUME NEW m \in Nat \ {0}, NEW k \in Nat \ {0}, NEW x \in Int
    PROVE  (x \div m) \div k = x \div (m * k)
  <1> DEFINE q == x \div m
             r == x % m
             p == q \div k
             u == q % k
  <1>1. r \in 0..m-1 /\ q \in Int /\ x = q * m + r
    BY DivMod
  <1>2. u \in 0..k-1 /\ p \in Int /\ q = p * k + u
    BY <1>1, DivMod
  <1> HIDE DEF q, r, p, u
  <1>3. m * k \in Nat \ {0}
    OBVIOUS
  <1>4. q * m = p * (m * k) + u * m
    BY <1>2
  <1>5. 0 <= u * m /\ u * m + m <= m * k /\ u * m \in Int
    <2>1. u \in Nat /\ k - 1 - u \in Nat
      BY <1>2
    <2>2. u * m \in Nat /\ (k - 1 - u) * m \in Nat
      BY <2>1
    <2>3. (k - 1 - u) * m = m * k - m - u * m
      BY <2>1
    <2> QED
      BY <2>1, <2>2, <2>3, <1>3
  <1>6. p * (m * k) \in Int
    BY <1>2, <1>3
  <1> DEFINE mk == m * k
  <1>7. x = p * mk + u * m + r
    BY <1>1, <1>4
  <1> HIDE DEF mk
  <1>8. p * mk <= x /\ x < p * mk + mk
    BY <1>1, <1>5, <1>6, <1>7 DEF mk
  <1>9. x \div mk = p
    BY <1>2, <1>3, <1>8, DivUnique DEF mk
  <1> QED
    BY <1>9 DEF mk, p, q
-----------------------------------------------------------------------------
(* Powers of two up to 2^W.                                                *)
LEMMA Powers ==
    \A n \in 0..W : 2^n \in Nat \ {0}
  <1> DEFINE S == { n \in Nat : n <= W => 2^n \in Nat \ {0} }
  <1>1. 0 \in S
    <2>1. 2^0 = 1
      OBVIOUS
    <2> QED
      BY <2>1
  <1>2. ASSUME NEW n \in Nat, n \in S PROVE n + 1 \in S
    BY <1>2, WidthAssumption, PowerAssumption
  <1> HIDE DEF S
  <1>3. Nat \subseteq S
    BY <1>1, <1>2, SetInduction
  <1> QED
    BY <1>3, WidthAssumption DEF S

LEMMA PowerSum ==
    ASSUME NEW i \in Nat, NEW j \in Nat, i + j <= W
    PROVE  2^(i + j) = 2^i * 2^j
  <1> DEFINE S == { n \in Nat : i + n <= W => 2^(i + n) = 2^i * 2^n }
  <1>0. W \in Nat /\ i \in 0..W /\ 2^i \in Nat
    BY WidthAssumption, Powers
  <1>1. 0 \in S
    <2>1. 2^0 = 1 /\ i + 0 = i
      OBVIOUS
    <2> QED
      BY <1>0, <2>1
  <1>2. ASSUME NEW n \in Nat, n \in S PROVE n + 1 \in S
    <2> SUFFICES ASSUME i + (n + 1) <= W PROVE 2^(i + (n + 1)) = 2^i * 2^(n + 1)
      OBVIOUS
    <2>1. 2^(i + n) = 2^i * 2^n
      BY <1>0, <1>2
    <2>2. i + n \in 0..W-1 /\ n \in 0..W-1 /\ i + (n + 1) = (i + n) + 1
      BY <1>0
    <2>3. 2^((i + n) + 1) = 2 * 2^(i + n) /\ 2^(n + 1) = 2 * 2^n
      BY <2>2, PowerAssumption
    <2>4. 2^n \in Nat /\ 2^(i + n) \in Nat
      BY <2>2, PowerAssumption
    <2> QED
      BY <1>0, <2>1, <2>2, <2>3, <2>4
  <1> HIDE DEF S
  <1>3. Nat \subseteq S
    BY <1>1, <1>2, SetInduction
  <1> QED
    BY <1>3 DEF S

LEMMA PowerMonotone ==
    ASSUME NEW i \in Nat, NEW j \in Nat, i <= j, j <= W
    PROVE  2^i <= 2^j
  <1>1. j - i \in Nat /\ i + (j - i) = j /\ i \in 0..W /\ j - i \in 0..W
    BY WidthAssumption
  <1>2. 2^j = 2^i * 2^(j - i)
    BY <1>1, PowerSum
  <1>3. 2^i \in Nat \ {0} /\ 2^(j - i) \in Nat \ {0}
    BY <1>1, Powers
  <1> HIDE <1>1
  <1> DEFINE p == 2^i
             q == 2^(j - i)
  <1> HIDE DEF p, q
  <1>4. p \in Nat /\ q \in Nat \ {0} => p <= p * q
    <2> SUFFICES ASSUME p \in Nat, q \in Nat \ {0} PROVE p <= p * q
      OBVIOUS
    <2>1. p * (q - 1) \in Nat /\ p * q = p + p * (q - 1)
      OBVIOUS
    <2> QED
      BY <2>1
  <1> QED
    BY <1>2, <1>3, <1>4 DEF p, q

(* The quotient of a number between two multiples of the divisor.          *)
LEMMA DivRange ==
    ASSUME NEW m \in Nat \ {0}, NEW x \in Int, NEW lo \in Int, NEW hi \in Int,
           lo * m <= x, x < hi * m
    PROVE  x \div m \in lo..hi-1
  <1> DEFINE q == x \div m
             r == x % m
  <1>1. r \in 0..m-1 /\ q \in Int /\ x = q * m + r
    BY DivMod
  <1> HIDE DEF q, r
  <1>2. ASSUME q < lo PROVE FALSE
    <2>1. lo - 1 - q \in Nat
      BY <1>1, <1>2
    <2>2. (lo - 1 - q) * m \in Nat /\ (lo - 1 - q) * m = lo * m - m - q * m
      BY <1>1, <2>1
    <2>3. q * m \in Int /\ lo * m \in Int
      BY <1>1
    <2> QED
      BY <1>1, <2>2, <2>3
  <1>3. ASSUME q >= hi PROVE FALSE
    <2>1. q - hi \in Nat
      BY <1>1, <1>3
    <2>2. (q - hi) * m \in Nat /\ (q - hi) * m = q * m - hi * m
      BY <1>1, <2>1
    <2>3. q * m \in Int /\ hi * m \in Int
      BY <1>1
    <2> QED
      BY <1>1, <2>2, <2>3
  <1>4. q \in lo..hi-1
    BY <1>1, <1>2, <1>3
  <1> QED
    BY <1>4 DEF q
-----------------------------------------------------------------------------
(* Bits of integers in two's complement.                                   *)
LEMMA BitType ==
    ASSUME NEW x \in Int, NEW i \in 0..W
    PROVE  BitOf(x, i) \in {0, 1} /\ x \div 2^i \in Int
  <1>1. 2^i \in Nat \ {0}
    BY Powers
  <1>2. x \div 2^i \in Int
    BY <1>1, DivMod
  <1> QED
    BY <1>2 DEF BitOf

(* What is added above a bit does not change it.                           *)
LEMMA BitBelow ==
    ASSUME NEW x \in Int, NEW p \in Int, NEW n \in 0..W, NEW i \in 0..n-1
    PROVE  BitOf(x + p * 2^n, i) = BitOf(x, i)
  <1>1. i \in 0..W-1 /\ n - i - 1 \in 0..W-1 /\ (n - i - 1) + 1 = n - i /\ n - i \in Nat
        /\ i + (n - i) = n /\ W \in Nat
    BY WidthAssumption
  <1> DEFINE e == 2^i
             h == 2^(n - i - 1)
  <1>2. e \in Nat \ {0} /\ h \in Nat
    BY <1>1, Powers, PowerAssumption
  <1>3. 2^n = e * (2 * h)
    <2>1. 2^(n - i) = 2 * h
      BY <1>1, PowerAssumption
    <2>2. 2^(i + (n - i)) = e * 2^(n - i)
      BY <1>1, PowerSum
    <2> QED
      BY <1>1, <2>1, <2>2
  <1> HIDE DEF e, h
  <1> DEFINE k == p * h
  <1>4. k \in Int /\ 2 * k \in Int
    BY <1>2
  <1>5. p * 2^n = (2 * k) * e
    BY <1>2, <1>3
  <1> HIDE DEF k
  <1>6. (x + p * 2^n) \div e = (x \div e) + 2 * k
    BY <1>2, <1>4, <1>5, DivShift
  <1> DEFINE y == x \div e
  <1>7. y \in Int
    BY <1>2, DivMod
  <1> HIDE DEF y
  <1>8. (y + 2 * k) % 2 = y % 2
    BY <1>4, <1>7
  <1> QED
    BY <1>6, <1>8 DEF BitOf, y, e

(* The bits from n on of a number with n bits and a sign.                  *)
LEMMA BitAbove ==
    ASSUME NEW n \in 0..W, NEW i \in n..W, NEW x \in -(2^n)..2^n-1
    PROVE  BitOf(x, i) = IF x < 0 THEN 1 ELSE 0
  <1>1. 2^n \in Nat /\ 2^i \in Nat \ {0} /\ 2^n <= 2^i
    BY WidthAssumption, Powers, PowerMonotone
  <1> DEFINE e == 2^i
             f == 2^n
  <1> HIDE DEF e, f
  <1>2. e \in Nat \ {0} /\ f \in Nat /\ f <= e /\ x \in Int /\ -f <= x /\ x < f
    BY <1>1 DEF e, f
  <1>3. CASE x < 0
    <2>1. (-1) * e <= x /\ x < (-1) * e + e
      BY <1>2, <1>3
    <2>2. x \div e = -1
      BY <1>2, <2>1, DivUnique
    <2> DEFINE y == x \div e
    <2>3. y \in Int /\ y + 1 = 0 /\ BitOf(x, i) = y % 2
      BY <2>2 DEF BitOf, e
    <2> HIDE DEF y
    <2>4. y % 2 = 1
      BY <2>3
    <2> QED
      BY <1>3, <2>3, <2>4
  <1>4. CASE ~(x < 0)
    <2>1. 0 * e <= x /\ x < 0 * e + e
      BY <1>2, <1>4
    <2>2. x \div e = 0
      BY <1>2, <2>1, DivUnique
    <2>3. BitOf(x, i) = 0 % 2
      BY <2>2 DEF BitOf, e
    <2>4. 0 % 2 = 0
      OBVIOUS
    <2> QED
      BY <1>4, <2>3, <2>4
  <1> QED
    BY <1>3, <1>4

Bits == [0..W-1 -> {0, 1}]

(* The sums of the lowest bits, one after the other.                       *)
Sums(b, v) ==
    /\ v \in [0..W -> Nat]
    /\ v = [n \in 0..W |-> IF n = 0 THEN 0 ELSE v[n-1] + b[n-1] * 2^(n-1)]

LEMMA SumsExist ==
    ASSUME NEW b \in Bits
    PROVE  \E v : Sums(b, v)
  <1> DEFINE E(n) == \E v \in [0..n -> Nat] :
                        /\ v[0] = 0
                        /\ \A i \in 1..n : v[i] = v[i-1] + b[i-1] * 2^(i-1)
             S == { n \in Nat : n <= W => E(n) }
  <1>0. W \in Nat
    BY WidthAssumption
  <1>1. 0 \in S
    <2> DEFINE v == [i \in 0..0 |-> 0]
    <2>1. v \in [0..0 -> Nat] /\ v[0] = 0 /\ \A i \in 1..0 : v[i] = v[i-1] + b[i-1] * 2^(i-1)
      OBVIOUS
    <2>2. E(0)
      BY <2>1
    <2> QED
      BY <2>2
  <1>2. ASSUME NEW n \in Nat, n \in S PROVE n + 1 \in S
    <2> SUFFICES ASSUME n + 1 <= W PROVE E(n + 1)
      OBVIOUS
    <2>1. PICK v \in [0..n -> Nat] :
             /\ v[0] = 0
             /\ \A i \in 1..n : v[i] = v[i-1] + b[i-1] * 2^(i-1)
      BY <1>0, <1>2
    <2> DEFINE t == v[n] + b[n] * 2^n
               u == [i \in 0..n+1 |-> IF i = n + 1 THEN t ELSE v[i]]
    <2>2. t \in Nat
      <3>1. n \in 0..W-1 /\ n \in 0..W
        <4> HIDE DEF S, E
        <4> QED
          BY <1>0
      <3>2. 2^n \in Nat /\ b[n] \in {0, 1} /\ v[n] \in Nat
        BY <3>1, Powers DEF Bits
      <3> QED
        BY <3>2
    <2> HIDE DEF t
    <2>3. u \in [0..n+1 -> Nat] /\ u[0] = 0
      BY <2>1, <2>2
    <2>4. ASSUME NEW i \in 1..n+1 PROVE u[i] = u[i-1] + b[i-1] * 2^(i-1)
      <3>1. CASE i = n + 1
        <4>1. u[i] = t /\ i - 1 = n /\ u[n] = v[n]
          BY <3>1
        <4> QED
          BY <4>1 DEF t
      <3>2. CASE i # n + 1
        <4>1. i \in 1..n /\ i - 1 \in 0..n /\ u[i] = v[i] /\ u[i-1] = v[i-1]
          BY <3>2
        <4> QED
          BY <4>1, <2>1
      <3> QED
        BY <3>1, <3>2
    <2> QED
      BY <2>3, <2>4
  <1> HIDE DEF S
  <1>3. Nat \subseteq S
    BY <1>1, <1>2, SetInduction
  <1>4. E(W)
    BY <1>0, <1>3 DEF S
  <1>5. PICK v \in [0..W -> Nat] :
           /\ v[0] = 0
           /\ \A i \in 1..W : v[i] = v[i-1] + b[i-1] * 2^(i-1)
    BY <1>4
  <1>6. v = [n \in 0..W |-> IF n = 0 THEN 0 ELSE v[n-1] + b[n-1] * 2^(n-1)]
    BY <1>0, <1>5
  <1> QED
    BY <1>6 DEF Sums

(* The word of given bits has these bits.                                  *)
LEMMA FromBitsFacts ==
    ASSUME NEW b \in Bits
    PROVE  /\ FromBits(b) \in Word
           /\ \A i \in 0..W-1 : BitOf(FromBits(b), i) = b[i]
  <1>0. W \in Nat
    BY WidthAssumption
  <1>1. PICK g : Sums(b, g)
    BY SumsExist
  <1>2. PICK v : /\ FromBits(b) = v[W]
                 /\ v = [n \in 0..W |-> IF n = 0 THEN 0 ELSE v[n-1] + b[n-1] * 2^(n-1)]
    BY <1>1 DEF FromBits, Sums
  <1>3. v[0] = 0 /\ \A n \in 0..W-1 : v[n+1] = v[n] + b[n] * 2^n
    <2>1. v[0] = 0
      BY <1>0, <1>2
    <2>2. ASSUME NEW n \in 0..W-1 PROVE v[n+1] = v[n] + b[n] * 2^n
      <3>1. n + 1 \in 0..W /\ n + 1 # 0 /\ (n + 1) - 1 = n
        BY <1>0
      <3>2. v[n+1] = IF n + 1 = 0 THEN 0 ELSE v[(n+1)-1] + b[(n+1)-1] * 2^((n+1)-1)
        BY <1>2, <3>1
      <3> QED
        BY <3>1, <3>2
    <2> QED
      BY <2>1, <2>2
  <1> HIDE <1>2
  <1> DEFINE F(n) == v[n] \in 0..2^n-1 /\ \A i \in 0..n-1 : BitOf(v[n], i) = b[i]
             S == { n \in Nat : n <= W => F(n) }
  <1>4. 0 \in S
    <2>1. 2^0 = 1
      OBVIOUS
    <2> QED
      BY <1>3, <2>1
  <1>5. ASSUME NEW n \in Nat, n \in S PROVE n + 1 \in S
    <2> SUFFICES ASSUME n + 1 <= W PROVE F(n + 1)
      OBVIOUS
    <2>1. n \in 0..W-1 /\ n \in 0..W /\ F(n)
      BY <1>0, <1>5
    <2>2. v[n+1] = v[n] + b[n] * 2^n
      BY <1>3, <2>1
    <2>3. 2^n \in Nat \ {0} /\ 2^(n+1) = 2 * 2^n /\ b[n] \in {0, 1}
      BY <2>1, Powers, PowerAssumption DEF Bits
    <2> DEFINE e == 2^n
               x == v[n]
    <2>4. x \in 0..e-1 /\ \A i \in 0..n-1 : BitOf(x, i) = b[i]
      BY <2>1
    <2> HIDE DEF e, x
    <2>5. v[n+1] = x + b[n] * e /\ e \in Nat \ {0} /\ 2^(n+1) = 2 * e
      BY <2>2, <2>3 DEF e, x
    <2>6. v[n+1] \in 0..2^(n+1)-1
      <3>1. CASE b[n] = 0
        BY <3>1, <2>4, <2>5
      <3>2. CASE b[n] = 1
        BY <3>2, <2>4, <2>5
      <3> QED
        BY <2>3, <3>1, <3>2
    <2>7. ASSUME NEW i \in 0..n PROVE BitOf(v[n+1], i) = b[i]
      <3>1. CASE i = n
        <4>1. b[n] * e <= v[n+1] /\ v[n+1] < b[n] * e + e /\ v[n+1] \in Int /\ b[n] \in Int
          <5>1. b[n] * e \in Int
            BY <2>3, <2>5
          <5> QED
            BY <2>3, <2>4, <2>5, <5>1
        <4>2. v[n+1] \div e = b[n]
          BY <2>5, <4>1, DivUnique
        <4>3. BitOf(v[n+1], i) = b[n] % 2
          BY <3>1, <4>2 DEF BitOf, e
        <4> QED
          BY <2>3, <3>1, <4>3
      <3>2. CASE i # n
        <4>1. i \in 0..n-1 /\ x \in Int /\ b[n] \in Int
          BY <2>3, <2>4, <3>2
        <4>2. BitOf(x + b[n] * e, i) = BitOf(x, i)
          BY <2>1, <4>1, BitBelow DEF e
        <4> QED
          BY <2>4, <2>5, <4>1, <4>2
      <3> QED
        BY <3>1, <3>2
    <2>8. 0..(n+1)-1 = 0..n
      OBVIOUS
    <2> QED
      BY <2>6, <2>7, <2>8
  <1> HIDE DEF S
  <1>6. Nat \subseteq S
    BY <1>4, <1>5, SetInduction
  <1>7. F(W)
    BY <1>0, <1>6 DEF S
  <1> QED
    BY <1>2, <1>7 DEF Word

(* The bitwise operators work bit by bit.                                  *)
LEMMA BitOperators ==
    ASSUME NEW a \in Word, NEW b \in Word
    PROVE  /\ BitAnd(a, b) \in Word /\ BitOr(a, b) \in Word /\ BitXor(a, b) \in Word
           /\ \A i \in 0..W-1 :
                 /\ BitOf(BitAnd(a, b), i) = BitOf(a, i) * BitOf(b, i)
                 /\ BitOf(BitOr(a, b), i) = BitOf(a, i) + BitOf(b, i) - BitOf(a, i) * BitOf(b, i)
                 /\ BitOf(BitXor(a, b), i) = (BitOf(a, i) + BitOf(b, i)) % 2
  <1> DEFINE and == [i \in 0..W-1 |-> BitOf(a, i) * BitOf(b, i)]
             or  == [i \in 0..W-1 |-> BitOf(a, i) + BitOf(b, i) - BitOf(a, i) * BitOf(b, i)]
             xor == [i \in 0..W-1 |-> (BitOf(a, i) + BitOf(b, i)) % 2]
  <1>1. \A i \in 0..W-1 : BitOf(a, i) \in {0, 1} /\ BitOf(b, i) \in {0, 1}
    <2>1. a \in Int /\ b \in Int /\ \A i \in 0..W-1 : i \in 0..W
      BY WidthAssumption DEF Word
    <2> QED
      BY <2>1, BitType
  <1>2. and \in Bits /\ or \in Bits /\ xor \in Bits
    <2>1. \A p, q \in {0, 1} : p * q \in {0, 1} /\ p + q - p * q \in {0, 1} /\ (p + q) % 2 \in {0, 1}
      OBVIOUS
    <2> QED
      BY <1>1, <2>1 DEF Bits
  <1> HIDE DEF and, or, xor
  <1>3. /\ FromBits(and) \in Word /\ \A i \in 0..W-1 : BitOf(FromBits(and), i) = and[i]
        /\ FromBits(or) \in Word /\ \A i \in 0..W-1 : BitOf(FromBits(or), i) = or[i]
        /\ FromBits(xor) \in Word /\ \A i \in 0..W-1 : BitOf(FromBits(xor), i) = xor[i]
    BY <1>2, FromBitsFacts
  <1>4. BitAnd(a, b) = FromBits(and) /\ BitOr(a, b) = FromBits(or) /\ BitXor(a, b) = FromBits(xor)
    BY DEF BitAnd, BitOr, BitXor, and, or, xor
  <1> QED
    BY <1>3, <1>4 DEF and, or, xor
-----------------------------------------------------------------------------
(* The numbers that the width of a word leads to.                          *)
LEMMA WordSize ==
    /\ W \in Nat /\ W > 1
    /\ 2^(W-1) \in Nat \ {0} /\ 2^W \in Nat \ {0} /\ 2^W = 2 * 2^(W-1)
    /\ 0 \in Word
  <1>1. W \in Nat /\ W > 1 /\ W - 1 \in 0..W-1 /\ W - 1 \in 0..W /\ W \in 0..W /\ (W - 1) + 1 = W
    BY WidthAssumption
  <1>2. 2^((W - 1) + 1) = 2 * 2^(W - 1) /\ 2^(W - 1) \in Nat \ {0} /\ 2^W \in Nat \ {0}
    BY <1>1, Powers, PowerAssumption
  <1> QED
    BY <1>1, <1>2 DEF Word

(* A register keeps the low bits of a result.                              *)
LEMMA WrapFacts ==
    ASSUME NEW x \in Int
    PROVE  /\ Wrap(x) \in Word
           /\ x \in Word => Wrap(x) = x
           /\ \E p \in Int : Wrap(x) = x + p * 2^W
           /\ \A i \in 0..W-1 : BitOf(Wrap(x), i) = BitOf(x, i)
  <1> DEFINE m == 2^W
             q == x \div m
  <1>1. m \in Nat \ {0} /\ W \in Nat
    BY WordSize
  <1> HIDE DEF m
  <1>2. x % m \in 0..m-1 /\ q \in Int /\ x = q * m + (x % m)
    BY <1>1, DivMod
  <1>3. Wrap(x) = x % m
    BY DEF Wrap, m
  <1> HIDE DEF q
  <1>4. -q \in Int /\ (-q) * m = -(q * m) /\ q * m \in Int
    BY <1>1, <1>2
  <1>5. Wrap(x) = x + (-q) * m
    BY <1>2, <1>3, <1>4
  <1>6. x \in 0..m-1 => x % m = x
    <2> SUFFICES ASSUME x \in 0..m-1 PROVE x % m = x
      OBVIOUS
    <2>1. 0 * m <= x /\ x < 0 * m + m
      BY <1>1
    <2>2. x \div m = 0
      BY <1>1, <2>1, DivUnique
    <2> QED
      BY <1>1, <1>2, <2>2 DEF q
  <1>7. ASSUME NEW i \in 0..W-1 PROVE BitOf(Wrap(x), i) = BitOf(x, i)
    <2>1. W \in 0..W
      BY <1>1
    <2> QED
      BY <1>4, <1>5, <2>1, BitBelow DEF m
  <1> QED
    BY <1>2, <1>3, <1>4, <1>5, <1>6, <1>7 DEF Word, m

(* The signed reading of a word has its bits and half the range.           *)
LEMMA SignedFacts ==
    ASSUME NEW a \in Word
    PROVE  /\ Signed(a) \in -(2^(W-1))..2^(W-1)-1
           /\ Signed(a) < 0 <=> Negative(a)
           /\ \A i \in 0..W-1 : BitOf(Signed(a), i) = BitOf(a, i)
  <1> DEFINE h == 2^(W-1)
             m == 2^W
  <1>1. h \in Nat \ {0} /\ m = 2 * h /\ W \in Nat
    BY WordSize
  <1> HIDE DEF h, m
  <1>2. a \in 0..m-1 /\ (Negative(a) <=> a >= h) /\ Signed(a) = IF a >= h THEN a - m ELSE a
    BY DEF Word, Negative, Signed, h, m
  <1>3. Signed(a) \in -h..h-1 /\ (Signed(a) < 0 <=> Negative(a))
    <2>1. CASE a >= h
      BY <2>1, <1>1, <1>2
    <2>2. CASE ~(a >= h)
      BY <2>2, <1>1, <1>2
    <2> QED
      BY <2>1, <2>2
  <1>4. ASSUME NEW i \in 0..W-1 PROVE BitOf(Signed(a), i) = BitOf(a, i)
    <2>1. a + (-1) * m = a - m /\ a \in Int /\ -1 \in Int /\ W \in 0..W
      BY <1>1, <1>2
    <2>2. BitOf(a + (-1) * m, i) = BitOf(a, i)
      BY <2>1, BitBelow DEF m
    <2> QED
      BY <1>2, <2>1, <2>2
  <1> QED
    BY <1>3, <1>4 DEF h

(* Moving a number to the left.                                            *)
LEMMA LeftBits ==
    ASSUME NEW x \in Int, NEW n \in 0..W-1, NEW i \in 0..W-1
    PROVE  /\ x * 2^n \in Int
           /\ BitOf(x * 2^n, i) = IF i < n THEN 0 ELSE BitOf(x, i - n)
  <1>1. W \in Nat /\ n \in 0..W /\ i \in 0..W /\ 2^n \in Nat \ {0} /\ 2^i \in Nat \ {0}
    BY WordSize, Powers
  <1>2. x * 2^n \in Int
    BY <1>1
  <1>3. CASE i < n
    <2>1. i \in 0..n-1 /\ 0 \in Int /\ 0 + x * 2^n = x * 2^n
      BY <1>2, <1>3
    <2>2. BitOf(x * 2^n, i) = BitOf(0, i)
      <3>1. BitOf(0 + x * 2^n, i) = BitOf(0, i)
        BY <1>1, <2>1, BitBelow
      <3> QED
        BY <2>1, <3>1
    <2>3. BitOf(0, i) = 0
      <3>1. 0 * 2^i <= 0 /\ 0 < 0 * 2^i + 2^i
        BY <1>1
      <3>2. 0 \div 2^i = 0
        BY <1>1, <3>1, DivUnique
      <3>3. 0 % 2 = 0
        OBVIOUS
      <3> QED
        BY <3>2, <3>3 DEF BitOf
    <2> QED
      BY <1>2, <1>3, <2>2, <2>3
  <1>4. CASE ~(i < n)
    <2>1. i - n \in Nat /\ n + (i - n) = i /\ i - n \in 0..W
      BY <1>1, <1>4
    <2>2. 2^i = 2^n * 2^(i - n) /\ 2^(i - n) \in Nat \ {0}
      BY <1>1, <2>1, PowerSum, Powers
    <2> DEFINE e == 2^n
               f == 2^(i - n)
    <2>3. e \in Nat \ {0} /\ f \in Nat \ {0} /\ 2^i = e * f
      BY <1>1, <2>2
    <2> HIDE DEF e, f
    <2>4. x * e \in Int /\ x * e <= x * e /\ x * e < x * e + e
      BY <2>3
    <2>5. (x * e) \div e = x
      BY <2>3, <2>4, DivUnique
    <2>6. (x * e) \div (e * f) = x \div f
      BY <2>3, <2>4, <2>5, DivDiv
    <2> QED
      BY <1>2, <1>4, <2>3, <2>6 DEF BitOf, e, f
  <1> QED
    BY <1>3, <1>4

(* Moving a number to the right.                                           *)
LEMMA RightBits ==
    ASSUME NEW x \in Int, NEW n \in 0..W, NEW i \in 0..W, n + i <= W
    PROVE  BitOf(x \div 2^n, i) = BitOf(x, i + n)
  <1>1. 2^n \in Nat \ {0} /\ 2^i \in Nat \ {0} /\ 2^(i + n) = 2^n * 2^i
    <2>1. i + n = n + i /\ n \in Nat /\ i \in Nat
      OBVIOUS
    <2> QED
      BY <2>1, PowerSum, Powers
  <1>2. (x \div 2^n) \div 2^i = x \div (2^n * 2^i)
    BY <1>1, DivDiv
  <1> QED
    BY <1>1, <1>2 DEF BitOf

(* The logical and the arithmetic shift of a word.                         *)
LEMMA LogicalShift ==
    ASSUME NEW a \in Word, NEW n \in 0..W-1
    PROVE  /\ a \div 2^n \in Word
           /\ \A i \in 0..W-1 :
                 BitOf(a \div 2^n, i) = IF i + n < W THEN BitOf(a, i + n) ELSE 0
  <1>1. W \in Nat /\ n \in 0..W /\ W - n \in 0..W /\ (W - n) + n = W
    BY WordSize
  <1> DEFINE e == 2^n
             k == 2^(W - n)
             y == a \div 2^n
  <1>2. e \in Nat \ {0} /\ k \in Nat \ {0} /\ k * e = 2^W /\ k <= 2^W /\ 2^W \in Nat
    BY <1>1, Powers, PowerSum, PowerMonotone
  <1>3. a \in Int /\ 0 <= a /\ a < 2^W
    BY <1>2 DEF Word
  <1>4. y \in 0..k-1
    <2> HIDE DEF e, k
    <2>1. 0 * e <= a /\ a < k * e
      BY <1>2, <1>3
    <2>2. a \div e \in 0..k-1
      BY <1>2, <1>3, <2>1, DivRange
    <2> QED
      BY <2>2 DEF e
  <1>5. ASSUME NEW i \in 0..W-1 PROVE BitOf(y, i) = IF i + n < W THEN BitOf(a, i + n) ELSE 0
    <2>1. CASE i + n < W
      <3>1. i \in 0..W /\ n + i <= W
        BY <1>1, <2>1
      <3> QED
        BY <1>1, <1>3, <2>1, <3>1, RightBits
    <2>2. CASE ~(i + n < W)
      <3>1. i \in (W - n)..W
        BY <1>1, <2>2
      <3>2. y \in -(2^(W - n))..2^(W - n)-1 /\ ~(y < 0)
        BY <1>2, <1>4
      <3>3. BitOf(y, i) = IF y < 0 THEN 1 ELSE 0
        BY <1>1, <3>1, <3>2, BitAbove
      <3> QED
        BY <2>2, <3>2, <3>3
    <2> QED
      BY <2>1, <2>2
  <1>6. y \in Word
    BY <1>2, <1>4 DEF Word
  <1> QED
    BY <1>5, <1>6

LEMMA ArithmeticShift ==
    ASSUME NEW a \in Word, NEW n \in 0..W-1
    PROVE  /\ Wrap(Signed(a) \div 2^n) \in Word
           /\ \A i \in 0..W-1 :
                 BitOf(Wrap(Signed(a) \div 2^n), i) = BitOf(a, Smaller(i + n, W - 1))
  <1>1. W \in Nat /\ n \in 0..W /\ W - 1 - n \in 0..W /\ (W - 1 - n) + n = W - 1 /\ W - 1 \in 0..W
    BY WordSize
  <1> DEFINE e == 2^n
             k == 2^(W - 1 - n)
             h == 2^(W - 1)
             x == Signed(a)
             y == x \div 2^n
  <1>2. e \in Nat \ {0} /\ k \in Nat \ {0} /\ k * e = h /\ h \in Nat
    BY <1>1, Powers, PowerSum
  <1>3. x \in -h..h-1
    BY SignedFacts
  <1>4. y \in -k..k-1 /\ (y < 0 <=> x < 0)
    <2> HIDE DEF e, k, h, x
    <2>0. x \in Int /\ -k \in Int /\ k \in Int
      BY <1>2, <1>3
    <2>1. (-k) * e = -h
      BY <1>2
    <2>2. CASE x < 0
      <3>1. (-k) * e <= x /\ x < 0 * e
        BY <1>2, <1>3, <2>1, <2>2
      <3>2. x \div e \in -k..0-1
        BY <1>2, <2>0, <3>1, DivRange
      <3> QED
        BY <1>2, <2>2, <3>2 DEF e
    <2>3. CASE ~(x < 0)
      <3>1. 0 * e <= x /\ x < k * e
        BY <1>2, <1>3, <2>3
      <3>2. x \div e \in 0..k-1
        BY <1>2, <2>0, <3>1, DivRange
      <3> QED
        BY <1>2, <2>3, <3>2 DEF e
    <2> QED
      BY <2>2, <2>3
  <1>5. x \in Int /\ y \in Int
    BY <1>2, <1>3, <1>4
  <1>6. ASSUME NEW i \in 0..W-1 PROVE BitOf(y, i) = BitOf(a, Smaller(i + n, W - 1))
    <2>1. CASE i + n < W - 1
      <3>1. i \in 0..W /\ n + i <= W /\ i + n \in 0..W-1
        BY <1>1, <2>1
      <3>2. BitOf(y, i) = BitOf(x, i + n)
        BY <1>1, <1>5, <3>1, RightBits
      <3> QED
        BY <2>1, <3>1, <3>2, SignedFacts DEF Smaller
    <2>2. CASE ~(i + n < W - 1)
      <3>1. i \in (W - 1 - n)..W /\ W - 1 \in (W - 1)..W /\ W - 1 \in 0..W-1
        BY <1>1, <2>2
      <3>2. BitOf(y, i) = IF y < 0 THEN 1 ELSE 0
        BY <1>1, <1>4, <3>1, BitAbove
      <3>3. BitOf(x, W - 1) = IF x < 0 THEN 1 ELSE 0
        BY <1>1, <1>3, <3>1, BitAbove
      <3>4. BitOf(x, W - 1) = BitOf(a, W - 1)
        BY <3>1, SignedFacts
      <3> QED
        BY <1>4, <2>2, <3>2, <3>3, <3>4 DEF Smaller
    <2> QED
      BY <2>1, <2>2
  <1> HIDE DEF y
  <1>7. Wrap(y) \in Word /\ \A i \in 0..W-1 : BitOf(Wrap(y), i) = BitOf(y, i)
    BY <1>5, WrapFacts
  <1> QED
    BY <1>6, <1>7 DEF y

(* The shift to the left.                                                  *)
LEMMA LeftShift ==
    ASSUME NEW a \in Word, NEW n \in 0..W-1
    PROVE  /\ Wrap(a * 2^n) \in Word
           /\ \A i \in 0..W-1 :
                 BitOf(Wrap(a * 2^n), i) = IF i < n THEN 0 ELSE BitOf(a, i - n)
  <1>1. a \in Int /\ 0 \in 0..W-1
    BY WordSize DEF Word
  <1>2. a * 2^n \in Int /\ \A i \in 0..W-1 : BitOf(a * 2^n, i) = IF i < n THEN 0 ELSE BitOf(a, i - n)
    BY <1>1, LeftBits
  <1> QED
    BY <1>2, WrapFacts

(* The offset and the width of a bit field.                                *)
LEMMA FieldArguments ==
    ASSUME NEW b \in Word
    PROVE  Shift(b) \in 0..W-1 /\ Offset(b) \in 0..W-1 /\ Width(b) \in Nat
  <1>1. W \in Nat \ {0} /\ b \in Int /\ W \div 2 \in 0..W /\ 4 * W \in Nat \ {0}
    BY WordSize DEF Word
  <1>2. b % W \in 0..W-1
    BY <1>1, DivMod
  <1> DEFINE q == b \div 2^(W \div 2)
  <1>3. q \in Int
    BY <1>1, BitType
  <1> HIDE DEF q
  <1>4. q % (4 * W) \in 0..(4*W)-1
    BY <1>1, <1>3, DivMod
  <1> QED
    BY <1>1, <1>2, <1>4 DEF Shift, Offset, Width, q

(* S_BFE_I32 takes a field and extends its sign.                           *)
LEMMA Field ==
    ASSUME NEW a \in Word, NEW b \in Word
    PROVE  \E r \in Word :
              /\ S_BFE_I32(a, b) = Nonzero(r)
              /\ Width(b) = 0 => r = 0
              /\ Width(b) # 0 => \A i \in 0..W-1 :
                    BitOf(r, i) = BitOf(a, Smaller(Offset(b) + Smaller(i, Width(b) - 1), W - 1))
  <1> DEFINE o == Offset(b)
             w == Width(b)
  <1>1. W \in Nat /\ o \in 0..W-1 /\ w \in Nat /\ 0 \in Word
    BY FieldArguments, WordSize
  <1> HIDE DEF o, w
  <1>2. CASE w = 0
    <2>1. S_BFE_I32(a, b) = Nonzero(0)
      BY <1>2 DEF S_BFE_I32, w
    <2> QED
      BY <1>1, <1>2, <2>1 DEF w
  <1>3. CASE w # 0 /\ w + o < W
    <2> DEFINE n == W - o - w
               u == Wrap(a * 2^n)
               r == Wrap(Signed(u) \div 2^(W - w))
    <2>1. n \in 0..W-1 /\ W - w \in 0..W-1
      BY <1>1, <1>3
    <2>2. u \in Word /\ \A i \in 0..W-1 : BitOf(u, i) = IF i < n THEN 0 ELSE BitOf(a, i - n)
      BY <2>1, LeftShift
    <2>3. r \in Word /\ \A i \in 0..W-1 : BitOf(r, i) = BitOf(u, Smaller(i + (W - w), W - 1))
      <3> HIDE DEF u
      <3> QED
        BY <2>1, <2>2, ArithmeticShift
    <2>4. S_BFE_I32(a, b) = Nonzero(r)
      BY <1>3 DEF S_BFE_I32, o, w
    <2> HIDE DEF u, r
    <2>5. ASSUME NEW i \in 0..W-1
          PROVE  BitOf(r, i) = BitOf(a, Smaller(o + Smaller(i, w - 1), W - 1))
      <3> DEFINE j == Smaller(i + (W - w), W - 1)
      <3>1. j \in 0..W-1 /\ ~(j < n) /\ j - n = Smaller(o + Smaller(i, w - 1), W - 1)
        BY <1>1, <1>3, <2>1 DEF Smaller
      <3> HIDE DEF j
      <3>2. BitOf(u, j) = BitOf(a, j - n)
        BY <2>2, <3>1
      <3>3. BitOf(r, i) = BitOf(u, j)
        BY <2>3 DEF j
      <3> QED
        BY <3>1, <3>2, <3>3
    <2> QED
      BY <1>3, <2>3, <2>4, <2>5 DEF o, w
  <1>4. CASE w # 0 /\ ~(w + o < W)
    <2> DEFINE r == Wrap(Signed(a) \div 2^o)
    <2>1. r \in Word /\ \A i \in 0..W-1 : BitOf(r, i) = BitOf(a, Smaller(i + o, W - 1))
      BY <1>1, ArithmeticShift
    <2>2. S_BFE_I32(a, b) = Nonzero(r)
      BY <1>4 DEF S_BFE_I32, o, w
    <2> HIDE DEF r
    <2>3. ASSUME NEW i \in 0..W-1
          PROVE  Smaller(i + o, W - 1) = Smaller(o + Smaller(i, w - 1), W - 1)
      BY <1>1, <1>4 DEF Smaller
    <2> QED
      BY <1>4, <2>1, <2>2, <2>3 DEF o, w
  <1> QED
    BY <1>2, <1>3, <1>4
-----------------------------------------------------------------------------
(* What a handler leaves in a register and in SCC.                         *)
Result == { <<r, c>> : r \in Word, c \in {0, 1} }

LEMMA FlagType == \A p : Flag(p) \in {0, 1}
  BY DEF Flag

LEMMA ResultType ==
    ASSUME NEW r \in Word
    PROVE  /\ Nonzero(r) \in Result
           /\ \A p : <<r, Flag(p)>> \in Result
           /\ \A c \in {0, 1} : <<r, c>> \in Result
  BY FlagType DEF Nonzero, Result

LEMMA ResultParts ==
    ASSUME NEW r \in Result
    PROVE  r[1] \in Word /\ r[2] \in {0, 1}
  BY DEF Result

(* The sum of two words has one bit more than a word.                      *)
LEMMA Carry ==
    ASSUME NEW a \in Word, NEW b \in Word
    PROVE  /\ S_ADD_U32(a, b) \in Result
           /\ S_ADD_U32(a, b)[1] + S_ADD_U32(a, b)[2] * 2^W = a + b
  <1> DEFINE m == 2^W
             q == (a + b) \div m
             r == (a + b) % m
  <1>1. m \in Nat \ {0} /\ a \in 0..m-1 /\ b \in 0..m-1 /\ a + b \in Int
    BY WordSize DEF Word
  <1> HIDE DEF m
  <1>2. r \in 0..m-1 /\ q \in Int /\ a + b = q * m + r
    BY <1>1, DivMod
  <1>3. q \in 0..2-1
    <2>1. 0 * m <= a + b /\ a + b < 2 * m
      BY <1>1
    <2> QED
      BY <1>1, <2>1, DivRange
  <1>4. S_ADD_U32(a, b) = <<r, q>>
    BY DEF S_ADD_U32, Wrap, m
  <1> HIDE DEF q, r
  <1>5. r + q * m = a + b
    <2>1. q * m \in Int
      BY <1>1, <1>2
    <2> QED
      BY <1>1, <1>2, <2>1
  <1>6. r \in Word /\ q \in {0, 1}
    BY <1>2, <1>3 DEF Word, m
  <1> QED
    BY <1>4, <1>5, <1>6 DEF Result, m

(* A reported overflow is one: the sign of the wrapped sum or difference   *)
(* is not the sign of the exact one.                                       *)
LEMMA SignedSum ==
    ASSUME NEW a \in Word, NEW b \in Word
    PROVE  /\ S_ADD_I32(a, b) \in Result
           /\ S_ADD_I32(a, b)[2] = 1 => Signed(S_ADD_I32(a, b)[1]) # Signed(a) + Signed(b)
           /\ S_SUB_I32(a, b) \in Result
           /\ S_SUB_I32(a, b)[2] = 1 => Signed(S_SUB_I32(a, b)[1]) # Signed(a) - Signed(b)
  <1> DEFINE sum == Wrap(a + b)
             diff == Wrap(a - b)
             up(r) == \/ Signed(a) > 0 /\ Signed(r) < 0
                      \/ Signed(a) < 0 /\ Signed(r) > 0
             add == IF Negative(a) # Negative(b) THEN 0 ELSE Flag(up(sum))
             sub == IF Negative(a) = Negative(b) THEN 0 ELSE Flag(up(diff))
  <1>0. 2^(W-1) \in Nat
    BY WordSize
  <1>1. a + b \in Int /\ a - b \in Int
    BY WordSize DEF Word
  <1>2. sum \in Word /\ diff \in Word
    BY <1>1, WrapFacts
  <1> HIDE DEF sum, diff
  <1>3. /\ Signed(a) \in Int /\ Signed(b) \in Int /\ Signed(sum) \in Int /\ Signed(diff) \in Int
        /\ Signed(a) < 0 <=> Negative(a)
        /\ Signed(b) < 0 <=> Negative(b)
    BY <1>0, <1>2, SignedFacts
  <1>4. Negative(a) \in BOOLEAN /\ Negative(b) \in BOOLEAN
    BY DEF Negative
  <1>5. S_ADD_I32(a, b) = <<sum, add>> /\ S_SUB_I32(a, b) = <<diff, sub>>
    BY DEF S_ADD_I32, S_SUB_I32, sum, diff
  <1>6. add \in {0, 1} /\ sub \in {0, 1}
    BY FlagType
  <1>7. add = 1 => Signed(sum) # Signed(a) + Signed(b)
    BY <1>3, <1>4 DEF Flag
  <1>8. sub = 1 => Signed(diff) # Signed(a) - Signed(b)
    BY <1>3, <1>4 DEF Flag
  <1> HIDE DEF add, sub
  <1>9. <<sum, add>> \in Result /\ <<diff, sub>> \in Result
    BY <1>2, <1>6, ResultType
  <1> QED
    BY <1>5, <1>7, <1>8, <1>9

(* The immediate of SOPK, written to a register, is read back.             *)
LEMMA SignExtended ==
    ASSUME NEW k \in Immediates
    PROVE  k \in Int /\ Wrap(k) \in Word /\ Signed(Wrap(k)) = k
  <1> DEFINE h == 2^(W-1)
             m == 2^W
             p == 2^((W \div 2) - 1)
  <1>1. h \in Nat \ {0} /\ m = 2 * h /\ p \in Nat /\ p <= h
    <2>1. W \in Nat /\ (W \div 2) - 1 \in 0..W-1 /\ W - 1 \in Nat /\ W - 1 <= W
          /\ (W \div 2) - 1 <= W - 1
      BY WordSize
    <2> QED
      BY <2>1, WordSize, PowerMonotone, PowerAssumption
  <1>2. k \in -p..p-1
    BY DEF Immediates
  <1> HIDE DEF h, m, p
  <1>3. k \in Int /\ -h <= k /\ k < h
    BY <1>1, <1>2
  <1>4. CASE k >= 0
    <2>1. k \in Word
      BY <1>1, <1>3, <1>4 DEF Word, m
    <2>2. Wrap(k) = k
      BY <1>3, <2>1, WrapFacts
    <2> QED
      BY <1>1, <1>3, <2>1, <2>2 DEF Signed, Negative, h
  <1>5. CASE k < 0
    <2>1. (-1) * m <= k /\ k < (-1) * m + m
      BY <1>1, <1>3, <1>5
    <2>2. m \in Nat \ {0}
      BY <1>1
    <2>3. k \div m = -1
      BY <1>3, <2>1, <2>2, DivUnique
    <2>4. k % m = k + m
      BY <1>3, <2>2, <2>3, DivMod
    <2>5. Wrap(k) = k + m
      BY <2>4 DEF Wrap, m
    <2>6. Wrap(k) \in Word /\ k + m >= h
      BY <1>3, <1>1, WrapFacts
    <2> QED
      BY <1>1, <1>3, <2>5, <2>6 DEF Signed, Negative, h, m
  <1> QED
    BY <1>3, <1>4, <1>5

(* Every handler of SOP2 and SOPK leaves a word and a flag.                *)
LEMMA SOP2Type ==
    ASSUME NEW op \in SOP2Ops, NEW a \in Word, NEW b \in Word, NEW c \in {0, 1}
    PROVE  SOP2(op, a, b, c) \in Result
  <1> DEFINE n == Shift(b)
  <1>1. n \in 0..W-1
    BY FieldArguments
  <1>2. Signed(a) \in Int /\ Signed(b) \in Int /\ Signed(a) * Signed(b) \in Int
    <2>1. 2^(W-1) \in Nat
      BY WordSize
    <2>2. Signed(a) \in Int /\ Signed(b) \in Int
      BY <2>1, SignedFacts
    <2> QED
      BY <2>2
  <1>3. CASE op = "S_ADD_U32"
    BY <1>3, Carry DEF SOP2
  <1>4. CASE op = "S_ADD_I32"
    BY <1>4, SignedSum DEF SOP2
  <1>5. CASE op = "S_SUB_I32"
    BY <1>5, SignedSum DEF SOP2
  <1>6. CASE op = "S_MIN_U32"
    BY <1>6, ResultType DEF SOP2, S_MIN_U32
  <1>7. CASE op = "S_MAX_U32"
    BY <1>7, ResultType DEF SOP2, S_MAX_U32
  <1>8. CASE op = "S_MAX_I32"
    BY <1>8, ResultType DEF SOP2, S_MAX_I32
  <1>9. CASE op = "S_CSELECT_B32"
    BY <1>9, ResultType DEF SOP2, S_CSELECT_B32
  <1>10. CASE op = "S_AND_B32"
    BY <1>10, ResultType, BitOperators DEF SOP2, S_AND_B32
  <1>11. CASE op = "S_OR_B32"
    BY <1>11, ResultType, BitOperators DEF SOP2, S_OR_B32
  <1>12. CASE op = "S_LSHL_B32"
    BY <1>1, <1>12, ResultType, LeftShift DEF SOP2, S_LSHL_B32
  <1>13. CASE op = "S_LSHR_B32"
    BY <1>1, <1>13, ResultType, LogicalShift DEF SOP2, S_LSHR_B32
  <1>14. CASE op = "S_ASHR_I32"
    BY <1>1, <1>14, ResultType, ArithmeticShift DEF SOP2, S_ASHR_I32
  <1>15. CASE op = "S_MUL_I32"
    BY <1>2, <1>15, ResultType, WrapFacts DEF SOP2, S_MUL_I32
  <1>16. CASE op = "S_BFE_I32"
    BY <1>16, ResultType, Field DEF SOP2
  <1> QED
    BY <1>3, <1>4, <1>5, <1>6, <1>7, <1>8, <1>9, <1>10, <1>11, <1>12, <1>13, <1>14,
       <1>15, <1>16 DEF SOP2Ops

LEMMA SOPKType ==
    ASSUME NEW op \in SOPKOps, NEW a \in Word, NEW k \in Immediates, NEW c \in {0, 1}
    PROVE  SOPK(op, a, k, c) \in Result
  <1>1. k \in Int /\ Wrap(k) \in Word
    BY SignExtended
  <1>2. Signed(a) \in Int
    BY WordSize, SignedFacts
  <1>3. CASE op = "S_MOVK_I32"
    BY <1>1, <1>3, ResultType DEF SOPK
  <1>4. CASE op = "S_ADDK_I32"
    BY <1>1, <1>4, SignedSum DEF SOPK, S_ADDK_I32
  <1>5. CASE op = "S_MULK_I32"
    <2>1. Signed(a) * k \in Int
      BY <1>1, <1>2
    <2>2. Wrap(Signed(a) * k) \in Word
      BY <2>1, WrapFacts
    <2> QED
      BY <1>5, <2>2, ResultType DEF SOPK, S_MULK_I32
  <1>6. CASE op = "S_CMPK_LE_U32"
    BY <1>6, ResultType DEF SOPK
  <1> QED
    BY <1>3, <1>4, <1>5, <1>6 DEF SOPKOps

(* The complement of a word.                                               *)
LEMMA InvertFacts ==
    ASSUME NEW a \in Word
    PROVE  /\ Invert(a) \in Word
           /\ \A i \in 0..W-1 : BitOf(Invert(a), i) = 1 - BitOf(a, i)
  <1>1. 2^W \in Nat \ {0} /\ a \in 0..2^W-1 /\ W \in Nat
    BY WordSize DEF Word
  <1>2. Invert(a) \in Word
    BY <1>1 DEF Invert, Word
  <1>3. ASSUME NEW i \in 0..W-1 PROVE BitOf(Invert(a), i) = 1 - BitOf(a, i)
    <2> DEFINE e == 2^i
               h == 2^(W - i - 1)
               q == a \div e
               r == a % e
    <2>1. i \in 0..W /\ W - i - 1 \in 0..W-1 /\ (W - i - 1) + 1 = W - i /\ W - i \in Nat
          /\ i + (W - i) = W
      BY <1>1
    <2>2. e \in Nat \ {0} /\ h \in Nat /\ 2^W = e * (2 * h)
      <3>1. e \in Nat \ {0} /\ h \in Nat
        BY <2>1, Powers, PowerAssumption
      <3>2. 2^(W - i) = 2 * h
        BY <2>1, PowerAssumption
      <3>3. 2^(i + (W - i)) = e * 2^(W - i)
        BY <2>1, PowerSum
      <3> QED
        BY <2>1, <3>1, <3>2, <3>3
    <2> HIDE DEF e, h
    <2>3. r \in 0..e-1 /\ q \in Int /\ a = q * e + r
      BY <1>1, <2>2, DivMod
    <2>4. BitOf(a, i) = q % 2
      BY DEF BitOf, e
    <2> HIDE DEF q, r
    <2> DEFINE t == 2 * h - 1 - q
    <2>5. t \in Int /\ t * e = e * (2 * h) - e - q * e
      BY <2>2, <2>3
    <2>6. Invert(a) = 2^W - 1 - a /\ e * (2 * h) \in Int /\ q * e \in Int
      BY <2>2, <2>3 DEF Invert
    <2> HIDE DEF t
    <2>7. Invert(a) = t * e + (e - 1 - r) /\ t * e \in Int
      BY <1>1, <2>2, <2>3, <2>5, <2>6
    <2>8. t * e <= Invert(a) /\ Invert(a) < t * e + e /\ Invert(a) \in Int
      BY <2>2, <2>3, <2>7
    <2>9. Invert(a) \div e = t
      BY <2>2, <2>5, <2>8, DivUnique
    <2>10. BitOf(Invert(a), i) = t % 2
      BY <2>9 DEF BitOf, e
    <2>11. t % 2 = 1 - (q % 2)
      BY <2>2, <2>3 DEF t
    <2> QED
      BY <2>4, <2>10, <2>11
  <1> QED
    BY <1>2, <1>3

(* One word of an instruction on pairs.                                    *)
LEMMA PairWordFacts ==
    ASSUME NEW op \in SOP2PairOps, NEW a \in Word, NEW b \in Word
    PROVE  /\ PairWord(op, a, b) \in Word
           /\ \A i \in 0..W-1 : BitOf(PairWord(op, a, b), i) = PairBit(op, BitOf(a, i), BitOf(b, i))
  <1>1. CASE op = "S_AND_B64"
    BY <1>1, BitOperators DEF PairWord, PairBit, S_AND_B64
  <1>2. CASE op = "S_OR_B64"
    BY <1>2, BitOperators DEF PairWord, PairBit, S_OR_B64
  <1>3. CASE op = "S_XOR_B64"
    BY <1>3, BitOperators DEF PairWord, PairBit, S_XOR_B64
  <1>4. CASE op = "S_ANDN2_B64"
    <2>1. Invert(b) \in Word /\ \A i \in 0..W-1 : BitOf(Invert(b), i) = 1 - BitOf(b, i)
      BY InvertFacts
    <2>2. /\ BitAnd(a, Invert(b)) \in Word
          /\ \A i \in 0..W-1 : BitOf(BitAnd(a, Invert(b)), i) = BitOf(a, i) * BitOf(Invert(b), i)
      BY <2>1, BitOperators
    <2> QED
      BY <1>4, <2>1, <2>2 DEF PairWord, PairBit, S_ANDN2_B64
  <1>5. CASE op = "S_NAND_B64"
    <2>1. /\ BitAnd(a, b) \in Word
          /\ \A i \in 0..W-1 : BitOf(BitAnd(a, b), i) = BitOf(a, i) * BitOf(b, i)
      BY BitOperators
    <2>2. /\ Invert(BitAnd(a, b)) \in Word
          /\ \A i \in 0..W-1 : BitOf(Invert(BitAnd(a, b)), i) = 1 - BitOf(BitAnd(a, b), i)
      BY <2>1, InvertFacts
    <2> QED
      BY <1>5, <2>1, <2>2 DEF PairWord, PairBit, S_NAND_B64
  <1> QED
    BY <1>1, <1>2, <1>3, <1>4, <1>5 DEF SOP2PairOps
-----------------------------------------------------------------------------
(* What holds of the instruction just executed.  Nothing is carried from   *)
(* one instruction to the next but the types.                              *)
IInv == TypeOK /\ FlagsExact /\ ShiftsExact /\ FieldExtracted /\ LiteralCompared /\ PairsExact

(* Where the registers of an instruction are.                              *)
LEMMA RegisterNumbers ==
    /\ WordRegs \subseteq Regs
    /\ \A d \in Pairs : d \in Regs /\ d + 1 \in Regs /\ d # d + 1
    /\ ExecReg \in Pairs
  BY AluAssumption DEF Regs, Pairs

(* A step that is none of the instructions the properties speak of.        *)
LEMMA OtherStep ==
    ASSUME TypeOK', last'.op \in {"none", "S_MOVK_I32", "S_CMPK_LE_U32"} \cup SOP1Ops \cup SOP1PairOps
    PROVE  IInv'
  BY DEF IInv, FlagsExact, CarryExact, OverflowReal, ShiftsExact, FieldExtracted,
         LiteralCompared, PairsExact, SOP1Ops, SOP1PairOps, SOPCOps, SOP2PairOps

(* SOP2.                                                                   *)
LEMMA SOP2Step ==
    ASSUME TypeOK, NEW op, NEW x \in WordRegs, NEW y \in WordRegs, NEW d \in WordRegs, NEW k,
           ExecuteSOP2(op, x, y, d, k)
    PROVE  IInv'
  <1> DEFINE a == s[x]
             b == s[y]
             r == SOP2(op, a, b, scc)
  <1>1. /\ op \in SOP2Ops /\ s' = [s EXCEPT ![d] = r[1]] /\ scc' = r[2]
        /\ last' = Before(op, x, y, d, k)
    BY DEF ExecuteSOP2, ReadSOP2
  <1>2. a \in Word /\ b \in Word /\ d \in Regs /\ scc \in {0, 1}
    BY RegisterNumbers DEF TypeOK
  <1>3. r \in Result
    BY <1>1, <1>2, SOP2Type
  <1>4. r[1] \in Word /\ r[2] \in {0, 1}
    BY <1>3, ResultParts
  <1>5. TypeOK'
    <2> HIDE DEF r
    <2> QED
      BY <1>1, <1>2, <1>4 DEF TypeOK
  <1>6. last'.op = op /\ A' = a /\ B' = b /\ D' = r[1] /\ scc' = r[2]
    <2> HIDE DEF r
    <2>1. s'[d] = r[1]
      BY <1>1, <1>2 DEF TypeOK
    <2> QED
      BY <1>1, <2>1 DEF Before, A, B, D
  <1>7. CarryExact'
    <2> SUFFICES ASSUME op = "S_ADD_U32" PROVE r[1] + r[2] * 2^W = a + b
      BY <1>6 DEF CarryExact
    <2>1. r = S_ADD_U32(a, b)
      BY DEF SOP2
    <2> HIDE DEF r, a, b
    <2> QED
      BY <1>2, <2>1, Carry
  <1>8. OverflowReal'
    <2> SUFFICES ASSUME op \in {"S_ADD_I32", "S_SUB_I32"}, r[2] = 1
                 PROVE  Signed(r[1]) # Exact'
      BY <1>1, <1>6 DEF OverflowReal, SOP2Ops
    <2>1. CASE op = "S_ADD_I32"
      <3>1. r = S_ADD_I32(a, b)
        BY <2>1 DEF SOP2
      <3>2. Exact' = Signed(a) + Signed(b)
        BY <1>6, <2>1 DEF Exact
      <3> HIDE DEF r, a, b
      <3> QED
        BY <1>2, <3>1, <3>2, SignedSum
    <2>2. CASE op = "S_SUB_I32"
      <3>1. r = S_SUB_I32(a, b)
        BY <2>2 DEF SOP2
      <3>2. Exact' = Signed(a) - Signed(b)
        BY <1>6, <2>2 DEF Exact
      <3> HIDE DEF r, a, b
      <3> QED
        BY <1>2, <3>1, <3>2, SignedSum
    <2> QED
      BY <2>1, <2>2
  <1>9. ShiftsExact'
    <2> DEFINE n == b % W
    <2>1. n \in 0..W-1 /\ Shift(b) = n
      BY <1>2, FieldArguments DEF Shift
    <2> HIDE DEF n, a, b, r
    <2>2. CASE op = "S_LSHL_B32"
      <3> DEFINE v == Wrap(a * 2^n)
      <3>1. r = Nonzero(v)
        BY <2>1, <2>2 DEF SOP2, S_LSHL_B32, r
      <3>2. \A i \in 0..W-1 : BitOf(v, i) = IF i < n THEN 0 ELSE BitOf(a, i - n)
        BY <1>2, <2>1, LeftShift
      <3> HIDE DEF v
      <3> QED
        BY <1>6, <2>2, <3>1, <3>2 DEF ShiftsExact, Nonzero, n
    <2>3. CASE op = "S_LSHR_B32"
      <3> DEFINE v == a \div 2^n
      <3>1. r = Nonzero(v)
        BY <2>1, <2>3 DEF SOP2, S_LSHR_B32, r
      <3>2. \A i \in 0..W-1 : BitOf(v, i) = IF i + n < W THEN BitOf(a, i + n) ELSE 0
        BY <1>2, <2>1, LogicalShift
      <3> HIDE DEF v
      <3> QED
        BY <1>6, <2>3, <3>1, <3>2 DEF ShiftsExact, Nonzero, n
    <2>4. CASE op = "S_ASHR_I32"
      <3> DEFINE v == Wrap(Signed(a) \div 2^n)
      <3>1. r = Nonzero(v)
        BY <2>1, <2>4 DEF SOP2, S_ASHR_I32, r
      <3>2. \A i \in 0..W-1 : BitOf(v, i) = BitOf(a, Smaller(i + n, W - 1))
        BY <1>2, <2>1, ArithmeticShift
      <3> HIDE DEF v
      <3> QED
        BY <1>6, <2>4, <3>1, <3>2 DEF ShiftsExact, Nonzero, n
    <2>5. CASE op \notin {"S_LSHL_B32", "S_LSHR_B32", "S_ASHR_I32"}
      BY <1>6, <2>5 DEF ShiftsExact
    <2> QED
      BY <2>2, <2>3, <2>4, <2>5
  <1>10. FieldExtracted'
    <2> SUFFICES ASSUME op = "S_BFE_I32", Width(b) < W
                 PROVE  /\ Width(b) = 0 => r[1] = 0
                        /\ \A i \in 0..Width(b)-1 :
                              BitOf(r[1], i) = BitOf(a, Smaller(Offset(b) + i, W - 1))
      BY <1>6 DEF FieldExtracted
    <2>1. r = S_BFE_I32(a, b)
      BY DEF SOP2
    <2> HIDE DEF r, a, b
    <2>2. PICK v \in Word :
              /\ S_BFE_I32(a, b) = Nonzero(v)
              /\ Width(b) = 0 => v = 0
              /\ Width(b) # 0 => \A i \in 0..W-1 :
                    BitOf(v, i) = BitOf(a, Smaller(Offset(b) + Smaller(i, Width(b) - 1), W - 1))
      BY <1>2, Field
    <2>3. r[1] = v
      BY <2>1, <2>2 DEF Nonzero
    <2>4. ASSUME NEW i \in 0..Width(b)-1
          PROVE  BitOf(v, i) = BitOf(a, Smaller(Offset(b) + i, W - 1))
      <3>1. W \in Nat /\ Width(b) \in Nat
        BY <1>2, WordSize, FieldArguments
      <3>2. i \in 0..W-1 /\ Width(b) # 0 /\ Smaller(i, Width(b) - 1) = i
        BY <3>1 DEF Smaller
      <3> QED
        BY <2>2, <3>2
    <2> QED
      BY <2>2, <2>3, <2>4
  <1>11. LiteralCompared' /\ PairsExact'
    BY <1>1, <1>6 DEF LiteralCompared, PairsExact, SOP2Ops, SOPCOps, SOP2PairOps
  <1> QED
    BY <1>5, <1>7, <1>8, <1>9, <1>10, <1>11 DEF IInv, FlagsExact

(* SOPK: the immediate is the exact addend or factor.                      *)
LEMMA SOPKStep ==
    ASSUME TypeOK, NEW op, NEW d \in WordRegs, NEW k \in Immediates, ExecuteSOPK(op, d, k)
    PROVE  IInv'
  <1> DEFINE a == s[d]
             r == SOPK(op, a, k, scc)
  <1>1. op \in SOPKOps /\ s' = [s EXCEPT ![d] = r[1]] /\ scc' = r[2] /\ last' = Before(op, d, d, d, k)
    BY DEF ExecuteSOPK
  <1>2. a \in Word /\ d \in Regs /\ scc \in {0, 1}
    BY RegisterNumbers DEF TypeOK
  <1>3. r \in Result
    BY <1>1, <1>2, SOPKType
  <1>4. r[1] \in Word /\ r[2] \in {0, 1}
    BY <1>3, ResultParts
  <1>5. TypeOK'
    <2> HIDE DEF r
    <2> QED
      BY <1>1, <1>2, <1>4 DEF TypeOK
  <1>6. last'.op = op /\ last'.k = k /\ A' = a /\ D' = r[1] /\ scc' = r[2]
    <2> HIDE DEF r
    <2>1. s'[d] = r[1]
      BY <1>1, <1>2 DEF TypeOK
    <2> QED
      BY <1>1, <2>1 DEF Before, A, D
  <1>7. OverflowReal'
    <2> SUFFICES ASSUME op \in {"S_ADDK_I32", "S_MULK_I32"}, r[2] = 1
                 PROVE  Signed(r[1]) # Exact'
      BY <1>1, <1>6 DEF OverflowReal, SOPKOps
    <2>1. CASE op = "S_ADDK_I32"
      <3>1. r = S_ADD_I32(a, Wrap(k))
        BY <2>1 DEF SOPK, S_ADDK_I32
      <3>2. Exact' = Signed(a) + k
        BY <1>6, <2>1 DEF Exact
      <3>3. Wrap(k) \in Word /\ Signed(Wrap(k)) = k
        BY SignExtended
      <3> HIDE DEF r, a
      <3> QED
        BY <1>2, <3>1, <3>2, <3>3, SignedSum
    <2>2. CASE op = "S_MULK_I32"
      <3> DEFINE p == Wrap(Signed(a) * k)
      <3>1. r = <<p, Flag(Signed(a) * k > Signed(p))>>
        BY <2>2 DEF SOPK, S_MULK_I32
      <3>2. Exact' = Signed(a) * k
        BY <1>6, <2>2 DEF Exact
      <3>3. Signed(a) * k \in Int /\ Signed(p) \in Int
        <4>1. k \in Int /\ Signed(a) \in Int
          BY <1>2, WordSize, SignedFacts, SignExtended
        <4>2. Signed(a) * k \in Int
          BY <4>1
        <4>3. p \in Word
          BY <4>2, WrapFacts
        <4> HIDE DEF p
        <4> QED
          BY <4>2, <4>3, WordSize, SignedFacts
      <3> HIDE DEF r, a, p
      <3> QED
        BY <3>1, <3>2, <3>3 DEF Flag
    <2> QED
      BY <2>1, <2>2
  <1>8. CarryExact' /\ ShiftsExact' /\ FieldExtracted' /\ LiteralCompared' /\ PairsExact'
    BY <1>1, <1>6 DEF CarryExact, ShiftsExact, FieldExtracted, LiteralCompared, PairsExact,
                      SOPKOps, SOPCOps, SOP2PairOps
  <1> QED
    BY <1>5, <1>7, <1>8 DEF IInv, FlagsExact

(* SOPC: a literal source is replaced, the other is a register.            *)
LEMMA SOPCStep ==
    ASSUME TypeOK, NEW op, NEW x \in WordRegs, NEW y \in WordRegs, NEW k, ExecuteSOPC(op, x, y, k)
    PROVE  IInv'
  <1>1. /\ op \in SOPCOps /\ s' = s /\ last' = Before(op, x, y, 0, k)
        /\ ~(x = LitReg /\ y = LitReg)
        /\ scc' = Flag(SOPC(op, ReadSOPC(x, k), ReadSOPC(y, k)))
    BY DEF ExecuteSOPC
  <1>2. TypeOK'
    BY <1>1, FlagType DEF TypeOK
  <1>3. last'.op = op /\ last'.x = x /\ last'.k = k /\ B' = s[y]
    BY <1>1 DEF Before, B
  <1>4. LiteralCompared'
    <2> SUFFICES ASSUME x = LitReg PROVE scc' = Flag(SOPC(op, k, s[y]))
      BY <1>3 DEF LiteralCompared
    <2>1. ReadSOPC(x, k) = k /\ ReadSOPC(y, k) = s[y]
      BY <1>1 DEF ReadSOPC
    <2> QED
      BY <1>1, <2>1
  <1>5. CarryExact' /\ OverflowReal' /\ ShiftsExact' /\ FieldExtracted' /\ PairsExact'
    BY <1>1, <1>3 DEF CarryExact, OverflowReal, ShiftsExact, FieldExtracted, PairsExact,
                      SOPCOps, SOP2PairOps
  <1> QED
    BY <1>2, <1>4, <1>5 DEF IInv, FlagsExact

(* SOP2 on pairs: both words are read before either is written.            *)
LEMMA PairStep ==
    ASSUME TypeOK, NEW op, NEW x \in Pairs, NEW y \in Pairs, NEW d \in Pairs, ExecutePair(op, x, y, d)
    PROVE  IInv'
  <1> DEFINE lo == PairWord(op, s[x], s[y])
             hi == PairWord(op, s[x + 1], s[y + 1])
  <1>1. op \in SOP2PairOps /\ s' = WritePair(d, lo, hi) /\ scc' = PairScc(lo, hi)
        /\ last' = Before(op, x, y, d, 0)
    BY DEF ExecutePair
  <1>2. /\ s[x] \in Word /\ s[y] \in Word /\ s[x + 1] \in Word /\ s[y + 1] \in Word
        /\ d \in Regs /\ d + 1 \in Regs /\ d # d + 1
    BY RegisterNumbers DEF TypeOK
  <1>3. /\ lo \in Word /\ \A i \in 0..W-1 : BitOf(lo, i) = PairBit(op, BitOf(s[x], i), BitOf(s[y], i))
        /\ hi \in Word
        /\ \A i \in 0..W-1 : BitOf(hi, i) = PairBit(op, BitOf(s[x + 1], i), BitOf(s[y + 1], i))
    BY <1>1, <1>2, PairWordFacts
  <1> HIDE DEF lo, hi
  <1>4. TypeOK' /\ s'[d] = lo /\ s'[d + 1] = hi
    BY <1>1, <1>2, <1>3, FlagType DEF TypeOK, WritePair, PairScc
  <1>5. /\ last'.op = op /\ last'.x = x /\ last'.y = y /\ last'.d = d /\ last'.s = s
    BY <1>1 DEF Before
  <1>6. d + 0 = d /\ x + 0 = x /\ y + 0 = y
    BY DEF Pairs
  <1>7. PairsExact'
    <2>1. ASSUME NEW h \in {0, 1}, NEW i \in 0..W-1
          PROVE  BitOf(s'[d + h], i) = PairBit(op, BitOf(s[x + h], i), BitOf(s[y + h], i))
      <3>1. CASE h = 0
        BY <1>3, <1>4, <1>6, <3>1
      <3>2. CASE h = 1
        BY <1>3, <1>4, <3>2
      <3> QED
        BY <3>1, <3>2
    <2>2. scc' = 1 <=> \E h \in {0, 1} : s'[d + h] # 0
      BY <1>1, <1>4, <1>6 DEF PairScc, Flag
    <2> QED
      BY <1>5, <2>1, <2>2 DEF PairsExact
  <1>8. CarryExact' /\ OverflowReal' /\ ShiftsExact' /\ FieldExtracted' /\ LiteralCompared'
    BY <1>1, <1>5 DEF CarryExact, OverflowReal, ShiftsExact, FieldExtracted, LiteralCompared,
                      SOPCOps, SOP2PairOps
  <1> QED
    BY <1>4, <1>7, <1>8 DEF IInv, FlagsExact

(* SOP1, whose results are checked by TLC only: the registers stay words.  *)
LEMMA SOP1Step ==
    ASSUME TypeOK, NEW op, NEW x \in WordRegs, NEW d \in WordRegs, ExecuteSOP1(op, x, d)
    PROVE  IInv'
  <1>1. s[x] \in Word /\ d \in Regs
    BY RegisterNumbers DEF TypeOK
  <1>2. Invert(s[x]) \in Word
    BY <1>1, InvertFacts
  <1>3. TypeOK'
    BY <1>1, <1>2 DEF ExecuteSOP1, TypeOK
  <1>4. last'.op \in SOP1Ops
    BY DEF ExecuteSOP1, Before
  <1> QED
    BY <1>3, <1>4, OtherStep

LEMMA SOP1PairStep ==
    ASSUME TypeOK, NEW op, NEW x \in Pairs, NEW d \in Pairs, ExecuteSOP1Pair(op, x, d)
    PROVE  IInv'
  <1> DEFINE lo    == BitAnd(s[x], s[ExecReg])
             hi    == BitAnd(s[x + 1], s[ExecReg + 1])
             saved == [[WritePair(d, s[ExecReg], s[ExecReg + 1])
                          EXCEPT ![ExecReg] = lo] EXCEPT ![ExecReg + 1] = hi]
             after == IF op = "S_AND_SAVEEXEC_B64" THEN saved ELSE s
             dst   == IF op = "S_MOV_B64" THEN <<s[x], s[x + 1]>> ELSE <<0, 0>>
  <1>1. /\ s[x] \in Word /\ s[x + 1] \in Word /\ s[ExecReg] \in Word /\ s[ExecReg + 1] \in Word
        /\ d \in Regs /\ d + 1 \in Regs /\ 0 \in Word
    BY RegisterNumbers, WordSize DEF TypeOK
  <1>2. lo \in Word /\ hi \in Word
    BY <1>1, BitOperators
  <1>3. /\ s' = IF Collect THEN [[after EXCEPT ![d] = dst[1]] EXCEPT ![d + 1] = dst[2]]
                           ELSE after
        /\ scc' = IF op = "S_AND_SAVEEXEC_B64" THEN PairScc(lo, hi) ELSE scc
    BY DEF ExecuteSOP1Pair
  <1>4. dst[1] \in Word /\ dst[2] \in Word
    BY <1>1
  <1> HIDE DEF lo, hi, dst
  <1>5. after \in [Regs -> Word]
    BY <1>1, <1>2 DEF TypeOK, WritePair
  <1> HIDE DEF after
  <1>6. TypeOK'
    BY <1>1, <1>3, <1>4, <1>5, FlagType DEF TypeOK, PairScc
  <1>7. last'.op \in SOP1PairOps
    BY DEF ExecuteSOP1Pair, Before
  <1> QED
    BY <1>6, <1>7, OtherStep

LEMMA InitInv == Init => IInv
  BY DEF Init, IInv, TypeOK, FlagsExact, CarryExact, OverflowReal, ShiftsExact, FieldExtracted,
         LiteralCompared, PairsExact, SOPCOps, SOP2PairOps

LEMMA NextInv == IInv /\ [Next]_vars => IInv'
  <1> SUFFICES ASSUME IInv, [Next]_vars PROVE IInv'
    OBVIOUS
  <1>0. TypeOK
    BY DEF IInv
  <1>1. CASE Next /\ last.op = "none"
    <2>1. PICK op \in Ops :
            \/ \E x, y, d \in WordRegs : \E k \in Carried(x, y) : ExecuteSOP2(op, x, y, d, k)
            \/ \E x, y \in WordRegs : \E k \in Carried(x, y) : ExecuteSOPC(op, x, y, k)
            \/ \E d \in WordRegs : \E k \in Immediates : ExecuteSOPK(op, d, k)
            \/ \E x, y, d \in Pairs : ExecutePair(op, x, y, d)
            \/ \E x, d \in WordRegs : ExecuteSOP1(op, x, d)
            \/ \E x, d \in Pairs : ExecuteSOP1Pair(op, x, d)
      BY <1>1 DEF Next, Execute
    <2> QED
      BY <1>0, <2>1, SOP2Step, SOPCStep, SOPKStep, PairStep, SOP1Step, SOP1PairStep
  <1>2. CASE Next /\ last.op # "none"
    <2>1. last'.op = "none" /\ s' = s /\ scc' = scc
      BY <1>2 DEF Next, Forget
    <2>2. TypeOK'
      BY <1>0, <2>1 DEF TypeOK
    <2> QED
      BY <2>1, <2>2, OtherStep
  <1>3. CASE UNCHANGED vars
    BY <1>3 DEF vars, IInv, TypeOK, FlagsExact, CarryExact, OverflowReal, Exact, ShiftsExact,
                FieldExtracted, LiteralCompared, PairsExact, A, B, D
  <1> QED
    BY <1>1, <1>2, <1>3

(* After every scalar instruction, for words of any even width and any     *)
(* registers, everything below holds.                                      *)
THEOREM Invariance == Spec => []IInv
  BY InitInv, NextInv, PTL DEF Spec

(* S_ADD_U32 loses no carry, and S_ADD_I32, S_SUB_I32, S_ADDK_I32 and      *)
(* S_MULK_I32 report no overflow that is none.                             *)
THEOREM Flags == Spec => []FlagsExact
  <1>1. IInv => FlagsExact
    BY DEF IInv
  <1> QED
    BY <1>1, Invariance, PTL

(* The shifts and S_BFE_I32 move every bit to its place, comparisons use   *)
(* the literal, and registers hold words.                                  *)
THEOREM ShiftsAndFields == Spec => []ScalarExact
  <1>1. IInv => ScalarExact
    BY DEF IInv, ScalarExact
  <1> QED
    BY <1>1, Invariance, PTL

(* The 64-bit instructions compute both words from the old registers,      *)
(* however source and destination pairs overlap.                           *)
THEOREM PairWords == Spec => []PairsExact
  <1>1. IInv => PairsExact
    BY DEF IInv
  <1> QED
    BY <1>1, Invariance, PTL
=============================================================================
