------------------------------- MODULE Words -------------------------------
(***************************************************************************)
(* Registers of W bits (union Register of src/isa/inc/ExecTypes.h has 32): *)
(* a word is an unsigned number, read as signed in two's complement.       *)
(* Signed overflow wraps, as it does in the default (debug) build.         *)
(***************************************************************************)
EXTENDS Integers

CONSTANT W

ASSUME WidthAssumption == W \in Nat /\ W > 1 /\ W % 2 = 0

(* What exponentiation is on the powers of two used here.                  *)
ASSUME PowerAssumption == \A n \in 0..W-1 : 2^n \in Nat /\ 2^(n+1) = 2 * 2^n

Word == 0..2^W-1
Wrap(i) == i % 2^W
Negative(a) == a >= 2^(W-1)
Signed(a) == IF Negative(a) THEN a - 2^W ELSE a
Invert(a) == 2^W - 1 - a
Flag(b) == IF b THEN 1 ELSE 0
BitOf(a, i) == (a \div 2^i) % 2

(* The word of the bits b[0], b[1], ...                                    *)
FromBits(b) == LET v[n \in 0..W] == IF n = 0 THEN 0 ELSE v[n-1] + b[n-1] * 2^(n-1)
               IN  v[W]

(* The operators &, | and ^ of C++.                                        *)
BitAnd(a, b) == FromBits([i \in 0..W-1 |-> BitOf(a, i) * BitOf(b, i)])
BitOr(a, b) == FromBits([i \in 0..W-1 |-> BitOf(a, i) + BitOf(b, i) - BitOf(a, i) * BitOf(b, i)])
BitXor(a, b) == FromBits([i \in 0..W-1 |-> (BitOf(a, i) + BitOf(b, i)) % 2])

SetBit(a, i, b) == a - BitOf(a, i) * 2^i + b * 2^i
Smaller(i, j) == IF i < j THEN i ELSE j
=============================================================================
