------------------------- MODULE KernelInfo_proofs -------------------------
(***************************************************************************)
(* The cursors of KernelInfo walk every grid and every block, of any size, *)
(* once and in linear order.                                               *)
(***************************************************************************)
EXTENDS KernelInfo, TLAPS

Dim3s == [x : Nat, y : Nat, z : Nat]

(* The cursor i has been incremented n times within the bound b: as long   *)
(* as it is inside, n is its linear index, and when z has reached its      *)
(* bound, at least Count(b) increments have been made.                     *)
Walks(i, b, n) ==
    /\ i \in Within(b)
    /\ n \in Nat
    /\ Count(b) # 0 =>
          /\ i.x < b.x /\ i.y < b.y
          /\ i.z < b.z => n = Linear(i, b)
          /\ i.z = b.z => n >= Count(b)

IInv ==
    /\ TypeOK
    /\ Walks(nextCta, grid, ctas)
    /\ Walks(nextTid, block, tids)
    /\ ctas <= Count(grid)

(* The arithmetic of a product: increments, sign and zero.                 *)
LEMMA Product ==
    ASSUME NEW a \in Nat, NEW b \in Nat
    PROVE  /\ a * b \in Nat
           /\ a * (b + 1) = a * b + a
           /\ a * b = 0 <=> a = 0 \/ b = 0
  <1>1. a * b \in Nat /\ a * (b + 1) = a * b + a /\ a * 0 = 0 /\ 0 * b = 0
    OBVIOUS
  <1>2. ASSUME a # 0, b # 0 PROVE a * b # 0
    <2>1. PICK c \in Nat : b = c + 1
      <3>1. b - 1 \in Nat /\ b = (b - 1) + 1
        BY <1>2
      <3> QED
        BY <3>1
    <2>2. a * b = a * c + a /\ a * c \in Nat
      BY <2>1
    <2> QED
      BY <1>2, <2>2
  <1> QED
    BY <1>1, <1>2

(* num_blocks() is zero exactly for a grid with an empty dimension.        *)
LEMMA CountZero ==
    ASSUME NEW b \in Dim3s
    PROVE  Count(b) \in Nat /\ (Count(b) = 0 <=> b.x = 0 \/ b.y = 0 \/ b.z = 0)
  <1>1. b.x \in Nat /\ b.y \in Nat /\ b.z \in Nat
    BY DEF Dim3s
  <1>2. b.x * b.y \in Nat /\ (b.x * b.y = 0 <=> b.x = 0 \/ b.y = 0)
    BY <1>1, Product
  <1>3. (b.x * b.y) * b.z \in Nat
        /\ ((b.x * b.y) * b.z = 0 <=> b.x * b.y = 0 \/ b.z = 0)
    BY <1>1, <1>2, Product
  <1> QED
    BY <1>2, <1>3 DEF Count

(* Inside the bound the linear index is below num_blocks().                *)
LEMMA LinearBelow ==
    ASSUME NEW b \in Dim3s, NEW i \in Within(b), i.x < b.x, i.y < b.y, i.z < b.z
    PROVE  Linear(i, b) \in Nat /\ Linear(i, b) < Count(b)
  <1> DEFINE p == b.x * b.y
  <1>1. /\ b.x \in Nat /\ b.y \in Nat /\ b.z \in Nat
        /\ i.x \in Nat /\ i.y \in Nat /\ i.z \in Nat
    BY DEF Dim3s, Within
  <1>2. p \in Nat
    BY <1>1, Product
  <1>3. b.x * i.y \in Nat /\ p * i.z \in Nat
    BY <1>1, <1>2, Product
  <1>4. b.x * i.y + b.x <= p
    <2>1. PICK d \in Nat : b.y = (i.y + 1) + d
      <3>1. b.y - (i.y + 1) \in Nat /\ b.y = (i.y + 1) + (b.y - (i.y + 1))
        BY <1>1
      <3> QED
        BY <3>1
    <2>2. p = b.x * i.y + b.x + b.x * d /\ b.x * d \in Nat
      BY <1>1, <2>1
    <2> QED
      BY <1>1, <1>3, <2>2
  <1>5. p * i.z + p <= p * b.z
    <2> HIDE DEF p
    <2>1. PICK d \in Nat : b.z = (i.z + 1) + d
      <3>1. b.z - (i.z + 1) \in Nat /\ b.z = (i.z + 1) + (b.z - (i.z + 1))
        BY <1>1
      <3> QED
        BY <3>1
    <2>2. p * b.z = p * i.z + p + p * d /\ p * d \in Nat
      BY <1>1, <1>2, <2>1
    <2> QED
      BY <1>1, <1>2, <1>3, <2>2
  <1>6. Linear(i, b) = i.x + b.x * i.y + p * i.z /\ Count(b) = p * b.z
    BY DEF Linear, Count
  <1>7. p * b.z \in Nat
    BY <1>1, <1>2, Product
  <1> HIDE DEF p
  <1> QED
    BY <1>1, <1>2, <1>3, <1>4, <1>5, <1>6, <1>7

(* increment_x_then_y_then_z goes to the next linear index, or leaves the  *)
(* bound in z when there is none.                                          *)
LEMMA WalkStep ==
    ASSUME NEW b \in Dim3s, NEW i, NEW n, Walks(i, b, n)
    PROVE  Walks(Increment(i, b), b, n + 1)
  <1> DEFINE p == b.x * b.y
             j == Increment(i, b)
  <1>1. /\ b.x \in Nat /\ b.y \in Nat /\ b.z \in Nat
        /\ i.x \in Nat /\ i.y \in Nat /\ i.z \in Nat /\ i.z <= b.z
        /\ i.x <= b.x /\ i.y <= b.y /\ n \in Nat /\ n + 1 \in Nat
        /\ i = Dim(i.x, i.y, i.z)
    BY DEF Dim3s, Within, Walks, Dim
  <1>2. p \in Nat /\ b.x * i.y \in Nat
    BY <1>1, Product
  <1>3. p * i.z \in Nat
    BY <1>1, <1>2, Product
  <1>4. b.x * (i.y + 1) = b.x * i.y + b.x
    BY <1>1, Product
  <1>5. p * (i.z + 1) = p * i.z + p
    BY <1>1, <1>2, Product
  <1>6. \A x, y, z \in Nat : Linear(Dim(x, y, z), b) = x + b.x * y + p * z
    BY DEF Linear, Dim
  <1>7. Count(b) = p * b.z /\ Count(b) \in Nat
    BY <1>1, CountZero DEF Count
  <1>8. b.x * 0 = 0
    BY <1>1
  <1>9. Linear(i, b) = i.x + b.x * i.y + p * i.z
    BY <1>1, <1>6
  <1> HIDE DEF p
  <1>10. j \in Within(b)
    BY <1>1 DEF Increment, Within, Dim
  <1>11. ASSUME Count(b) # 0
         PROVE  /\ j.x < b.x /\ j.y < b.y
                /\ j.z < b.z => n + 1 = Linear(j, b)
                /\ j.z = b.z => n + 1 >= Count(b)
    <2>1. b.x > 0 /\ b.y > 0 /\ b.z > 0
      BY <1>1, <1>11, CountZero
    <2>2. /\ i.x < b.x /\ i.y < b.y
          /\ i.z < b.z => n = Linear(i, b)
          /\ i.z = b.z => n >= Count(b)
      BY <1>11 DEF Walks
    <2>3. CASE i.x + 1 < b.x
      <3>1. j = Dim(i.x + 1, i.y, i.z)
        BY <2>3 DEF Increment
      <3>2. Linear(j, b) = i.x + 1 + b.x * i.y + p * i.z
        <4>1. Linear(Dim(i.x + 1, i.y, i.z), b) = (i.x + 1) + b.x * i.y + p * i.z
          BY DEF Linear, Dim, p
        <4> QED
          BY <3>1, <4>1
      <3>3. j.x = i.x + 1 /\ j.y = i.y /\ j.z = i.z
        BY <3>1 DEF Dim
      <3> QED
        BY <1>1, <1>2, <1>3, <1>7, <1>9, <2>2, <2>3, <3>2, <3>3
    <2>4. CASE ~(i.x + 1 < b.x) /\ i.y + 1 < b.y
      <3>1. j = Dim(0, i.y + 1, i.z)
        BY <2>4 DEF Increment
      <3>2. Linear(j, b) = b.x * (i.y + 1) + p * i.z
        <4>1. Linear(Dim(0, i.y + 1, i.z), b) = 0 + b.x * (i.y + 1) + p * i.z
          BY DEF Linear, Dim, p
        <4> QED
          BY <1>1, <1>2, <1>3, <1>4, <3>1, <4>1
      <3>3. j.x = 0 /\ j.y = i.y + 1 /\ j.z = i.z
        BY <3>1 DEF Dim
      <3>4. i.x + 1 = b.x
        BY <1>1, <2>2, <2>4
      <3> QED
        <4>1. Linear(j, b) = Linear(i, b) + 1
          <5>1. Linear(j, b) = (b.x * i.y + b.x) + p * i.z
            BY <1>4, <3>2
          <5> QED
            BY <1>1, <1>2, <1>3, <1>9, <3>4, <5>1
        <4> QED
          BY <1>1, <1>7, <2>1, <2>2, <2>4, <3>3, <4>1
    <2>5. CASE ~(i.x + 1 < b.x) /\ ~(i.y + 1 < b.y)
      <3>1. j = Dim(0, 0, IF i.z < b.z THEN i.z + 1 ELSE i.z)
        BY <2>5 DEF Increment
      <3>2. i.x + 1 = b.x /\ i.y + 1 = b.y
        BY <1>1, <2>2, <2>5
      <3>3. b.x * i.y + b.x = p
        BY <1>4, <3>2 DEF p
      <3>4. CASE i.z < b.z
        <4>1. j = Dim(0, 0, i.z + 1) /\ j.x = 0 /\ j.y = 0 /\ j.z = i.z + 1
          BY <3>1, <3>4 DEF Dim
        <4>2. Linear(j, b) = 0 + b.x * 0 + p * (i.z + 1)
          BY <1>1, <1>6, <4>1
        <4>3. Linear(j, b) = n + 1
          BY <1>1, <1>2, <1>3, <1>5, <1>8, <1>9, <2>2, <3>2, <3>3, <3>4, <4>2
        <4>4. j.z = b.z => Count(b) = p * (i.z + 1)
          BY <1>7, <4>1
        <4> QED
          BY <1>1, <1>2, <1>3, <1>5, <1>7, <1>8, <2>1, <4>1, <4>2, <4>3, <4>4
      <3>5. CASE ~(i.z < b.z)
        <4>1. j.x = 0 /\ j.y = 0 /\ j.z = i.z /\ i.z = b.z
          BY <1>1, <3>1, <3>5 DEF Dim
        <4> QED
          BY <1>1, <1>7, <2>1, <2>2, <4>1
      <3> QED
        BY <3>4, <3>5
    <2> QED
      BY <2>3, <2>4, <2>5
  <1> QED
    BY <1>1, <1>10, <1>11 DEF Walks

(* no_more_ctas_to_run says whether Count(b) increments have been made.    *)
LEMMA WalkEnd ==
    ASSUME NEW b \in Dim3s, NEW i, NEW n, Walks(i, b, n)
    PROVE  /\ NoMore(i, b) <=> n >= Count(b)
           /\ ~NoMore(i, b) => Linear(i, b) = n
  <1>1. /\ b.x \in Nat /\ b.y \in Nat /\ b.z \in Nat
        /\ i.x \in Nat /\ i.y \in Nat /\ i.z \in Nat /\ i.z <= b.z /\ n \in Nat
        /\ i \in Within(b)
    BY DEF Dim3s, Within, Walks
  <1>2. Count(b) \in Nat /\ (Count(b) = 0 <=> b.x = 0 \/ b.y = 0 \/ b.z = 0)
    BY CountZero
  <1>3. CASE Count(b) = 0
    <2>1. NoMore(i, b)
      BY <1>1, <1>2, <1>3 DEF NoMore
    <2> QED
      BY <1>1, <1>3, <2>1
  <1>4. CASE Count(b) # 0
    <2>1. /\ i.x < b.x /\ i.y < b.y
          /\ i.z < b.z => n = Linear(i, b)
          /\ i.z = b.z => n >= Count(b)
      BY <1>4 DEF Walks
    <2>2. NoMore(i, b) <=> i.z = b.z
      BY <1>1, <2>1 DEF NoMore
    <2>3. i.z < b.z => Linear(i, b) < Count(b)
      BY <1>1, <2>1, LinearBelow
    <2> QED
      BY <1>1, <1>2, <2>1, <2>2, <2>3
  <1> QED
    BY <1>3, <1>4

(* A cursor starts at zero.                                                *)
LEMMA WalkStart == ASSUME NEW b \in Dim3s PROVE Walks(Zero, b, 0)
  <1>1. b.x \in Nat /\ b.y \in Nat /\ b.z \in Nat
    BY DEF Dim3s
  <1>2. Zero \in Within(b) /\ Zero.x = 0 /\ Zero.y = 0 /\ Zero.z = 0
    BY <1>1 DEF Zero, Dim, Within
  <1>3. Count(b) \in Nat /\ (Count(b) # 0 => b.x > 0 /\ b.y > 0 /\ b.z > 0)
    BY <1>1, CountZero
  <1>4. Linear(Zero, b) = 0
    <2>1. b.x * b.y \in Nat
      BY <1>1, Product
    <2>2. (b.x * b.y) * 0 = 0 /\ b.x * 0 = 0
      BY <1>1, <2>1
    <2> QED
      BY <1>2, <2>2 DEF Linear
  <1> QED
    BY <1>1, <1>2, <1>3, <1>4 DEF Walks
-----------------------------------------------------------------------------
(* The constructor of KernelInfo establishes the invariant, and the two    *)
(* increments keep it.                                                     *)
LEMMA InitInv == Init => IInv
  <1> SUFFICES ASSUME Init PROVE IInv
    OBVIOUS
  <1>1. /\ grid \in Dims /\ block \in Dims /\ grid \in Dim3s /\ block \in Dim3s
        /\ nextCta = Zero /\ nextTid = Zero /\ ctas = 0 /\ tids = 0
    BY DimsAssumption DEF Init, Dim3s
  <1>2. Walks(Zero, grid, 0) /\ Walks(Zero, block, 0)
    BY <1>1, WalkStart
  <1>3. Count(grid) \in Nat
    BY <1>1, CountZero
  <1> QED
    BY <1>1, <1>2, <1>3 DEF IInv, TypeOK, Walks

LEMMA NextInv == IInv /\ [Next]_vars => IInv'
  <1> SUFFICES ASSUME IInv, [Next]_vars PROVE IInv'
    OBVIOUS
  <1>1. /\ TypeOK /\ Walks(nextCta, grid, ctas) /\ Walks(nextTid, block, tids)
        /\ ctas <= Count(grid)
    BY DEF IInv
  <1>2. grid \in Dim3s /\ block \in Dim3s /\ Count(grid) \in Nat
    BY <1>1, DimsAssumption, CountZero DEF TypeOK, Dim3s
  <1>3. CASE IncrementCtaId
    <2>1. ~NoMore(nextCta, grid) /\ grid' = grid /\ block' = block
          /\ nextCta' = Increment(nextCta, grid) /\ nextTid' = Zero
          /\ ctas' = ctas + 1 /\ tids' = 0
      BY <1>3 DEF IncrementCtaId
    <2>2. Walks(nextCta', grid', ctas') /\ Walks(nextTid', block', tids')
      BY <1>1, <1>2, <2>1, WalkStep, WalkStart
    <2>3. ctas' <= Count(grid')
      BY <1>1, <1>2, <2>1, WalkEnd DEF TypeOK
    <2> QED
      BY <1>1, <2>1, <2>2, <2>3 DEF IInv, TypeOK, Walks
  <1>4. CASE IncrementThreadId
    <2>1. /\ grid' = grid /\ block' = block /\ nextCta' = nextCta /\ ctas' = ctas
          /\ nextTid' = Increment(nextTid, block) /\ tids' = tids + 1
      BY <1>4 DEF IncrementThreadId
    <2>2. Walks(nextCta', grid', ctas') /\ Walks(nextTid', block', tids')
      BY <1>1, <1>2, <2>1, WalkStep
    <2> QED
      BY <1>1, <2>1, <2>2 DEF IInv, TypeOK, Walks
  <1>5. CASE UNCHANGED vars
    BY <1>1, <1>5 DEF vars, IInv, TypeOK
  <1> QED
    BY <1>3, <1>4, <1>5 DEF Next

(* The inductive invariant: each cursor is where its number of increments  *)
(* puts it (increment_x_then_y_then_z).                                    *)
THEOREM Invariance == Spec => []IInv
  BY InitInv, NextInv, PTL DEF Spec

(* For every grid, empty dimensions included, the CTA cursor stays within  *)
(* its bounds and passes num_blocks() CTAs in linear order, and            *)
(* no_more_ctas_to_run holds after the last (increment_cta_id).            *)
THEOREM GridWalked == Spec => []WalksGrid
  <1>1. IInv => WalksGrid
    <2> SUFFICES ASSUME IInv PROVE WalksGrid
      OBVIOUS
    <2>1. TypeOK /\ Walks(nextCta, grid, ctas) /\ ctas <= Count(grid)
      BY DEF IInv
    <2>2. grid \in Dim3s /\ Count(grid) \in Nat /\ ctas \in Nat
      BY <2>1, DimsAssumption, CountZero DEF TypeOK, Dim3s
    <2>3. /\ NoMore(nextCta, grid) <=> ctas >= Count(grid)
          /\ ~NoMore(nextCta, grid) => Linear(nextCta, grid) = ctas
      BY <2>1, <2>2, WalkEnd
    <2> QED
      BY <2>1, <2>2, <2>3 DEF WalksGrid
  <1> QED
    BY <1>1, Invariance, PTL

(* For every block, the thread cursor gives the first threads_per_cta()    *)
(* threads their linear ids, and more_threads_in_cta stays false after     *)
(* them (increment_thread_id).                                             *)
THEOREM BlockWalked == Spec => []WalksBlock
  <1>1. IInv => WalksBlock
    <2> SUFFICES ASSUME IInv PROVE WalksBlock
      OBVIOUS
    <2>1. TypeOK /\ Walks(nextTid, block, tids)
      BY DEF IInv
    <2>2. block \in Dim3s
      BY <2>1, DimsAssumption DEF TypeOK, Dim3s
    <2> QED
      BY <2>1, <2>2, WalkEnd DEF WalksBlock
  <1> QED
    BY <1>1, Invariance, PTL
=============================================================================
