-------------------------- MODULE WarpMemory_proofs --------------------------
(***************************************************************************)
(* The memory instructions, for words of any width of four bytes, any      *)
(* blocks, lanes and registers, every layout of the address space and      *)
(* every program whose instructions name registers that exist.             *)
(***************************************************************************)
EXTENDS WarpMemory, TLAPS

(* The lemmas about words of ScalarAlu_proofs; what is particular to the   *)
(* scalar unit is immaterial.                                              *)
One == INSTANCE ScalarAlu_proofs WITH
    MaxReg <- 1, ExecReg <- 0, LitReg <- 0, WordRegs <- {}, Literals <- {}, Ops <- {},
    Collect <- FALSE, scc <- 0, last <- 0

LEMMA Assumed == One!WidthAssumption /\ One!PowerAssumption /\ One!AluAssumption
  BY WidthAssumption, PowerAssumption
     DEF One!WidthAssumption, One!PowerAssumption, One!AluAssumption

(* Windows of equal size one after another.                                *)
LEMMA NextWindow ==
    ASSUME NEW m \in Nat, NEW n \in Nat, NEW size \in Nat, m < n
    PROVE  m * size + size <= n * size
  <1>1. PICK d \in Nat : n = m + 1 + d
    <2>1. n - m - 1 \in Nat /\ n = m + 1 + (n - m - 1)
      OBVIOUS
    <2> QED
      BY <2>1
  <1>2. n * size = m * size + size + d * size
    BY <1>1
  <1>3. d * size \in Nat /\ m * size \in Nat
    OBVIOUS
  <1> QED
    BY <1>2, <1>3

LEMMA Products ==
    ASSUME NEW m \in Nat, NEW size \in Nat
    PROVE  m * size \in Nat /\ size * m = m * size /\ (m + 1) * size = m * size + size
  OBVIOUS

(* The windows of the shared memories.                                     *)
LEMMA SharedWindows ==
    ASSUME NEW m \in SM
    PROVE  /\ SharedWindow(m) \in Nat /\ SharedWindow(m + 1) \in Nat
           /\ SharedWindow(m + 1) = SharedWindow(m) + SHARED_MEM_SIZE_MAX
           /\ SHARED_GENERIC_START <= SharedWindow(m)
           /\ SharedWindow(m + 1) <= GLOBAL_HEAP_START
           /\ \A n \in SM : m < n => SharedWindow(m + 1) <= SharedWindow(n)
  <1>1. m \in Nat /\ NSM \in Nat /\ m < NSM /\ SHARED_MEM_SIZE_MAX \in Nat
         /\ SHARED_GENERIC_START \in Nat /\ GLOBAL_HEAP_START \in Nat
         /\ SHARED_GENERIC_START + NSM * SHARED_MEM_SIZE_MAX <= GLOBAL_HEAP_START
    BY LayoutAssumption DEF SM
  <1>2. m * SHARED_MEM_SIZE_MAX \in Nat
         /\ (m + 1) * SHARED_MEM_SIZE_MAX = m * SHARED_MEM_SIZE_MAX + SHARED_MEM_SIZE_MAX
    BY <1>1, Products
  <1>3. m * SHARED_MEM_SIZE_MAX + SHARED_MEM_SIZE_MAX <= NSM * SHARED_MEM_SIZE_MAX
    BY <1>1, NextWindow
  <1>4. NSM * SHARED_MEM_SIZE_MAX \in Nat
    BY <1>1, Products
  <1>5. ASSUME NEW n \in SM, m < n PROVE SharedWindow(m + 1) <= SharedWindow(n)
    <2>1. n \in Nat
      BY LayoutAssumption DEF SM
    <2>2. m * SHARED_MEM_SIZE_MAX + SHARED_MEM_SIZE_MAX <= n * SHARED_MEM_SIZE_MAX
          /\ n * SHARED_MEM_SIZE_MAX \in Nat
      BY <1>1, <1>5, <2>1, NextWindow, Products
    <2> QED
      BY <1>1, <1>2, <2>2 DEF SharedWindow
  <1> QED
    BY <1>1, <1>2, <1>3, <1>4, <1>5 DEF SharedWindow

(* The windows of the local memories: those of an SM fill the room between *)
(* the first of it and the first of the next SM.                           *)
LEMMA LocalWindows ==
    ASSUME NEW m \in SM, NEW t \in Thread
    PROVE  /\ LocalWindow(m, t) \in Nat /\ LocalWindow(m, t + 1) \in Nat
           /\ LocalWindow(m, t + 1) = LocalWindow(m, t) + LOCAL_MEM_SIZE_MAX
           /\ LOCAL_GENERIC_START <= LocalWindow(m, t)
           /\ LocalWindow(m, t + 1) <= SHARED_GENERIC_START
           /\ \A n \in SM, u \in Thread :
                 (m < n \/ (m = n /\ t < u)) => LocalWindow(m, t + 1) <= LocalWindow(n, u)
  <1> DEFINE L == LOCAL_MEM_SIZE_MAX
             T == TOTAL_LOCAL_MEM_PER_SM
  <1>1. /\ m \in Nat /\ NSM \in Nat /\ m < NSM /\ t \in Nat /\ NThreads \in Nat /\ t < NThreads
        /\ L \in Nat /\ LOCAL_GENERIC_START \in Nat /\ SHARED_GENERIC_START \in Nat
        /\ LOCAL_GENERIC_START + NSM * T <= SHARED_GENERIC_START
    BY LayoutAssumption DEF SM, Thread
  <1>2. T \in Nat /\ T = NThreads * L
    BY <1>1, Products DEF TOTAL_LOCAL_MEM_PER_SM
  <1>3. /\ T * m \in Nat /\ T * m = m * T
        /\ L * t \in Nat /\ L * t = t * L
        /\ L * (t + 1) = L * t + L
    BY <1>1, <1>2, Products
  <1>4. L * t + L <= T
    BY <1>1, <1>2, <1>3, NextWindow
  <1>5. T * m + T <= NSM * T /\ NSM * T \in Nat
    BY <1>1, <1>2, <1>3, NextWindow, Products
  <1>6. LocalWindow(m, t) = LOCAL_GENERIC_START + T * m + L * t
         /\ LocalWindow(m, t + 1) = LOCAL_GENERIC_START + T * m + L * (t + 1)
    BY DEF LocalWindow
  <1>7. ASSUME NEW n \in SM, NEW u \in Thread, m < n \/ (m = n /\ t < u)
        PROVE  LocalWindow(m, t + 1) <= LocalWindow(n, u)
    <2>1. n \in Nat /\ u \in Nat
      BY LayoutAssumption DEF SM, Thread
    <2>2. T * n \in Nat /\ T * n = n * T /\ L * u \in Nat /\ L * u = u * L
      BY <1>1, <1>2, <2>1, Products
    <2>3. LocalWindow(n, u) = LOCAL_GENERIC_START + T * n + L * u
      BY DEF LocalWindow
    <2>4. CASE m < n
      <3>1. T * m + T <= T * n
        BY <1>1, <1>2, <1>3, <2>1, <2>2, <2>4, NextWindow
      <3> HIDE DEF L, T
      <3> QED
        BY <1>1, <1>2, <1>3, <1>4, <1>6, <2>2, <2>3, <3>1
    <2>5. CASE m = n /\ t < u
      <3>1. L * t + L <= L * u
        BY <1>1, <1>3, <2>1, <2>2, <2>5, NextWindow
      <3>2. T * m = T * n
        BY <2>5
      <3> HIDE DEF L, T
      <3> QED
        BY <1>1, <1>2, <1>3, <1>6, <2>2, <2>3, <3>1, <3>2
    <2> QED
      BY <1>7, <2>4, <2>5
  <1>8. LocalWindow(m, t + 1) = LocalWindow(m, t) + L
    <2> HIDE DEF L, T
    <2> QED
      BY <1>1, <1>2, <1>3, <1>6
  <1>9. /\ LocalWindow(m, t) \in Nat /\ LocalWindow(m, t + 1) \in Nat
        /\ LOCAL_GENERIC_START <= LocalWindow(m, t)
        /\ LocalWindow(m, t + 1) <= SHARED_GENERIC_START
    <2> HIDE DEF L, T
    <2> QED
      BY <1>1, <1>2, <1>3, <1>4, <1>5, <1>6
  <1> QED
    BY <1>7, <1>8, <1>9

(* The tests of isspace_shared and isspace_local, read as intervals.       *)
LEMMA Intervals ==
    ASSUME NEW g \in Nat, NEW m \in SM, NEW t \in Thread
    PROVE  /\ isspace_shared(m, g) <=> SharedWindow(m) <= g /\ g < SharedWindow(m + 1)
           /\ isspace_local(m, t, g) <=> LocalWindow(m, t) <= g /\ g < LocalWindow(m, t + 1)
  <1>1. /\ SharedWindow(m) \in Nat /\ SharedWindow(m + 1) \in Nat
        /\ LocalWindow(m, t) \in Nat /\ LocalWindow(m, t + 1) \in Nat
    BY SharedWindows, LocalWindows
  <1> QED
    BY <1>1 DEF isspace_shared, isspace_local
-----------------------------------------------------------------------------
(* shared_to_generic: for every layout, a shared address converts to a     *)
(* generic one that only its SM recognises, and back.                      *)
THEOREM SharedAddresses == SharedRoundTrip
  <1> SUFFICES ASSUME NEW m \in SM, NEW n \in SM, NEW a \in SharedAddr
               PROVE  LET g == shared_to_generic(m, a)
                      IN  /\ whichspace(g) = "shared"
                          /\ isspace_shared(n, g) <=> m = n
                          /\ generic_to_shared(m, g) = a
    BY DEF SharedRoundTrip
  <1> DEFINE g == shared_to_generic(m, a)
  <1>1. /\ a \in Nat /\ a < SHARED_MEM_SIZE_MAX /\ m \in Nat /\ n \in Nat
        /\ GLOBAL_HEAP_START \in Nat /\ SHARED_GENERIC_START \in Nat /\ SHARED_MEM_SIZE_MAX \in Nat
        /\ STATIC_ALLOC_LIMIT \in Nat /\ STATIC_ALLOC_LIMIT <= SHARED_GENERIC_START
    <2>1. NSM * TOTAL_LOCAL_MEM_PER_SM \in Nat
      BY LayoutAssumption, Products DEF TOTAL_LOCAL_MEM_PER_SM
    <2> QED
      BY <2>1, LayoutAssumption DEF SM, SharedAddr
  <1>2. g = SharedWindow(m) + a /\ g < SharedWindow(m + 1) /\ g >= SharedWindow(m) /\ g \in Nat
    BY <1>1, SharedWindows DEF shared_to_generic
  <1>3. g < GLOBAL_HEAP_START /\ g >= SHARED_GENERIC_START
    BY <1>1, <1>2, SharedWindows
  <1> HIDE DEF g
  <1>4. whichspace(g) = "shared"
    BY <1>1, <1>2, <1>3 DEF whichspace, isspace_global
  <1>5. generic_to_shared(m, g) = a
    BY <1>1, <1>2, SharedWindows DEF generic_to_shared
  <1>6. isspace_shared(m, g)
    BY <1>2, SharedWindows DEF isspace_shared
  <1>7. ASSUME m # n PROVE ~isspace_shared(n, g)
    <2>1. CASE m < n
      BY <1>2, <2>1, SharedWindows DEF isspace_shared
    <2>2. CASE n < m
      BY <1>2, <2>2, SharedWindows DEF isspace_shared
    <2> QED
      BY <1>1, <1>7, <2>1, <2>2
  <1> QED
    BY <1>4, <1>5, <1>6, <1>7 DEF g

(* local_to_generic: the same of the local memory of every thread.         *)
THEOREM LocalAddresses == LocalRoundTrip
  <1> SUFFICES ASSUME NEW m \in SM, NEW n \in SM, NEW t \in Thread, NEW u \in Thread,
                      NEW a \in LocalAddr
               PROVE  LET g == local_to_generic(m, t, a)
                      IN  /\ whichspace(g) = "local"
                          /\ isspace_local(n, u, g) <=> m = n /\ t = u
                          /\ generic_to_local(m, t, g) = a
    BY DEF LocalRoundTrip
  <1> DEFINE g == local_to_generic(m, t, a)
  <1>1. /\ a \in Nat /\ a < LOCAL_MEM_SIZE_MAX /\ m \in Nat /\ n \in Nat /\ t \in Nat /\ u \in Nat
        /\ GLOBAL_HEAP_START \in Nat /\ SHARED_GENERIC_START \in Nat /\ LOCAL_MEM_SIZE_MAX \in Nat
        /\ STATIC_ALLOC_LIMIT \in Nat /\ LOCAL_GENERIC_START \in Nat
        /\ STATIC_ALLOC_LIMIT <= LOCAL_GENERIC_START /\ SHARED_GENERIC_START <= GLOBAL_HEAP_START
    <2>1. NSM * SHARED_MEM_SIZE_MAX \in Nat
      BY LayoutAssumption, Products
    <2> QED
      BY <2>1, LayoutAssumption DEF SM, Thread, LocalAddr
  <1>2. g = LocalWindow(m, t) + a /\ g < LocalWindow(m, t + 1) /\ g >= LocalWindow(m, t) /\ g \in Nat
    BY <1>1, LocalWindows DEF local_to_generic
  <1>3. g < SHARED_GENERIC_START /\ g >= LOCAL_GENERIC_START
    BY <1>1, <1>2, LocalWindows
  <1> HIDE DEF g
  <1>4. whichspace(g) = "local"
    BY <1>1, <1>2, <1>3 DEF whichspace, isspace_global
  <1>5. generic_to_local(m, t, g) = a
    BY <1>1, <1>2, LocalWindows DEF generic_to_local
  <1>6. isspace_local(m, t, g)
    BY <1>2, LocalWindows DEF isspace_local
  <1>7. ASSUME ~(m = n /\ t = u) PROVE ~isspace_local(n, u, g)
    <2>1. CASE m < n \/ (m = n /\ t < u)
      BY <1>2, <2>1, LocalWindows DEF isspace_local
    <2>2. CASE n < m \/ (n = m /\ u < t)
      BY <1>2, <2>2, LocalWindows DEF isspace_local
    <2> QED
      BY <1>1, <1>7, <2>1, <2>2
  <1> QED
    BY <1>4, <1>5, <1>6, <1>7 DEF g

(* isspace_shared, isspace_local and whichspace agree on every generic     *)
(* address, and no address has two owners.                                 *)
THEOREM OneOwner == \A g \in Nat : Unambiguous(g)
  <1> SUFFICES ASSUME NEW g \in Nat PROVE Unambiguous(g)
    OBVIOUS
  <1>0. /\ GLOBAL_HEAP_START \in Nat /\ SHARED_GENERIC_START \in Nat /\ STATIC_ALLOC_LIMIT \in Nat
        /\ LOCAL_GENERIC_START \in Nat /\ STATIC_ALLOC_LIMIT <= LOCAL_GENERIC_START
        /\ LOCAL_GENERIC_START <= SHARED_GENERIC_START /\ SHARED_GENERIC_START <= GLOBAL_HEAP_START
        /\ SM \subseteq Nat /\ Thread \subseteq Nat
    <2>1. NSM * SHARED_MEM_SIZE_MAX \in Nat /\ NSM * TOTAL_LOCAL_MEM_PER_SM \in Nat
      BY LayoutAssumption, Products DEF TOTAL_LOCAL_MEM_PER_SM
    <2> QED
      BY <2>1, LayoutAssumption DEF SM, Thread
  <1>1. ASSUME NEW m \in SM, NEW n \in SM, isspace_shared(m, g), isspace_shared(n, g)
        PROVE  m = n
    <2>1. CASE m < n
      BY <1>1, <2>1, SharedWindows DEF isspace_shared
    <2>2. CASE n < m
      BY <1>1, <2>2, SharedWindows DEF isspace_shared
    <2> QED
      BY <1>0, <2>1, <2>2
  <1>2. ASSUME NEW m \in SM, NEW n \in SM, NEW t \in Thread, NEW u \in Thread,
               isspace_local(m, t, g), isspace_local(n, u, g)
        PROVE  m = n /\ t = u
    <2>1. CASE m < n \/ (m = n /\ t < u)
      BY <1>2, <2>1, LocalWindows DEF isspace_local
    <2>2. CASE n < m \/ (n = m /\ u < t)
      BY <1>2, <2>2, LocalWindows DEF isspace_local
    <2> QED
      BY <1>0, <2>1, <2>2
  <1>3. ASSUME NEW m \in SM, isspace_shared(m, g) PROVE whichspace(g) = "shared"
    <2>1. g < GLOBAL_HEAP_START /\ g >= SHARED_GENERIC_START
      BY <1>0, <1>3, SharedWindows DEF isspace_shared
    <2> QED
      BY <1>0, <2>1 DEF whichspace, isspace_global
  <1>4. ASSUME NEW m \in SM, NEW t \in Thread, isspace_local(m, t, g)
        PROVE  whichspace(g) = "local"
    <2>1. g < SHARED_GENERIC_START /\ g >= LOCAL_GENERIC_START
      BY <1>0, <1>4, LocalWindows DEF isspace_local
    <2> QED
      BY <1>0, <2>1 DEF whichspace, isspace_global
  <1> QED
    BY <1>1, <1>2, <1>3, <1>4 DEF Unambiguous
-----------------------------------------------------------------------------
(* Division with a positive divisor.                                       *)
LEMMA DivMod ==
    ASSUME NEW m \in Nat \ {0}, NEW x \in Int
    PROVE  /\ x % m \in 0..m-1
           /\ x \div m \in Int
           /\ x = (x \div m) * m + (x % m)
  BY One!DivMod, Assumed

LEMMA DivUnique ==
    ASSUME NEW m \in Nat \ {0}, NEW x \in Int, NEW q \in Int,
           q * m <= x, x < q * m + m
    PROVE  x \div m = q
  BY One!DivUnique, Assumed

LEMMA DivShift ==
    ASSUME NEW m \in Nat \ {0}, NEW x \in Int, NEW j \in Int
    PROVE  (x + j * m) \div m = (x \div m) + j
  BY One!DivShift, Assumed

LEMMA DivDiv ==
    ASSUME NEW m \in Nat \ {0}, NEW k \in Nat \ {0}, NEW x \in Int
    PROVE  (x \div m) \div k = x \div (m * k)
  BY One!DivDiv, Assumed

(* The remainder does not change with a multiple of the divisor.           *)
LEMMA ModShift ==
    ASSUME NEW m \in Nat \ {0}, NEW x \in Int, NEW j \in Int
    PROVE  (x + j * m) % m = x % m
  <1> DEFINE q == x \div m
             p == j * m
             y == x + p
  <1>1. x % m \in 0..m-1 /\ q \in Int /\ x = q * m + (x % m)
    BY DivMod
  <1>2. p \in Int /\ y \in Int
    OBVIOUS
  <1>3. y % m \in 0..m-1 /\ y \div m \in Int /\ y = (y \div m) * m + (y % m)
    <2> HIDE DEF y
    <2> QED
      BY <1>2, DivMod
  <1>4. y \div m = q + j
    BY DivShift
  <1>5. (q + j) * m = q * m + p
    BY <1>1
  <1>6. q * m \in Int
    BY <1>1
  <1>7. y % m = x % m
    <2> DEFINE t == q * m
    <2>1. y = t + p + (y % m) /\ x = t + (x % m) /\ y = x + p
      BY <1>1, <1>3, <1>4, <1>5
    <2>2. t \in Int /\ p \in Int /\ y % m \in Int /\ x % m \in Int
      BY <1>1, <1>2, <1>3, <1>6
    <2> HIDE DEF t, p, y
    <2> QED
      BY <2>1, <2>2
  <1> QED
    BY <1>7

LEMMA ModSmall == \A m \in Nat \ {0} : \A x \in 0..m-1 : x % m = x
  <1> SUFFICES ASSUME NEW m \in Nat \ {0}, NEW x \in 0..m-1 PROVE x % m = x
    OBVIOUS
  <1>1. x \div m = 0
    BY DivUnique
  <1> QED
    BY <1>1, DivMod

(* The numbers that the width of a word leads to.                          *)
LEMMA WordSize ==
    /\ W \in Nat /\ W > 1 /\ 2^W \in Nat \ {0} /\ 0 \in Word
    /\ \A x : x \in Word <=> x \in Nat /\ x < 2^W
  BY One!WordSize, Assumed DEF Word

LEMMA WrapFacts ==
    ASSUME NEW x \in Int
    PROVE  /\ Wrap(x) \in Word
           /\ \A j \in Int : Wrap(x + j * 2^W) = Wrap(x)
           /\ x \in Word => Wrap(x) = x
  <1>1. 2^W \in Nat \ {0} /\ Word = 0..2^W-1
    BY WordSize DEF Word
  <1> HIDE DEF Word
  <1> QED
    BY <1>1, DivMod, ModShift, ModSmall DEF Wrap

(* The sum that wraps may wrap a part first.                               *)
LEMMA WrapSum ==
    ASSUME NEW x \in Int, NEW y \in Int
    PROVE  Wrap(Wrap(x) + y) = Wrap(x + y)
  <1> DEFINE q == x \div 2^W
             r == x % 2^W
  <1>1. q \in Int /\ r \in Int /\ x = q * 2^W + r /\ 2^W \in Nat
    <2>1. 2^W \in Nat \ {0}
      BY WordSize
    <2>2. x % 2^W \in 0..2^W-1 /\ x \div 2^W \in Int /\ x = (x \div 2^W) * 2^W + (x % 2^W)
      BY <2>1, DivMod
    <2> QED
      BY <2>1, <2>2
  <1>2. q * 2^W \in Int
    BY <1>1
  <1>3. x + y = (r + y) + q * 2^W
    <2> DEFINE p == q * 2^W
    <2> HIDE DEF p, q, r
    <2>1. x = p + r /\ p \in Int
      BY <1>1, <1>2 DEF p
    <2> QED
      BY <1>1, <2>1 DEF p
  <1>4. Wrap(x) = r
    BY DEF Wrap
  <1> HIDE DEF q, r
  <1>5. r + y \in Int
    BY <1>1
  <1> QED
    BY <1>1, <1>3, <1>4, <1>5, WrapFacts
-----------------------------------------------------------------------------
(* Four bytes make a word.                                                 *)
LEMMA ByteSize ==
    /\ Byte \in Nat /\ Byte > 1
    /\ Byte^0 = 1 /\ Byte^1 = Byte /\ Byte^2 = Byte * Byte /\ Byte^3 = Byte * Byte^2
    /\ Byte^4 = 2^W /\ Byte^4 = Byte * Byte^3 /\ Byte^5 = Byte * Byte^4
    /\ \A n \in 0..6 : Byte^n \in Nat \ {0}
  <1> DEFINE q == W \div 4
  <1>1. q \in Nat /\ q >= 1 /\ W = q + q + q + q /\ W \in Nat
    <2>1. W \in Int /\ 4 \in Nat \ {0} /\ W % 4 = 0 /\ W > 1 /\ W \in Nat
      BY WidthAssumption, MemoryAssumption
    <2>2. W \div 4 \in Int /\ W = (W \div 4) * 4 + (W % 4)
      BY <2>1, DivMod
    <2> QED
      BY <2>1, <2>2
  <1> HIDE DEF q
  <1>2. Byte = 2^q
    BY DEF Byte, q
  <1>3. 2^(q + q) = Byte * Byte /\ 2^((q + q) + q) = 2^(q + q) * Byte
         /\ 2^((q + q + q) + q) = 2^(q + q + q) * Byte
    BY <1>1, <1>2, One!PowerSum, Assumed
  <1>4. Byte \in Nat \ {0} /\ Byte >= 2
    <2>1. 2^q \in Nat \ {0}
      BY <1>1, One!Powers, Assumed
    <2>2. 2^0 \in Nat /\ 2^(0+1) = 2 * 2^0 /\ 2^0 \in Nat \ {0}
      BY <1>1, PowerAssumption, One!Powers, Assumed
    <2>3. 2^1 >= 2 /\ 2^1 \in Nat
      BY <2>2
    <2>4. 2^1 <= 2^q
      <3>1. 1 \in Nat /\ q \in Nat /\ 1 <= q /\ q <= W
        BY <1>1
      <3> QED
        BY <3>1, One!PowerMonotone, Assumed
    <2> QED
      BY <1>2, <2>1, <2>3, <2>4
  <1>5. /\ Byte^0 = 1 /\ Byte^(0+1) = Byte * Byte^0 /\ Byte^(1+1) = Byte * Byte^1
        /\ Byte^(2+1) = Byte * Byte^2 /\ Byte^(3+1) = Byte * Byte^3 /\ Byte^(4+1) = Byte * Byte^4
        /\ Byte^(5+1) = Byte * Byte^5
        /\ \A n \in 0..5 : Byte^n \in Nat
    BY BytePowerAssumption
  <1>6. Byte^0 = 1 /\ Byte^1 = Byte /\ Byte^2 = Byte * Byte /\ Byte^3 = Byte * Byte^2
         /\ Byte^4 = Byte * Byte^3 /\ Byte^5 = Byte * Byte^4 /\ Byte^6 = Byte * Byte^5
    BY <1>4, <1>5
  <1>7. Byte^4 = 2^W
    <2>1. 2^W = 2^((q + q + q) + q)
      BY <1>1
    <2>2. 2^(q + q + q) = (Byte * Byte) * Byte
      BY <1>3, <1>1
    <2>3. 2^W = ((Byte * Byte) * Byte) * Byte
      BY <2>1, <2>2, <1>3
    <2> QED
      BY <2>3, <1>4, <1>6
  <1>8. \A x, y \in Nat \ {0} : x * y \in Nat \ {0}
    OBVIOUS
  <1>9. /\ Byte^0 \in Nat \ {0} /\ Byte^1 \in Nat \ {0} /\ Byte^2 \in Nat \ {0}
        /\ Byte^3 \in Nat \ {0} /\ Byte^4 \in Nat \ {0} /\ Byte^5 \in Nat \ {0}
        /\ Byte^6 \in Nat \ {0}
    BY <1>4, <1>6, <1>8
  <1>10. \A n \in 0..6 : n = 0 \/ n = 1 \/ n = 2 \/ n = 3 \/ n = 4 \/ n = 5 \/ n = 6
    OBVIOUS
  <1> QED
    BY <1>4, <1>6, <1>7, <1>9, <1>10

(* The digits of a number in base Byte.                                    *)
Digit(x, j) == (x \div Byte^j) % Byte
Bytes(m) == \A a \in DOMAIN m : m[a] \in 0..Byte-1

LEMMA DigitType ==
    ASSUME NEW x \in Int, NEW j \in 0..6
    PROVE  Digit(x, j) \in 0..Byte-1
  <1>1. Byte^j \in Nat \ {0} /\ Byte \in Nat \ {0}
    BY ByteSize
  <1>2. x \div Byte^j \in Int
    BY <1>1, DivMod
  <1> QED
    BY <1>1, <1>2, DivMod DEF Digit

(* One more digit of a number.                                             *)
LEMMA DigitSplit ==
    ASSUME NEW x \in Int, NEW p \in Nat \ {0}, NEW d \in Nat \ {0}
    PROVE  x % (d * p) = (x % p) + ((x \div p) % d) * p
  <1> DEFINE q == x \div p
             r == x % p
             u == q \div d
             t == q % d
  <1>1. q \in Int /\ r \in 0..p-1 /\ x = q * p + r
    BY DivMod
  <1>2. u \in Int /\ t \in 0..d-1 /\ q = u * d + t
    <2> HIDE DEF q
    <2> QED
      BY <1>1, DivMod
  <1> HIDE DEF q, r, u, t
  <1>3. x = (r + t * p) + u * (d * p)
    BY <1>1, <1>2
  <1>4. t * p + p <= d * p /\ t * p >= 0 /\ t * p \in Int
    <2>1. t \in Nat /\ d \in Nat /\ p \in Nat /\ t < d
      BY <1>2
    <2>2. t * p \in Nat
      BY <2>1
    <2> QED
      BY <2>1, <2>2, NextWindow
  <1>5. r + t * p \in 0..d*p-1
    <2> DEFINE tp == t * p
               dp == d * p
    <2>1. tp + p <= dp /\ tp \in Nat /\ dp \in Int /\ r \in 0..p-1 /\ p \in Nat
      BY <1>1, <1>4
    <2> HIDE DEF tp, dp
    <2>2. r + tp \in 0..dp-1
      BY <2>1
    <2> QED
      BY <2>2 DEF tp, dp
  <1>6. d * p \in Nat \ {0}
    OBVIOUS
  <1>7. r + t * p \in Int
    BY <1>1, <1>4
  <1>8. x % (d * p) = r + t * p
    <2> DEFINE dp == d * p
               y == r + t * p
    <2>1. dp \in Nat \ {0} /\ y \in Int /\ u \in Int /\ y \in 0..dp-1 /\ x = y + u * dp
      BY <1>2, <1>3, <1>5, <1>6, <1>7
    <2> HIDE DEF dp, y
    <2>2. x % dp = y
      BY <2>1, ModShift, ModSmall
    <2> QED
      BY <2>2 DEF dp, y
  <1> QED
    BY <1>8 DEF q, r, t

LEMMA Digits ==
    ASSUME NEW x \in Int
    PROVE  /\ x % Byte^1 = Digit(x, 0)
           /\ x % Byte^2 = Digit(x, 0) + Digit(x, 1) * Byte
           /\ x % Byte^4 = Digit(x, 0) + Digit(x, 1) * Byte + Digit(x, 2) * Byte^2
                            + Digit(x, 3) * Byte^3
  <1>1. x \div 1 = x
    BY DivUnique
  <1>2. x % Byte^1 = Digit(x, 0)
    BY <1>1, ByteSize DEF Digit
  <1>3. /\ x % (Byte * Byte^1) = (x % Byte^1) + Digit(x, 1) * Byte^1
        /\ x % (Byte * Byte^2) = (x % Byte^2) + Digit(x, 2) * Byte^2
        /\ x % (Byte * Byte^3) = (x % Byte^3) + Digit(x, 3) * Byte^3
    <2>1. Byte \in Nat \ {0} /\ Byte^1 \in Nat \ {0} /\ Byte^2 \in Nat \ {0} /\ Byte^3 \in Nat \ {0}
      BY ByteSize
    <2> QED
      BY <2>1, DigitSplit DEF Digit
  <1>4. x % Byte^2 = Digit(x, 0) + Digit(x, 1) * Byte
    BY <1>2, <1>3, ByteSize
  <1>5. x % Byte^4 = ((x % Byte^2) + Digit(x, 2) * Byte^2) + Digit(x, 3) * Byte^3
    BY <1>3, ByteSize
  <1> QED
    BY <1>2, <1>4, <1>5
-----------------------------------------------------------------------------
(* Reading and writing a memory of bytes.                                  *)
LEMMA ByteAtType == \A m : Bytes(m) => \A y : ByteAt(m, y) \in 0..Byte-1
  BY ByteSize DEF Bytes, ByteAt

LEMMA GetForms ==
    ASSUME NEW m, Bytes(m), NEW a \in Int
    PROVE  /\ Get(m, a, 1) = ByteAt(m, a)
           /\ Get(m, a, 2) = ByteAt(m, a) + ByteAt(m, a + 1) * Byte
           /\ Get(m, a, 4) = ByteAt(m, a) + ByteAt(m, a + 1) * Byte + ByteAt(m, a + 2) * Byte^2
                               + ByteAt(m, a + 3) * Byte^3
           /\ Get(m, a, 6) = Get(m, a, 4) + ByteAt(m, a + 4) * Byte^4 + ByteAt(m, a + 5) * Byte^5
  <1> DEFINE D(j) == ByteAt(m, a + j)
             P(j) == D(j) * Byte^j
  <1>1. \A j \in 0..5 : D(j) \in Int /\ Byte^j \in Int
    BY ByteAtType, ByteSize
  <1>2. P(0) = D(0) /\ P(1) = D(1) * Byte
    BY <1>1, ByteSize
  <1>3. a + 0 = a /\ D(0) = ByteAt(m, a)
    OBVIOUS
  <1>4. P(0) \in Int /\ P(1) \in Int /\ P(2) \in Int /\ P(3) \in Int /\ P(4) \in Int /\ P(5) \in Int
    BY <1>1
  <1>5. /\ Get(m, a, 1) = P(0) + 0 + 0 + 0 + 0 + 0
        /\ Get(m, a, 2) = P(0) + P(1) + 0 + 0 + 0 + 0
        /\ Get(m, a, 4) = P(0) + P(1) + P(2) + P(3) + 0 + 0
        /\ Get(m, a, 6) = P(0) + P(1) + P(2) + P(3) + P(4) + P(5)
    BY DEF Get
  <1> HIDE DEF P
  <1>6. /\ Get(m, a, 1) = P(0) /\ Get(m, a, 2) = P(0) + P(1)
        /\ Get(m, a, 4) = P(0) + P(1) + P(2) + P(3)
        /\ Get(m, a, 6) = Get(m, a, 4) + P(4) + P(5)
    BY <1>4, <1>5
  <1> QED
    BY <1>2, <1>3, <1>6 DEF P

(* Memories with the same bytes read the same.                             *)
LEMMA GetSame ==
    ASSUME NEW m, NEW k, NEW a \in Int, NEW n \in Nat,
           \A y \in a..a+n-1 : ByteAt(m, y) = ByteAt(k, y)
    PROVE  Get(m, a, n) = Get(k, a, n)
  <1>1. ASSUME NEW j \in 0..5, j < n PROVE ByteAt(m, a + j) = ByteAt(k, a + j)
    <2>1. a + j \in a..a+n-1
      BY <1>1
    <2> QED
      BY <2>1
  <1> QED
    BY <1>1 DEF Get

(* The bytes of a number, read as a number.                                *)
LEMMA GetDigits ==
    ASSUME NEW m, Bytes(m), NEW a \in Int, NEW n \in {1, 2, 4}, NEW x \in Int,
           \A y \in a..a+n-1 : ByteAt(m, y) = Digit(x, y - a)
    PROVE  Get(m, a, n) = x % Byte^n
  <1>1. \A j \in 0..3 : j < n => ByteAt(m, a + j) = Digit(x, j)
    <2>1. \A j \in 0..3 : j < n => a + j \in a..a+n-1 /\ (a + j) - a = j
      OBVIOUS
    <2> QED
      BY <2>1
  <1>2. a + 0 = a
    OBVIOUS
  <1>3. CASE n = 1
    BY <1>1, <1>2, <1>3, GetForms, Digits
  <1>4. CASE n = 2
    BY <1>1, <1>2, <1>4, GetForms, Digits
  <1>5. CASE n = 4
    BY <1>1, <1>2, <1>5, GetForms, Digits
  <1> QED
    BY <1>3, <1>4, <1>5

LEMMA GetType ==
    ASSUME NEW m, Bytes(m), NEW a \in Int
    PROVE  /\ Get(m, a, 1) \in Word /\ Get(m, a, 2) \in Word /\ Get(m, a, 4) \in Word
           /\ Get(m, a, 6) \in Nat
  <1> DEFINE B == Byte
             d0 == ByteAt(m, a)
             d1 == ByteAt(m, a + 1)
             d2 == ByteAt(m, a + 2)
             d3 == ByteAt(m, a + 3)
             d4 == ByteAt(m, a + 4)
             d5 == ByteAt(m, a + 5)
  <1>1. /\ d0 \in Nat /\ d1 \in Nat /\ d2 \in Nat /\ d3 \in Nat /\ d4 \in Nat /\ d5 \in Nat
        /\ d0 < B /\ d1 < B /\ d2 < B /\ d3 < B /\ B \in Nat
    BY ByteAtType, ByteSize
  <1>2. /\ Byte^2 \in Nat /\ Byte^3 \in Nat /\ Byte^4 \in Nat /\ Byte^5 \in Nat
        /\ Byte^2 = B * B /\ Byte^3 = B * Byte^2 /\ Byte^4 = B * Byte^3 /\ Byte^4 = 2^W
    BY ByteSize
  <1>3. d1 * B + B <= Byte^2 /\ d2 * Byte^2 + Byte^2 <= Byte^3 /\ d3 * Byte^3 + Byte^3 <= Byte^4
    BY <1>1, <1>2, NextWindow
  <1>4. d1 * B \in Nat /\ d2 * Byte^2 \in Nat /\ d3 * Byte^3 \in Nat /\ d4 * Byte^4 \in Nat
         /\ d5 * Byte^5 \in Nat
    BY <1>1, <1>2
  <1>5. /\ Get(m, a, 1) = d0 /\ Get(m, a, 2) = d0 + d1 * B
        /\ Get(m, a, 4) = d0 + d1 * B + d2 * Byte^2 + d3 * Byte^3
        /\ Get(m, a, 6) = Get(m, a, 4) + d4 * Byte^4 + d5 * Byte^5
    BY GetForms
  <1> DEFINE p1 == d1 * B
             p2 == d2 * Byte^2
             p3 == d3 * Byte^3
             p4 == d4 * Byte^4
             p5 == d5 * Byte^5
             b2 == Byte^2
             b3 == Byte^3
             b4 == Byte^4
  <1>6. /\ p1 \in Nat /\ p2 \in Nat /\ p3 \in Nat /\ p4 \in Nat /\ p5 \in Nat
        /\ p1 + B <= b2 /\ p2 + b2 <= b3 /\ p3 + b3 <= b4 /\ b4 = 2^W
        /\ b2 \in Nat /\ b3 \in Nat /\ b4 \in Nat
        /\ Get(m, a, 1) = d0 /\ Get(m, a, 2) = d0 + p1 /\ Get(m, a, 4) = d0 + p1 + p2 + p3
        /\ Get(m, a, 6) = Get(m, a, 4) + p4 + p5
    BY <1>2, <1>3, <1>4, <1>5
  <1> HIDE DEF p1, p2, p3, p4, p5, b2, b3, b4, d0, d1, d2, d3, d4, d5, B
  <1>7. /\ Get(m, a, 1) \in Nat /\ Get(m, a, 2) \in Nat /\ Get(m, a, 4) \in Nat
        /\ Get(m, a, 6) \in Nat
        /\ Get(m, a, 1) < b4 /\ Get(m, a, 2) < b4 /\ Get(m, a, 4) < b4
    BY <1>1, <1>6
  <1> QED
    BY <1>6, <1>7, WordSize

(* A write changes the bytes it names, to those of the value.              *)
LEMMA PutByte ==
    ASSUME NEW m, NEW a \in Int, NEW n \in Nat, NEW x, NEW y
    PROVE  /\ y \in a..a+n-1 => ByteAt(Put(m, a, n, x), y) = Digit(x, y - a)
           /\ y \notin a..a+n-1 => ByteAt(Put(m, a, n, x), y) = ByteAt(m, y)
  BY DEF Put, ByteAt, Digit

LEMMA PutBytes ==
    ASSUME NEW m, Bytes(m), NEW a \in Int, NEW n \in 0..6, NEW x \in Int
    PROVE  Bytes(Put(m, a, n, x))
  <1> SUFFICES ASSUME NEW y \in DOMAIN m \cup a..a+n-1
               PROVE  (IF y \in a..a+n-1 THEN (x \div Byte^(y-a)) % Byte ELSE m[y]) \in 0..Byte-1
    BY DEF Put, Bytes
  <1>1. CASE y \in a..a+n-1
    <2>1. y - a \in 0..6
      BY <1>1
    <2> QED
      BY <1>1, <2>1, DigitType DEF Digit
  <1>2. CASE y \notin a..a+n-1
    BY <1>2 DEF Bytes
  <1> QED
    BY <1>1, <1>2

(* What is written is read back.                                           *)
LEMMA GetPut ==
    ASSUME NEW m, Bytes(m), NEW a \in Int, NEW n \in {1, 2, 4}, NEW x \in Int
    PROVE  /\ Get(Put(m, a, n, x), a, n) = x % Byte^n
           /\ n = 4 /\ x \in Word => Get(Put(m, a, n, x), a, n) = x
  <1>1. Bytes(Put(m, a, n, x))
    <2>1. n \in 0..6
      OBVIOUS
    <2> QED
      BY <2>1, PutBytes
  <1>2. \A y \in a..a+n-1 : ByteAt(Put(m, a, n, x), y) = Digit(x, y - a)
    BY PutByte
  <1>3. Get(Put(m, a, n, x), a, n) = x % Byte^n
    BY <1>1, <1>2, GetDigits
  <1> QED
    BY <1>3, ByteSize, WrapFacts DEF Wrap

(* A write elsewhere is not noticed.                                       *)
LEMMA GetPutApart ==
    ASSUME NEW m, NEW a \in Int, NEW n \in Nat, NEW x, NEW c \in Int, NEW k \in Nat,
           Apart(a, n, c, k)
    PROVE  /\ \A y \in c..c+k-1 : ByteAt(Put(m, a, n, x), y) = ByteAt(m, y)
           /\ Get(Put(m, a, n, x), c, k) = Get(m, c, k)
  <1>1. ASSUME NEW y \in c..c+k-1 PROVE ByteAt(Put(m, a, n, x), y) = ByteAt(m, y)
    <2>1. y \notin a..a+n-1
      BY DEF Apart
    <2> QED
      BY <2>1, PutByte
  <1> QED
    BY <1>1, GetSame

LEMMA ExtendType ==
    ASSUME NEW x \in Int, NEW n \in {1, 2, 4}
    PROVE  Extend(x, n) \in Word
  <1>1. Byte^n \in Nat \ {0} /\ Byte^n <= 2^W
    <2>1. /\ Byte \in Nat \ {0} /\ Byte^1 = Byte /\ Byte^2 \in Nat \ {0} /\ Byte^3 \in Nat \ {0}
          /\ Byte^2 = Byte * Byte /\ Byte^3 = Byte * Byte^2 /\ Byte^4 = Byte * Byte^3
          /\ Byte^4 \in Nat \ {0}
      BY ByteSize
    <2>2. \A p \in Nat \ {0} : \A d \in Nat \ {0} : p <= d * p
      BY NextWindow
    <2>3. Byte <= Byte^2 /\ Byte^2 <= Byte^3 /\ Byte^3 <= Byte^4
      BY <2>1, <2>2
    <2> QED
      BY <2>1, <2>3, ByteSize
  <1>2. x % Byte^n \in 0..Byte^n-1
    BY <1>1, DivMod
  <1> DEFINE low == x % Byte^n
  <1>3. low \in Word /\ low - Byte^n \in Int
    BY <1>1, <1>2, WordSize
  <1> QED
    BY <1>3, WrapFacts DEF Extend
-----------------------------------------------------------------------------
(* The instructions of a program.                                          *)
LEMMA MinFacts ==
    ASSUME NEW S \in SUBSET Nat, S # {}
    PROVE  Min(S) \in S /\ \A x \in S : Min(S) <= x
  <1>1. \E x \in S : \A y \in S : x <= y
    <2> SUFFICES ASSUME ~\E x \in S : \A y \in S : x <= y
                 PROVE  FALSE
      OBVIOUS
    <2> DEFINE X == {n \in Nat : \A k \in 0..n : k \notin S}
    <2>1. 0 \in X
      <3>1. 0 \notin S
        <4> SUFFICES ASSUME 0 \in S PROVE FALSE
          OBVIOUS
        <4>1. \A y \in S : 0 <= y
          OBVIOUS
        <4> QED
          BY <4>1
      <3>2. \A k \in 0..0 : k = 0
        OBVIOUS
      <3> QED
        BY <3>1, <3>2
    <2>2. ASSUME NEW n \in Nat, n \in X PROVE n + 1 \in X
      <3>1. n + 1 \notin S
        <4> SUFFICES ASSUME n + 1 \in S PROVE FALSE
          OBVIOUS
        <4>1. ASSUME NEW y \in S PROVE n + 1 <= y
          <5>1. y \in Nat /\ y \notin 0..n
            BY <2>2
          <5> QED
            BY <5>1
        <4> QED
          BY <4>1
      <3>2. \A k \in 0..n+1 : k \in 0..n \/ k = n + 1
        OBVIOUS
      <3> QED
        BY <2>2, <3>1, <3>2
    <2>3. Nat \subseteq X
      <3> HIDE DEF X
      <3> QED
        BY <2>1, <2>2, One!SetInduction, Assumed
    <2>4. \A x \in S : x \in X /\ x \in 0..x
      BY <2>3
    <2> QED
      BY <2>4
  <1> QED
    BY <1>1 DEF Min

Lanewise == WriteOps \cup ReadOps \cup NoLDS
Pairwise == {"D_READ2_B32", "V_CVTA_SHARED_TO_FLAT"}
Writers == StoreOps \cup BufferStores \cup {"V_BUFFER_ATOMIC_ADD"}
WriterBytes(op) == IF op \in StoreOps THEN StoreBytes(op) ELSE BufferBytes(op)

(* An instruction is of one kind.                                          *)
LEMMA OpSets ==
    \A op :
        /\ op \in GlobalOps <=> op \in SLSOps \cup VLSOps \cup BufferOps
        /\ op \in VLSOps <=> op \in LoadOps \cup LoadXOps \cup StoreOps \cup {"V_STORE_U64"}
        /\ op \in BufferOps <=> op \in BufferLoads \cup BufferStores \cup {"V_BUFFER_ATOMIC_ADD"}
        /\ op \in SLSOps => op \notin VLSOps \cup BufferOps \cup Lanewise \cup Pairwise
        /\ op \in VLSOps => op \notin SLSOps \cup BufferOps \cup Lanewise \cup Pairwise
        /\ op \in BufferOps => op \notin SLSOps \cup VLSOps \cup Lanewise \cup Pairwise
        /\ op \in Lanewise => op \notin GlobalOps \cup Pairwise
        /\ op \in Pairwise => op \notin GlobalOps \cup Lanewise
        /\ op \in LoadOps => op \notin LoadXOps \cup StoreOps \cup {"V_STORE_U64"}
        /\ op \in LoadXOps => op \notin LoadOps \cup StoreOps \cup {"V_STORE_U64"}
        /\ op \in StoreOps => op \notin LoadOps \cup LoadXOps \cup {"V_STORE_U64"}
        /\ op = "V_STORE_U64" => op \notin LoadOps \cup LoadXOps \cup StoreOps
        /\ op \in BufferLoads => op \notin BufferStores /\ op # "V_BUFFER_ATOMIC_ADD"
        /\ op \in BufferStores => op \notin BufferLoads /\ op # "V_BUFFER_ATOMIC_ADD"
        /\ op = "V_BUFFER_ATOMIC_ADD" => op \notin BufferLoads \cup BufferStores
        /\ op \in WriteOps => op \notin ReadOps \cup NoLDS
        /\ op \in ReadOps => op \notin WriteOps \cup NoLDS
        /\ op \in NoLDS => op \notin ReadOps \cup WriteOps
        /\ op \in Writers => op \in GlobalOps /\ op \notin SLSOps \cup LoadOps \cup LoadXOps \cup BufferLoads
  <1>1. \A op :
        /\ op \in SLSOps => op \notin VLSOps \cup BufferOps \cup Lanewise \cup Pairwise
        /\ op \in VLSOps => op \notin BufferOps \cup Lanewise \cup Pairwise
        /\ op \in BufferOps => op \notin Lanewise \cup Pairwise
        /\ op \in Lanewise => op \notin Pairwise
    BY DEF SLSOps, VLSOps, BufferOps, Lanewise, Pairwise, LoadOps, LoadXOps, StoreOps,
           BufferLoads, BufferStores, WriteOps, ReadOps, NoLDS
  <1>2. \A op :
        /\ op \in LoadOps => op \notin LoadXOps \cup StoreOps \cup {"V_STORE_U64"}
        /\ op \in LoadXOps => op \notin StoreOps \cup {"V_STORE_U64"}
        /\ op \in StoreOps => op # "V_STORE_U64"
        /\ op \in BufferLoads => op \notin BufferStores /\ op # "V_BUFFER_ATOMIC_ADD"
        /\ op \in BufferStores => op # "V_BUFFER_ATOMIC_ADD"
        /\ op \in WriteOps => op \notin ReadOps \cup NoLDS
        /\ op \in ReadOps => op \notin NoLDS
    BY DEF LoadOps, LoadXOps, StoreOps, BufferLoads, BufferStores, WriteOps, ReadOps, NoLDS
  <1>3. \A op : /\ op \in GlobalOps <=> op \in SLSOps \cup VLSOps \cup BufferOps
                /\ op \in VLSOps <=> op \in LoadOps \cup LoadXOps \cup StoreOps \cup {"V_STORE_U64"}
                /\ op \in BufferOps
                     <=> op \in BufferLoads \cup BufferStores \cup {"V_BUFFER_ATOMIC_ADD"}
    BY DEF GlobalOps, VLSOps, BufferOps
  <1> QED
    BY <1>1, <1>2, <1>3 DEF Writers

(* The bytes and words that an instruction accesses.                       *)
LEMMA OpSizes ==
    \A op : /\ op \in SLSOps => SLSWords(op) \in {1, 2, 4, 8, 16}
            /\ op \in LoadOps => LoadBytes(op) \in {1, 2, 4}
            /\ LoadWords(op) \in {2, 4}
            /\ op \in StoreOps => StoreBytes(op) \in {1, 2, 4}
            /\ BufferBytes(op) \in {1, 4}
            /\ op \in WriteOps => WriteLDS(op) \in {1, 2, 4}
            /\ op \in ReadOps => ReadLDS(op) \in {1, 2, 4}
            /\ op \in Writers => WriterBytes(op) \in {1, 2, 4}
  <1>1. \A op : /\ op \in SLSOps => SLSWords(op) \in {1, 2, 4, 8, 16}
                /\ op \in LoadOps => LoadBytes(op) \in {1, 2, 4}
    BY DEF SLSOps, SLSWords, LoadOps, LoadBytes
  <1>2. \A op : op \in StoreOps => StoreBytes(op) \in {1, 2, 4}
    BY DEF StoreOps, StoreBytes
  <1>3. \A op : op \in WriteOps => WriteLDS(op) \in {1, 2, 4}
    BY DEF WriteOps, WriteLDS
  <1>4. \A op : op \in ReadOps => ReadLDS(op) \in {1, 2, 4}
    BY DEF ReadOps, ReadLDS
  <1>5. \A op : LoadWords(op) \in {2, 4} /\ BufferBytes(op) \in {1, 4}
    BY DEF LoadWords, BufferBytes
  <1> QED
    BY <1>1, <1>2, <1>3, <1>4, <1>5 DEF Writers, WriterBytes
-----------------------------------------------------------------------------
(* Where the blocks are.  Taking(b, k) are the lanes that execute          *)
(* instruction k; the lanes of an instruction take their turns in order,   *)
(* and the lane at work is the next.                                       *)
Taking(b, k) == IF At(b, k).op \in SLSOps THEN {Min(program.active[b])} ELSE program.active[b]
Executed(b, k, l) == pc[b] > k \/ (pc[b] = k /\ l \in ran[b])

Accesses(op) ==
    IF op \in SLSOps THEN SLSWords(op)
    ELSE IF op \in LoadXOps THEN LoadWords(op)
    ELSE IF op = "V_BUFFER_ATOMIC_ADD" THEN 2 ELSE 1

BlockControl(b) ==
    /\ pc[b] \in 1..Len(program.code[b])+1
    /\ Ended(b) => ran[b] = {} /\ work[b] = Idle
    /\ ~Ended(b) => /\ ran[b] \subseteq Takers(b) /\ ran[b] # Takers(b)
                    /\ \A l \in ran[b] : \A m \in Takers(b) \ ran[b] : l < m
    /\ work[b] # Idle => /\ Inst(b).op \in GlobalOps /\ work[b].lane = NextLane(b)
                         /\ work[b].k \in 0..Accesses(Inst(b).op)-1

Works == [at : Nat, k : Nat, held : [0..3 -> Word], lane : Int]

ControlInv ==
    /\ program \in Programs
    /\ pc \in [Blocks -> Nat] /\ ran \in [Blocks -> SUBSET Lanes] /\ work \in [Blocks -> Works]
    /\ \A b \in Blocks : BlockControl(b)

MemoryInv ==
    /\ v \in [Blocks -> [0..MaxV -> [Lanes -> Word]]]
    /\ s \in [Blocks -> [0..MaxS -> Word]]
    /\ DOMAIN shared = Blocks /\ shared = [b \in Blocks |-> shared[b]]
    /\ \A b \in Blocks : Bytes(shared[b])
    /\ Bytes(mem)
    /\ aborted \in BOOLEAN

LEMMA ProgramFacts ==
    ASSUME program \in Programs, NEW b \in Blocks
    PROVE  /\ Len(program.code[b]) \in Nat
           /\ \A k \in 1..Len(program.code[b]) : RegistersExist(At(b, k))
           /\ program.active[b] # {} /\ program.active[b] \subseteq Lanes
           /\ program.cta[b].x \in Nat /\ program.cta[b].y \in Nat /\ program.cta[b].z \in Nat
           /\ program.v \in [Blocks -> [0..MaxV -> [Lanes -> Word]]]
           /\ program.s \in [Blocks -> [0..MaxS -> Word]]
           /\ Bytes(program.mem)
           /\ \A r \in 0..MaxV, l \in Lanes : Reg(b, r, l) \in Word
           /\ \A r \in 0..MaxS : program.s[b][r] \in Word
           /\ Lanes \subseteq Nat /\ NLanes \in Nat
           /\ \A k : Taking(b, k) # {} /\ Taking(b, k) \subseteq program.active[b]
                      /\ Taking(b, k) \subseteq Lanes
  <1>1. /\ Len(program.code[b]) \in Nat
        /\ \A k \in 1..Len(program.code[b]) : RegistersExist(At(b, k))
        /\ program.active[b] # {} /\ program.active[b] \subseteq Lanes
        /\ program.cta[b].x \in Nat /\ program.cta[b].y \in Nat /\ program.cta[b].z \in Nat
        /\ program.v \in [Blocks -> [0..MaxV -> [Lanes -> Word]]]
        /\ program.s \in [Blocks -> [0..MaxS -> Word]]
        /\ Bytes(program.mem)
    BY ProgramAssumption DEF At, Bytes
  <1>2. Lanes \subseteq Nat /\ NLanes \in Nat
    BY MemoryAssumption, WordSize DEF Lanes
  <1>3. Min(program.active[b]) \in program.active[b]
    BY <1>1, <1>2, MinFacts
  <1>4. \A k : Taking(b, k) # {} /\ Taking(b, k) \subseteq program.active[b]
    BY <1>1, <1>3 DEF Taking
  <1>5. /\ \A r \in 0..MaxV, l \in Lanes : Reg(b, r, l) \in Word
        /\ \A r \in 0..MaxS : program.s[b][r] \in Word
    <2>1. ASSUME NEW r \in 0..MaxV, NEW l \in Lanes PROVE program.v[b][r][l] \in Word
      <3>1. program.v[b] \in [0..MaxV -> [Lanes -> Word]]
        BY <1>1
      <3>2. program.v[b][r] \in [Lanes -> Word]
        BY <3>1
      <3> QED
        BY <3>2
    <2>2. program.s[b] \in [0..MaxS -> Word]
      BY <1>1
    <2> QED
      BY <2>1, <2>2 DEF Reg
  <1> QED
    BY <1>1, <1>2, <1>4, <1>5

(* The next lane is the smallest of those that have not executed.          *)
LEMMA NextFacts ==
    ASSUME ControlInv, NEW b \in Blocks, ~Ended(b)
    PROVE  /\ pc[b] \in 1..Len(program.code[b]) /\ Len(program.code[b]) \in Nat
           /\ Inst(b) = At(b, pc[b]) /\ RegistersExist(Inst(b))
           /\ Takers(b) = Taking(b, pc[b])
           /\ NextLane(b) \in Takers(b) /\ NextLane(b) \notin ran[b]
           /\ NextLane(b) \in program.active[b] /\ NextLane(b) \in Lanes /\ NextLane(b) \in Nat
           /\ \A m \in Takers(b) \ ran[b] : NextLane(b) <= m
           /\ \A m \in Takers(b) : m \in ran[b] <=> m < NextLane(b)
  <1>1. Len(program.code[b]) \in Nat /\ pc[b] \in 1..Len(program.code[b])
    BY ProgramFacts DEF ControlInv, BlockControl, Ended
  <1>2. Inst(b) = At(b, pc[b]) /\ Takers(b) = Taking(b, pc[b])
    BY DEF Inst, At, Takers, Taking
  <1>3. RegistersExist(Inst(b))
    BY <1>1, <1>2, ProgramFacts DEF ControlInv
  <1>4. Takers(b) \subseteq Lanes /\ Takers(b) \subseteq program.active[b] /\ Lanes \subseteq Nat
    BY <1>2, ProgramFacts DEF ControlInv
  <1>5. Takers(b) \ ran[b] # {} /\ Takers(b) \ ran[b] \in SUBSET Nat
    BY <1>4 DEF ControlInv, BlockControl
  <1>6. NextLane(b) \in Takers(b) \ ran[b] /\ \A m \in Takers(b) \ ran[b] : NextLane(b) <= m
    BY <1>5, MinFacts DEF NextLane
  <1>7. \A m \in Takers(b) : m \in ran[b] <=> m < NextLane(b)
    <2>1. ASSUME NEW m \in Takers(b), m \in ran[b] PROVE m < NextLane(b)
      BY <1>6, <2>1 DEF ControlInv, BlockControl
    <2>2. ASSUME NEW m \in Takers(b), m \notin ran[b] PROVE ~(m < NextLane(b))
      <3>1. m \in Nat /\ NextLane(b) \in Nat /\ NextLane(b) <= m
        BY <1>4, <1>6, <2>2
      <3> QED
        BY <3>1
    <2> QED
      BY <2>1, <2>2
  <1> QED
    BY <1>1, <1>2, <1>3, <1>4, <1>6, <1>7

(* The lane that is done has executed its instruction, and nothing else    *)
(* has been executed.                                                      *)
LEMMA LaneStep ==
    ASSUME ControlInv, NEW b \in Blocks, ~Ended(b), program' = program,
           LaneDone(b, NextLane(b))
    PROVE  /\ pc' \in [Blocks -> Nat] /\ ran' \in [Blocks -> SUBSET Lanes]
           /\ work' \in [Blocks -> Works]
           /\ \A c \in Blocks : c # b => pc'[c] = pc[c] /\ ran'[c] = ran[c] /\ work'[c] = work[c]
           /\ work'[b] = Idle /\ pc'[b] >= pc[b] /\ (pc'[b] = pc[b] => ran[b] \subseteq ran'[b])
           /\ BlockControl(b)'
           /\ \A k \in 1..Len(program.code[b]) : \A m \in Taking(b, k) :
                 Executed(b, k, m)' <=> Executed(b, k, m) \/ (k = pc[b] /\ m = NextLane(b))
  <1> DEFINE l == NextLane(b)
             all == ran[b] \cup {l} = Takers(b)
  <1>1. /\ pc[b] \in 1..Len(program.code[b]) /\ Len(program.code[b]) \in Nat
        /\ Takers(b) = Taking(b, pc[b])
        /\ l \in Takers(b) /\ l \notin ran[b] /\ l \in Lanes
        /\ \A m \in Takers(b) \ ran[b] : l <= m
    BY NextFacts
  <1>2. /\ ran' = [ran EXCEPT ![b] = IF all THEN {} ELSE ran[b] \cup {l}]
        /\ pc' = [pc EXCEPT ![b] = IF all THEN pc[b] + 1 ELSE pc[b]]
        /\ work' = [work EXCEPT ![b] = Idle]
    BY DEF LaneDone
  <1>3. Idle \in Works
    BY WordSize DEF Idle, Access, Empty, Works
  <1>4. pc \in [Blocks -> Nat] /\ ran \in [Blocks -> SUBSET Lanes] /\ work \in [Blocks -> Works]
         /\ BlockControl(b)
    BY DEF ControlInv
  <1>5. /\ pc' \in [Blocks -> Nat] /\ ran' \in [Blocks -> SUBSET Lanes]
        /\ work' \in [Blocks -> Works]
        /\ \A c \in Blocks : c # b => pc'[c] = pc[c] /\ ran'[c] = ran[c] /\ work'[c] = work[c]
        /\ work'[b] = Idle
        /\ ran'[b] = IF all THEN {} ELSE ran[b] \cup {l}
        /\ pc'[b] = IF all THEN pc[b] + 1 ELSE pc[b]
    <2> HIDE DEF all, l
    <2>1. (IF all THEN {} ELSE ran[b] \cup {l}) \in SUBSET Lanes
      BY <1>1, <1>4
    <2>2. (IF all THEN pc[b] + 1 ELSE pc[b]) \in Nat
      BY <1>4
    <2> QED
      BY <1>2, <1>3, <1>4, <2>1, <2>2
  <1>6. ran[b] \subseteq Takers(b) /\ \A n \in ran[b] : \A m \in Takers(b) \ ran[b] : n < m
    BY <1>4 DEF BlockControl
  <1>7. \A k : Taking(b, k)' = Taking(b, k)
    BY DEF Taking, At
  <1>8. Takers(b)' = Taking(b, pc'[b]) /\ Taking(b, pc'[b]) # {}
    <2>1. Takers(b)' = Taking(b, pc'[b])
      BY DEF Takers, Taking, Inst, At
    <2> QED
      BY <2>1, ProgramFacts DEF ControlInv
  <1>9. CASE all
    <2>1. pc'[b] = pc[b] + 1 /\ ran'[b] = {}
      BY <1>5, <1>9
    <2>2. BlockControl(b)'
      <3>1. pc'[b] \in 1..Len(program.code[b])+1
        BY <1>1, <2>1
      <3>2. ran'[b] # Takers(b)'
        BY <1>8, <2>1
      <3> QED
        BY <1>5, <2>1, <3>1, <3>2 DEF BlockControl
    <2>3. ASSUME NEW k \in 1..Len(program.code[b]), NEW m \in Taking(b, k)
          PROVE  Executed(b, k, m)' <=> Executed(b, k, m) \/ (k = pc[b] /\ m = l)
      <3>1. Executed(b, k, m)' <=> pc[b] + 1 > k
        BY <2>1 DEF Executed
      <3>2. k = pc[b] => m \in ran[b] \/ m = l
        BY <1>1, <1>9
      <3> QED
        BY <1>1, <3>1, <3>2 DEF Executed
    <2> QED
      BY <1>1, <1>5, <2>1, <2>2, <2>3
  <1>10. CASE ~all
    <2>1. pc'[b] = pc[b] /\ ran'[b] = ran[b] \cup {l}
      BY <1>5, <1>10
    <2>2. Takers(b)' = Takers(b) /\ ~Ended(b)'
      BY <1>1, <1>8, <2>1 DEF Ended
    <2>3. BlockControl(b)'
      <3>1. pc'[b] \in 1..Len(program.code[b])+1
        BY <1>1, <2>1
      <3>2. ran'[b] # Takers(b)' /\ ran'[b] \subseteq Takers(b)'
        BY <1>1, <1>6, <1>10, <2>1, <2>2
      <3>3. ASSUME NEW n \in ran[b] \cup {l}, NEW m \in Takers(b) \ (ran[b] \cup {l})
            PROVE  n < m
        <4>1. n \in Nat /\ m \in Nat
          BY <1>1, <1>4, ProgramFacts DEF ControlInv
        <4>2. CASE n \in ran[b]
          BY <1>6, <4>2
        <4>3. CASE n = l
          BY <1>1, <4>1, <4>3
        <4> QED
          BY <4>2, <4>3
      <3>4. \A n \in ran'[b] : \A m \in Takers(b)' \ ran'[b] : n < m
        BY <2>1, <2>2, <3>3
      <3> QED
        BY <1>5, <2>2, <3>1, <3>2, <3>4 DEF BlockControl
    <2>4. ASSUME NEW k \in 1..Len(program.code[b]), NEW m \in Taking(b, k)
          PROVE  Executed(b, k, m)' <=> Executed(b, k, m) \/ (k = pc[b] /\ m = l)
      BY <1>1, <2>1 DEF Executed
    <2> QED
      BY <1>1, <1>5, <2>1, <2>3, <2>4
  <1> QED
    BY <1>9, <1>10

(* The other blocks and their control are not affected.                    *)
LEMMA ControlStays ==
    ASSUME NEW c, BlockControl(c), program' = program,
           pc'[c] = pc[c], ran'[c] = ran[c], work'[c] = work[c]
    PROVE  /\ BlockControl(c)'
           /\ \A k, m : Executed(c, k, m)' <=> Executed(c, k, m)
  <1>1. /\ Ended(c)' <=> Ended(c)
        /\ Takers(c)' = Takers(c) /\ Inst(c)' = Inst(c)
    BY DEF Ended, Takers, Inst
  <1>2. NextLane(c)' = NextLane(c)
    BY <1>1 DEF NextLane
  <1> QED
    BY <1>1, <1>2 DEF BlockControl, Executed
-----------------------------------------------------------------------------
(* Addresses.                                                              *)
BlockContext(c) ==
    /\ c.v \in [0..MaxV -> [Lanes -> Word]] /\ c.s \in [0..MaxS -> Word] /\ Bytes(c.shared)

LEMMA ContextType ==
    ASSUME MemoryInv, NEW b \in Blocks
    PROVE  BlockContext(Context(b))
  BY DEF MemoryInv, BlockContext, Context

LEMMA MemPtrType ==
    ASSUME NEW c, BlockContext(c), NEW r, r \in 0..MaxS, r + 1 \in 0..MaxS
    PROVE  MemPtr(c, r) \in Nat /\ Wrap(MemPtr(c, r)) = c.s[r]
  <1> DEFINE h == c.s[r + 1] % 2^(W \div 2)
             n == c.s[r]
  <1>1. c.s[r] \in Word /\ c.s[r + 1] \in Word
    BY DEF BlockContext
  <1>2. 2^(W \div 2) \in Nat \ {0}
    <2>1. W \div 2 \in 0..W
      BY WidthAssumption
    <2> QED
      BY <2>1, One!Powers, Assumed
  <1>3. h \in Nat
    <2>1. c.s[r + 1] \in Int
      BY <1>1, WordSize
    <2>2. h \in 0..2^(W \div 2)-1
      BY <1>2, <2>1, DivMod
    <2> QED
      BY <1>2, <2>2
  <1>4. 2^W \in Nat /\ n \in Nat /\ n \in Word
    BY <1>1, WordSize
  <1>5. MemPtr(c, r) = n + 2^W * h
    BY DEF MemPtr
  <1> HIDE DEF h, n
  <1>6. n + 2^W * h \in Nat /\ n + 2^W * h = n + h * 2^W
    BY <1>3, <1>4
  <1>7. Wrap(n + h * 2^W) = n
    BY <1>3, <1>4, WrapFacts
  <1> QED
    BY <1>5, <1>6, <1>7 DEF n

LEMMA BufferParts ==
    ASSUME NEW c, BlockContext(c), NEW i, RegistersExist(i), i.op \in BufferOps, NEW l \in Lanes
    PROVE  /\ MemPtr(c, 4 * i.rsrc) \in Nat
           /\ ReadBufferResource(c, 4 * i.rsrc).base \in Nat
           /\ ReadBufferResource(c, 4 * i.rsrc).stride \in Nat
           /\ c.s[i.soffset] \in Nat /\ i.offset \in Nat
           /\ OffVgpr(c, i, l) \in Nat /\ IdxVgpr(c, i, l) \in Nat /\ l \in Nat
  <1>1. /\ 4 * i.rsrc \in 0..MaxS /\ 4 * i.rsrc + 1 \in 0..MaxS /\ i.soffset \in 0..MaxS
        /\ (i.idxen => i.base \in 0..MaxV)
        /\ (i.offen => i.base + Flag(i.idxen) \in 0..MaxV)
        /\ i.offset \in Nat
    BY DEF RegistersExist
  <1>2. MemPtr(c, 4 * i.rsrc) \in Nat
    BY <1>1, MemPtrType
  <1> DEFINE at == MemPtr(c, 4 * i.rsrc)
  <1>3. /\ ReadBufferResource(c, 4 * i.rsrc).base = Get(c.shared, at, 6)
        /\ ReadBufferResource(c, 4 * i.rsrc).stride = Get(c.shared, at + 6, 2) % (Byte^2 \div 4)
    BY DEF ReadBufferResource
  <1> HIDE DEF at
  <1>4. at \in Int /\ at + 6 \in Int
    BY <1>2 DEF at
  <1>5. Get(c.shared, at, 6) \in Nat /\ Get(c.shared, at + 6, 2) \in Nat
    BY <1>4, GetType, WordSize DEF BlockContext
  <1>6. Byte^2 \div 4 \in Nat \ {0}
    <2>1. Byte^2 \in Nat /\ Byte^2 >= 4
      <3>1. Byte \in Nat /\ Byte >= 2 /\ Byte^2 = Byte * Byte
        BY ByteSize
      <3>2. Byte * Byte >= 2 * 2
        BY <3>1
      <3> QED
        BY <3>1, <3>2
    <2> QED
      BY <2>1
  <1>7. Get(c.shared, at + 6, 2) % (Byte^2 \div 4) \in Nat
    <2>1. \A m \in Nat \ {0} : \A x \in Nat : x % m \in Nat
      OBVIOUS
    <2> QED
      BY <1>5, <1>6, <2>1
  <1>8. c.s[i.soffset] \in Nat
    BY <1>1, WordSize DEF BlockContext
  <1>9. OffVgpr(c, i, l) \in Nat /\ IdxVgpr(c, i, l) \in Nat
    <2>1. \A r \in 0..MaxV : c.v[r][l] \in Nat
      BY WordSize DEF BlockContext
    <2> QED
      BY <1>1, <2>1 DEF OffVgpr, IdxVgpr
  <1>10. l \in Nat
    BY MemoryAssumption, WordSize DEF Lanes
  <1> QED
    BY <1>1, <1>2, <1>3, <1>5, <1>7, <1>8, <1>9, <1>10

LEMMA AddressType ==
    ASSUME NEW c, BlockContext(c), NEW i, RegistersExist(i), i.op \in GlobalOps, NEW l \in Lanes
    PROVE  Addresses(c, i, l) \subseteq Nat
  <1>1. CASE i.op \in SLSOps
    <2>1. 2 * i.base \in 0..MaxS /\ 2 * i.base + 1 \in 0..MaxS /\ i.offset \in Nat
      BY <1>1 DEF RegistersExist
    <2>2. MemPtr(c, 2 * i.base) \in Nat
      BY <2>1, MemPtrType
    <2>3. ScalarAddr(c, i) \in Nat
      <3>1. MemPtr(c, 2 * i.base) + 4 * i.offset \in Int
        BY <2>1, <2>2
      <3> QED
        BY <3>1, WrapFacts, WordSize DEF ScalarAddr
    <2> QED
      BY <1>1, <2>3, OpSets DEF Addresses
  <1>2. CASE i.op \in VLSOps
    <2>1. /\ i.offset \in Nat
          /\ {i.base, i.base + 1} \subseteq IF i.scalar THEN 0..MaxS ELSE 0..MaxV
      BY <1>2 DEF RegistersExist
    <2>2. SrcPair(c, i, l)[1] \in Word /\ SrcPair(c, i, l)[2] \in Word
      BY <2>1 DEF SrcPair, BlockContext
    <2>3. U64(SrcPair(c, i, l)) \subseteq Nat
      <3>1. \A x, y \in Word : BitOr(x, y) \in Word
        <4>1. \A x, y \in Word : One!BitOr(x, y) \in One!Word
          BY One!BitOperators, Assumed DEF One!Word, Word
        <4> QED
          BY <4>1 DEF One!Word, Word, One!BitOr, One!FromBits, One!BitOf, BitOr, FromBits, BitOf
      <3> QED
        BY <2>2, <3>1, WordSize DEF U64
    <2>4. calculateAddr(c, i, l) \subseteq Nat
      BY <2>1, <2>3 DEF calculateAddr
    <2> QED
      BY <1>2, <2>4, OpSets DEF Addresses
  <1>3. CASE i.op \in BufferOps
    <2>1. BufferAddr(c, i, l) \in Nat
      <3> DEFINE desc == ReadBufferResource(c, 4 * i.rsrc)
                 p == desc.stride * (IdxVgpr(c, i, l) + l)
      <3>1. /\ desc.base \in Nat /\ desc.stride \in Nat /\ c.s[i.soffset] \in Nat /\ i.offset \in Nat
            /\ OffVgpr(c, i, l) \in Nat /\ IdxVgpr(c, i, l) \in Nat /\ l \in Nat
        BY <1>3, BufferParts
      <3>2. p \in Nat
        BY <3>1
      <3> HIDE DEF p
      <3>3. desc.base + c.s[i.soffset] + i.offset + OffVgpr(c, i, l) + p \in Int
        BY <3>1, <3>2
      <3> QED
        BY <3>3, WrapFacts, WordSize DEF BufferAddr, p
    <2> QED
      BY <1>3, <2>1, OpSets DEF Addresses
  <1> QED
    BY <1>1, <1>2, <1>3, OpSets
-----------------------------------------------------------------------------
(* What a step of block b does: nothing to the other blocks, and either    *)
(* another access of the same lane follows or the lane is done.            *)
Kept(c) ==
    /\ pc'[c] = pc[c] /\ ran'[c] = ran[c] /\ work'[c] = work[c]
    /\ v'[c] = v[c] /\ s'[c] = s[c] /\ shared'[c] = shared[c]

Stays(b) ==
    /\ pc' = pc /\ ran' = ran /\ v' = v /\ mem' = mem /\ shared' = shared
    /\ Inst(b).op \notin SLSOps => s' = s

Written(b) ==
    LET x == v[b][Inst(b).data][NextLane(b)]
    IN  IF Inst(b).op = "V_BUFFER_ATOMIC_ADD" THEN Wrap(x + work[b].held[0]) ELSE x

Finishes(b) ==
    LET i == Inst(b)
        l == NextLane(b)
    IN  /\ LaneDone(b, l)
        /\ \A r \in 0..MaxV : \A m \in Lanes : m # l => v'[b][r][m] = v[b][r][m]
        /\ i.op \in StoreOps \cup BufferStores \cup WriteOps \cup NoLDS \cup SLSOps => v' = v
        /\ i.op \notin SLSOps => s' = s
        /\ i.op \notin WriteOps => shared' = shared
        /\ i.op \in WriteOps =>
              shared' = [shared EXCEPT ![b] =
                            Put(shared[b], v[b][i.base][l], WriteLDS(i.op), v[b][i.data][l])]
        /\ i.op \notin Writers => mem' = mem
        /\ i.op \in Writers =>
              work[b] # Idle /\ mem' = Put(mem, work[b].at, WriterBytes(i.op), Written(b))

StepFacts(b) ==
    /\ program' = program /\ ~Ended(b)
    /\ \A c \in Blocks : c # b => Kept(c)
    /\ Stays(b) \/ Finishes(b)
    /\ ControlInv' /\ MemoryInv'

LEMMA StayControl ==
    ASSUME ControlInv, NEW b \in Blocks, ~Ended(b), program' = program, pc' = pc, ran' = ran,
           NEW w \in Works, work' = [work EXCEPT ![b] = w],
           Inst(b).op \in GlobalOps, w.lane = NextLane(b), w.k \in 0..Accesses(Inst(b).op)-1
    PROVE  ControlInv' /\ \A c \in Blocks : c # b => work'[c] = work[c]
  <1>1. /\ work' \in [Blocks -> Works] /\ work'[b] = w
        /\ \A c \in Blocks : c # b => work'[c] = work[c]
    BY DEF ControlInv
  <1>2. \A c \in Blocks : c # b => BlockControl(c)'
    BY <1>1, ControlStays DEF ControlInv
  <1>3. /\ Ended(b)' <=> Ended(b)
        /\ Takers(b)' = Takers(b) /\ Inst(b)' = Inst(b)
    BY DEF Ended, Takers, Inst
  <1>4. NextLane(b)' = NextLane(b)
    BY <1>3 DEF NextLane
  <1>5. BlockControl(b)'
    BY <1>1, <1>3, <1>4 DEF BlockControl, ControlInv
  <1> QED
    BY <1>1, <1>2, <1>5 DEF ControlInv

LEMMA LaneControl ==
    ASSUME ControlInv, NEW b \in Blocks, ~Ended(b), program' = program, LaneDone(b, NextLane(b))
    PROVE  /\ ControlInv'
           /\ \A c \in Blocks : c # b => pc'[c] = pc[c] /\ ran'[c] = ran[c] /\ work'[c] = work[c]
  <1>1. /\ pc' \in [Blocks -> Nat] /\ ran' \in [Blocks -> SUBSET Lanes]
        /\ work' \in [Blocks -> Works]
        /\ \A c \in Blocks : c # b => pc'[c] = pc[c] /\ ran'[c] = ran[c] /\ work'[c] = work[c]
        /\ BlockControl(b)'
    BY LaneStep
  <1>2. \A c \in Blocks : c # b => BlockControl(c)'
    BY <1>1, ControlStays DEF ControlInv
  <1> QED
    BY <1>1, <1>2 DEF ControlInv

(* One register of one lane is set.                                        *)
VType == [Blocks -> [0..MaxV -> [Lanes -> Word]]]

SetAt(f, b, r, l, x) == [f EXCEPT ![b][r][l] = x]

LEMMA SetRegister ==
    ASSUME NEW f \in VType, NEW b \in Blocks, NEW r \in 0..MaxV, NEW l \in Lanes, NEW x \in Word
    PROVE  LET g == SetAt(f, b, r, l, x)
           IN  /\ g \in VType /\ \A c \in Blocks : c # b => g[c] = f[c]
               /\ \A q \in 0..MaxV : \A m \in Lanes :
                     g[b][q][m] = IF q = r /\ m = l THEN x ELSE f[b][q][m]
  <1> DEFINE fr == [f[b][r] EXCEPT ![l] = x]
             fb == [f[b] EXCEPT ![r] = fr]
             g == [f EXCEPT ![b] = fb]
  <1>0. f[b] \in [0..MaxV -> [Lanes -> Word]] /\ f[b][r] \in [Lanes -> Word]
    BY DEF VType
  <1>1. fr \in [Lanes -> Word] /\ \A m \in Lanes : fr[m] = IF m = l THEN x ELSE f[b][r][m]
    BY <1>0
  <1>2. fb \in [0..MaxV -> [Lanes -> Word]]
         /\ \A q \in 0..MaxV : fb[q] = IF q = r THEN fr ELSE f[b][q]
    BY <1>0, <1>1
  <1>3. g \in VType /\ g[b] = fb /\ \A c \in Blocks : c # b => g[c] = f[c]
    BY <1>2 DEF VType
  <1>4. SetAt(f, b, r, l, x) = g
    BY DEF SetAt
  <1> QED
    BY <1>1, <1>2, <1>3, <1>4

(* The lane at work.                                                       *)
LEMMA WorkFacts ==
    ASSUME ControlInv, MemoryInv, NEW b \in Blocks, ~Ended(b), work[b] # Idle
    PROVE  /\ Inst(b).op \in GlobalOps /\ work[b].lane = NextLane(b) /\ NextLane(b) \in Lanes
           /\ work[b].k \in 0..Accesses(Inst(b).op)-1 /\ work[b].at \in Nat
           /\ work[b].held \in [0..3 -> Word] /\ work[b] \in Works
           /\ RegistersExist(Inst(b))
           /\ Inst(b).op \notin SLSOps => Inst(b).data \in 0..MaxV
           /\ Inst(b).op \notin SLSOps => v[b][Inst(b).data][NextLane(b)] \in Word
  <1>1. /\ Inst(b).op \in GlobalOps /\ work[b].lane = NextLane(b)
        /\ work[b].k \in 0..Accesses(Inst(b).op)-1 /\ work[b] \in Works
    BY DEF ControlInv, BlockControl
  <1>2. work[b].at \in Nat /\ work[b].held \in [0..3 -> Word]
    BY <1>1 DEF Works
  <1>3. NextLane(b) \in Lanes /\ RegistersExist(Inst(b))
    BY NextFacts
  <1>4. Inst(b).op \notin SLSOps => Inst(b).data \in 0..MaxV
    BY <1>3 DEF RegistersExist
  <1>5. \A r \in 0..MaxV : v[b][r][NextLane(b)] \in Word
    <2>1. v[b] \in [0..MaxV -> [Lanes -> Word]]
      BY DEF MemoryInv
    <2> QED
      BY <1>3, <2>1
  <1> QED
    BY <1>1, <1>2, <1>3, <1>4, <1>5

LEMMA AbortStep ==
    ASSUME ControlInv, MemoryInv, NEW b \in Blocks, ~Ended(b), Abort(b)
    PROVE  StepFacts(b)
  <1>1. UNCHANGED <<program, pc, ran, work, v, s, mem, shared>> /\ aborted' = TRUE
    BY DEF Abort
  <1>2. \A c : BlockControl(c) => BlockControl(c)'
    BY <1>1, ControlStays
  <1>3. ControlInv'
    BY <1>1, <1>2 DEF ControlInv
  <1>4. MemoryInv'
    BY <1>1 DEF MemoryInv
  <1>5. Stays(b) /\ \A c : Kept(c)
    BY <1>1 DEF Stays, Kept
  <1> QED
    BY <1>1, <1>3, <1>4, <1>5 DEF StepFacts

LEMMA BeginStep ==
    ASSUME ControlInv, MemoryInv, NEW b \in Blocks, ~Ended(b), Begin(b)
    PROVE  StepFacts(b)
  <1> DEFINE i == Inst(b)
             l == NextLane(b)
  <1>1. i.op \in GlobalOps /\ work[b] = Idle
    BY DEF Begin
  <1>2. PICK addr \in Addresses(Context(b), i, l) :
             IF Refused(Context(b), i, l, addr) THEN Abort(b)
             ELSE /\ work' = [work EXCEPT ![b] = Access(addr, 0, Empty, l)]
                  /\ UNCHANGED <<program, pc, ran, v, s, mem, shared, last, aborted>>
    BY DEF Begin
  <1>3. CASE Abort(b)
    BY <1>3, AbortStep
  <1>4. CASE /\ work' = [work EXCEPT ![b] = Access(addr, 0, Empty, l)]
             /\ UNCHANGED <<program, pc, ran, v, s, mem, shared, last, aborted>>
    <2>1. l \in Lanes /\ l \in Nat /\ RegistersExist(i)
      BY NextFacts
    <2>2. addr \in Nat
      BY <1>1, <2>1, AddressType, ContextType
    <2>3. Access(addr, 0, Empty, l) \in Works
      BY <2>1, <2>2, WordSize DEF Access, Empty, Works
    <2>4. Access(addr, 0, Empty, l).lane = l /\ Access(addr, 0, Empty, l).k = 0
      BY DEF Access
    <2>5. 0 \in 0..Accesses(i.op)-1
      BY OpSizes DEF Accesses
    <2>6. ControlInv' /\ \A c \in Blocks : c # b => work'[c] = work[c]
      <3> DEFINE w == Access(addr, 0, Empty, l)
      <3>1. w \in Works /\ work' = [work EXCEPT ![b] = w] /\ w.lane = NextLane(b)
             /\ w.k \in 0..Accesses(Inst(b).op)-1
        BY <1>4, <2>3, <2>4, <2>5
      <3> HIDE DEF w
      <3> QED
        BY <1>1, <1>4, <3>1, StayControl
    <2>7. MemoryInv'
      BY <1>4 DEF MemoryInv
    <2>8. Stays(b) /\ \A c \in Blocks : c # b => Kept(c)
      BY <1>4, <2>6 DEF Stays, Kept
    <2> QED
      BY <1>4, <2>6, <2>7, <2>8 DEF StepFacts
  <1> QED
    BY <1>2, <1>3, <1>4

(* The words of a load are in the memory.                                  *)
LEMMA ReadWordType ==
    ASSUME ControlInv, MemoryInv, NEW b \in Blocks, ~Ended(b), work[b] # Idle, NEW j \in Nat
    PROVE  ReadWord(b, j) \in Word
  <1>1. work[b].at \in Nat /\ Bytes(mem)
    BY WorkFacts DEF MemoryInv
  <1>2. work[b].at + 4 * j \in Int
    BY <1>1
  <1>3. WordAddr(b, j) \in Int
    <2>1. Wrap(work[b].at + 4 * j) \in Int
      BY <1>2, WrapFacts, WordSize
    <2> QED
      BY <1>2, <2>1 DEF WordAddr
  <1> QED
    BY <1>1, <1>3, GetType DEF ReadWord

LEMMA ScalarLoadStep ==
    ASSUME ControlInv, MemoryInv, NEW b \in Blocks, ~Ended(b), ScalarLoad(b)
    PROVE  /\ StepFacts(b)
           /\ Inst(b).data + work[b].k \in 0..MaxS
           /\ ReadWord(b, work[b].k) \in Word
  <1> DEFINE i == Inst(b)
             w == work[b]
             n == SLSWords(i.op)
  <1>1. /\ w # Idle /\ i.op \in SLSOps
        /\ s' = [s EXCEPT ![b][i.data + w.k] = ReadWord(b, w.k)]
        /\ IF w.k + 1 = n
           THEN LaneDone(b, w.lane) /\ Record(b, IF n = 1 THEN 8 ELSE 4 * n)
           ELSE /\ work' = [work EXCEPT ![b] = Access(w.at, w.k + 1, w.held, w.lane)]
                /\ UNCHANGED <<pc, ran, last>>
        /\ UNCHANGED <<program, v, mem, shared, aborted>>
    BY DEF ScalarLoad, Working, WordIndex
  <1>2. /\ w.lane = NextLane(b) /\ w.k \in 0..n-1 /\ w \in Works /\ n \in {1, 2, 4, 8, 16}
        /\ RegistersExist(i) /\ NextLane(b) \in Lanes
    BY <1>1, WorkFacts, OpSizes DEF Accesses
  <1>3. i.data + w.k \in 0..MaxS
    <2>1. i.data \in Nat /\ i.data + n - 1 \in 0..MaxS
      BY <1>1, <1>2 DEF RegistersExist
    <2> QED
      BY <1>2, <2>1, MemoryAssumption
  <1>4. ReadWord(b, w.k) \in Word
    <2>1. w.k \in Nat
      BY <1>2
    <2> QED
      BY <1>1, <2>1, ReadWordType
  <1>5. s' \in [Blocks -> [0..MaxS -> Word]] /\ \A c \in Blocks : c # b => s'[c] = s[c]
    BY <1>1, <1>3, <1>4 DEF MemoryInv
  <1>6. MemoryInv'
    BY <1>1, <1>5 DEF MemoryInv
  <1>7. CASE w.k + 1 = n
    <2>1. LaneDone(b, NextLane(b))
      BY <1>1, <1>2, <1>7
    <2>2. /\ ControlInv'
          /\ \A c \in Blocks : c # b => pc'[c] = pc[c] /\ ran'[c] = ran[c] /\ work'[c] = work[c]
      BY <1>1, <2>1, LaneControl
    <2>3. Finishes(b)
      BY <1>1, <2>1, OpSets DEF Finishes, Lanewise
    <2>4. \A c \in Blocks : c # b => Kept(c)
      BY <1>1, <1>5, <2>2 DEF Kept
    <2> QED
      BY <1>1, <1>3, <1>4, <1>6, <2>2, <2>3, <2>4 DEF StepFacts
  <1>8. CASE w.k + 1 # n
    <2> DEFINE u == Access(w.at, w.k + 1, w.held, w.lane)
    <2>1. work' = [work EXCEPT ![b] = u] /\ UNCHANGED <<pc, ran, last>>
      BY <1>1, <1>8
    <2>2. u \in Works
      BY <1>2 DEF Access, Works
    <2>3. u.lane = NextLane(b) /\ u.k = w.k + 1
      BY <1>2 DEF Access
    <2>4. u.k \in 0..Accesses(Inst(b).op)-1
      BY <1>1, <1>2, <1>8, <2>3 DEF Accesses
    <2> HIDE DEF u
    <2>5. ControlInv' /\ \A c \in Blocks : c # b => work'[c] = work[c]
      BY <1>1, <2>1, <2>2, <2>3, <2>4, StayControl, OpSets
    <2>6. Stays(b) /\ \A c \in Blocks : c # b => Kept(c)
      BY <1>1, <1>5, <2>1, <2>5 DEF Stays, Kept
    <2> QED
      BY <1>1, <1>3, <1>4, <1>6, <2>5, <2>6 DEF StepFacts
  <1> QED
    BY <1>7, <1>8

LEMMA FinishStep ==
    ASSUME ControlInv, MemoryInv, NEW b \in Blocks, ~Ended(b), program' = program, Finishes(b),
           Inst(b).op \notin SLSOps, v' \in VType, \A c \in Blocks : c # b => v'[c] = v[c],
           aborted' \in BOOLEAN
    PROVE  StepFacts(b)
  <1> DEFINE i == Inst(b)
             l == NextLane(b)
  <1>1. LaneDone(b, l) /\ s' = s
    BY DEF Finishes
  <1>2. /\ ControlInv'
        /\ \A c \in Blocks : c # b => pc'[c] = pc[c] /\ ran'[c] = ran[c] /\ work'[c] = work[c]
    BY <1>1, LaneControl
  <1>3. l \in Lanes /\ RegistersExist(i)
    BY NextFacts
  <1>4. \A r \in 0..MaxV : v[b][r][l] \in Word
    <2>1. v[b] \in [0..MaxV -> [Lanes -> Word]]
      BY DEF MemoryInv
    <2> QED
      BY <1>3, <2>1
  <1>5. i.data \in 0..MaxV
    BY <1>3 DEF RegistersExist
  <1>6. /\ DOMAIN shared' = Blocks /\ shared' = [c \in Blocks |-> shared'[c]]
        /\ \A c \in Blocks : Bytes(shared'[c])
        /\ \A c \in Blocks : c # b => shared'[c] = shared[c]
    <2>1. CASE i.op \in WriteOps
      <3> DEFINE m == Put(shared[b], v[b][i.base][l], WriteLDS(i.op), v[b][i.data][l])
      <3>1. shared' = [shared EXCEPT ![b] = m]
        BY <2>1 DEF Finishes
      <3>2. i.base \in 0..MaxV
        BY <1>3, <2>1, OpSets DEF RegistersExist, Lanewise
      <3>3. Bytes(m)
        <4>1. v[b][i.base][l] \in Int /\ v[b][i.data][l] \in Int
          BY <1>4, <1>5, <3>2, WordSize
        <4>2. WriteLDS(i.op) \in 0..6
          BY <2>1, OpSizes
        <4>3. Bytes(shared[b])
          BY DEF MemoryInv
        <4> QED
          BY <4>1, <4>2, <4>3, PutBytes
      <3> HIDE DEF m
      <3> QED
        BY <3>1, <3>3 DEF MemoryInv
    <2>2. CASE i.op \notin WriteOps
      BY <2>2 DEF Finishes, MemoryInv
    <2> QED
      BY <2>1, <2>2
  <1>7. Bytes(mem')
    <2>1. CASE i.op \in Writers
      <3>1. work[b] # Idle /\ mem' = Put(mem, work[b].at, WriterBytes(i.op), Written(b))
        BY <2>1 DEF Finishes
      <3>2. work[b].at \in Nat /\ work[b].held[0] \in Word
        BY <3>1, WorkFacts
      <3>3. Written(b) \in Int
        <4> DEFINE x == v[b][i.data][l]
        <4>1. x \in Int /\ work[b].held[0] \in Int
          BY <1>4, <1>5, <3>2, WordSize
        <4>2. Wrap(x + work[b].held[0]) \in Int
          BY <4>1, WrapFacts, WordSize
        <4> QED
          BY <4>1, <4>2 DEF Written
      <3>4. WriterBytes(i.op) \in 0..6
        BY <2>1, OpSizes
      <3>5. Bytes(mem) /\ work[b].at \in Int
        BY <3>2 DEF MemoryInv
      <3> QED
        BY <3>1, <3>3, <3>4, <3>5, PutBytes
    <2>2. CASE i.op \notin Writers
      BY <2>2 DEF Finishes, MemoryInv
    <2> QED
      BY <2>1, <2>2
  <1>8. MemoryInv'
    BY <1>1, <1>6, <1>7 DEF MemoryInv, VType
  <1>9. \A c \in Blocks : c # b => Kept(c)
    BY <1>1, <1>2, <1>6 DEF Kept
  <1> QED
    BY <1>2, <1>8, <1>9 DEF StepFacts

(* An instruction that sets one register of the lane and no memory.        *)
LEMMA OneRegisterStep ==
    ASSUME ControlInv, MemoryInv, NEW b \in Blocks, ~Ended(b), LaneDone(b, NextLane(b)),
           NEW x \in Word, v' = [v EXCEPT ![b][Inst(b).data][NextLane(b)] = x],
           Inst(b).op \in LoadOps \cup BufferLoads \cup ReadOps,
           UNCHANGED <<program, s, mem, shared, aborted>>
    PROVE  StepFacts(b) /\ v'[b][Inst(b).data][NextLane(b)] = x
  <1> DEFINE i == Inst(b)
             l == NextLane(b)
  <1>1. l \in Lanes /\ RegistersExist(i)
    BY NextFacts
  <1>2. i.op \notin SLSOps /\ i.op \notin StoreOps \cup BufferStores \cup WriteOps \cup NoLDS
         /\ i.op \notin Writers
    BY OpSets DEF Lanewise, Writers
  <1>3. i.data \in 0..MaxV
    BY <1>1, <1>2 DEF RegistersExist
  <1>4. /\ v' \in VType /\ \A c \in Blocks : c # b => v'[c] = v[c]
        /\ \A q \in 0..MaxV : \A m \in Lanes :
              v'[b][q][m] = IF q = i.data /\ m = l THEN x ELSE v[b][q][m]
    <2>1. v \in VType
      BY DEF MemoryInv, VType
    <2> QED
      <3>1. v' = SetAt(v, b, i.data, l, x)
        BY DEF SetAt
      <3> HIDE DEF i, l
      <3> QED
        BY ONLY <1>1, <1>3, <2>1, <3>1, SetRegister, x \in Word, b \in Blocks
  <1>5. Finishes(b)
    BY <1>2, <1>4 DEF Finishes
  <1>6. aborted' \in BOOLEAN
    BY DEF MemoryInv
  <1> QED
    BY ZenonT(30), <1>1, <1>2, <1>3, <1>4, <1>5, <1>6, FinishStep

LEMMA VectorLoadStep ==
    ASSUME ControlInv, MemoryInv, NEW b \in Blocks, ~Ended(b), VectorLoad(b)
    PROVE  /\ StepFacts(b) /\ LaneDone(b, NextLane(b))
           /\ v'[b][Inst(b).data][NextLane(b)] = Get(mem, work[b].at, LoadBytes(Inst(b).op))
  <1> DEFINE i == Inst(b)
             x == Get(mem, work[b].at, LoadBytes(i.op))
  <1>1. /\ work[b] # Idle /\ i.op \in LoadOps
        /\ v' = [v EXCEPT ![b][i.data][work[b].lane] = x]
        /\ LaneDone(b, work[b].lane)
        /\ UNCHANGED <<program, s, mem, shared, aborted>>
    BY DEF VectorLoad, Working
  <1>2. work[b].lane = NextLane(b) /\ work[b].at \in Int
    BY <1>1, WorkFacts
  <1>3. x \in Word
    BY <1>1, <1>2, GetType, OpSizes DEF MemoryInv
  <1> HIDE DEF x
  <1>4. /\ LaneDone(b, NextLane(b)) /\ v' = [v EXCEPT ![b][Inst(b).data][NextLane(b)] = x]
        /\ Inst(b).op \in LoadOps \cup BufferLoads \cup ReadOps
    BY <1>1, <1>2
  <1>5. StepFacts(b) /\ v'[b][Inst(b).data][NextLane(b)] = x
    BY <1>1, <1>3, <1>4, OneRegisterStep
  <1> QED
    BY <1>4, <1>5 DEF x

LEMMA BufferLoadStep ==
    ASSUME ControlInv, MemoryInv, NEW b \in Blocks, ~Ended(b), BufferLoad(b)
    PROVE  /\ StepFacts(b) /\ LaneDone(b, NextLane(b))
           /\ v'[b][Inst(b).data][NextLane(b)]
                = Extend(Get(mem, work[b].at, BufferBytes(Inst(b).op)), 1)
  <1> DEFINE i == Inst(b)
             y == Get(mem, work[b].at, BufferBytes(i.op))
             x == Extend(y, 1)
  <1>1. /\ work[b] # Idle /\ i.op \in BufferLoads
        /\ v' = [v EXCEPT ![b][i.data][work[b].lane] = x]
        /\ LaneDone(b, work[b].lane)
        /\ UNCHANGED <<program, s, mem, shared, aborted>>
    BY DEF BufferLoad, Working
  <1>2. work[b].lane = NextLane(b) /\ work[b].at \in Int
    BY <1>1, WorkFacts
  <1>3. x \in Word
    <2>1. y \in Int
      BY <1>1, <1>2, GetType, OpSizes, WordSize DEF MemoryInv
    <2> HIDE DEF y
    <2> QED
      BY <2>1, ExtendType
  <1> HIDE DEF x
  <1>4. /\ LaneDone(b, NextLane(b)) /\ v' = [v EXCEPT ![b][Inst(b).data][NextLane(b)] = x]
        /\ Inst(b).op \in LoadOps \cup BufferLoads \cup ReadOps
    BY <1>1, <1>2
  <1>5. StepFacts(b) /\ v'[b][Inst(b).data][NextLane(b)] = x
    BY <1>1, <1>3, <1>4, OneRegisterStep
  <1> QED
    BY <1>4, <1>5 DEF x

LEMMA StoreStep ==
    ASSUME ControlInv, MemoryInv, NEW b \in Blocks, ~Ended(b), VectorStore(b) \/ BufferStore(b)
    PROVE  StepFacts(b) /\ LaneDone(b, NextLane(b))
  <1> DEFINE i == Inst(b)
  <1>1. /\ work[b] # Idle /\ i.op \in StoreOps \cup BufferStores
        /\ mem' = Put(mem, work[b].at, WriterBytes(i.op), v[b][i.data][work[b].lane])
        /\ LaneDone(b, work[b].lane)
        /\ UNCHANGED <<program, v, s, shared, aborted>>
    <2>1. CASE VectorStore(b)
      BY <2>1 DEF VectorStore, Working, WriterBytes
    <2>2. CASE BufferStore(b)
      BY <2>2, OpSets DEF BufferStore, Working, WriterBytes
    <2> QED
      BY <2>1, <2>2
  <1>2. work[b].lane = NextLane(b)
    BY <1>1, WorkFacts
  <1>3. i.op \notin SLSOps /\ i.op \notin WriteOps /\ i.op \in Writers
         /\ i.op # "V_BUFFER_ATOMIC_ADD"
    BY <1>1, OpSets DEF Lanewise, Writers
  <1>4. Finishes(b)
    BY <1>1, <1>2, <1>3 DEF Finishes, Written
  <1>5. v' \in VType /\ aborted' \in BOOLEAN /\ \A c \in Blocks : v'[c] = v[c]
    BY <1>1 DEF MemoryInv, VType
  <1> QED
    BY <1>1, <1>2, <1>3, <1>4, <1>5, FinishStep

LEMMA AtomicReadStep ==
    ASSUME ControlInv, MemoryInv, NEW b \in Blocks, ~Ended(b), AtomicRead(b)
    PROVE  /\ StepFacts(b) /\ Stays(b) /\ work[b] # Idle /\ work[b].k = 0
           /\ work'[b].held[0] = Get(mem, work[b].at, 4) /\ work'[b].at = work[b].at
           /\ work'[b].k = 1 /\ work'[b].lane = work[b].lane
  <1> DEFINE x == Get(mem, work[b].at, 4)
             h == [Empty EXCEPT ![0] = x]
             w == Access(work[b].at, 1, h, work[b].lane)
  <1>1. /\ work[b] # Idle /\ Inst(b).op = "V_BUFFER_ATOMIC_ADD" /\ work[b].k = 0
        /\ work' = [work EXCEPT ![b] = w]
        /\ UNCHANGED <<program, pc, ran, v, s, mem, shared, last, aborted>>
    BY DEF AtomicRead, Working
  <1>2. work[b].lane = NextLane(b) /\ work[b].at \in Nat /\ NextLane(b) \in Lanes
         /\ Inst(b).op \in GlobalOps /\ NextLane(b) \in Int
    BY <1>1, WorkFacts, NextFacts
  <1>3. x \in Word
    <2>1. work[b].at \in Int /\ Bytes(mem)
      BY <1>2 DEF MemoryInv
    <2> QED
      BY <2>1, GetType
  <1> HIDE DEF x
  <1>4. h \in [0..3 -> Word] /\ h[0] = x
    BY <1>3, WordSize DEF Empty
  <1> HIDE DEF h
  <1>5. w \in Works /\ w.lane = NextLane(b) /\ w.k = 1 /\ w.held = h /\ w.at = work[b].at
    BY <1>2, <1>4 DEF Access, Works
  <1>6. w.k \in 0..Accesses(Inst(b).op)-1
    <2>1. Accesses(Inst(b).op) = 2
      BY <1>1, OpSets DEF Accesses
    <2> QED
      BY <1>5, <2>1
  <1> HIDE DEF w
  <1>7. ControlInv' /\ \A c \in Blocks : c # b => work'[c] = work[c]
    BY <1>1, <1>2, <1>5, <1>6, StayControl
  <1>8. MemoryInv'
    BY <1>1 DEF MemoryInv
  <1>9. Stays(b) /\ \A c \in Blocks : c # b => Kept(c)
    BY <1>1, <1>7 DEF Stays, Kept
  <1>10. work'[b] = w
    BY <1>1 DEF ControlInv
  <1> QED
    BY <1>1, <1>2, <1>4, <1>5, <1>7, <1>8, <1>9, <1>10 DEF StepFacts, x

LEMMA AtomicWriteStep ==
    ASSUME ControlInv, MemoryInv, NEW b \in Blocks, ~Ended(b), AtomicWrite(b)
    PROVE  /\ StepFacts(b) /\ Finishes(b) /\ work[b] # Idle /\ work[b].k = 1
           /\ "glc" \in Inst(b).bits =>
                 v'[b][Inst(b).data][NextLane(b)] = work[b].held[0]
  <1> DEFINE i == Inst(b)
             l == NextLane(b)
             prev == work[b].held[0]
             g == SetAt(v, b, i.data, l, prev)
  <1>1. work[b] # Idle /\ i.op = "V_BUFFER_ATOMIC_ADD"
    BY DEF AtomicWrite, Working
  <1>2. work[b].lane = l /\ l \in Lanes /\ prev \in Word
    BY <1>1, WorkFacts
  <1>3. i.op \notin SLSOps /\ i.op \notin WriteOps /\ i.op \in Writers /\ i.op \notin StoreOps
         /\ i.op \notin BufferStores /\ i.op \notin NoLDS
    BY <1>1, OpSets DEF Lanewise, Writers
  <1>4. /\ work[b].k = 1
        /\ mem' = Put(mem, work[b].at, 4, Wrap(v[b][i.data][l] + prev))
        /\ v' = (IF "glc" \in i.bits THEN g ELSE v)
        /\ LaneDone(b, l)
        /\ UNCHANGED <<program, s, shared, aborted>>
    BY <1>2 DEF AtomicWrite, Returned, SetAt
  <1>5. i.data \in 0..MaxV
    BY <1>1, <1>3, WorkFacts
  <1>6. v \in VType
    BY DEF MemoryInv, VType
  <1>7. /\ g \in VType /\ \A c \in Blocks : c # b => g[c] = v[c]
        /\ \A q \in 0..MaxV : \A m \in Lanes : g[b][q][m] = IF q = i.data /\ m = l THEN prev ELSE v[b][q][m]
    <2> HIDE DEF i, l, prev
    <2> QED
      BY <1>2, <1>5, <1>6, SetRegister
  <1> HIDE DEF g
  <1>8. WriterBytes(i.op) = 4
    BY <1>1, <1>3 DEF WriterBytes, BufferBytes
  <1>9. Finishes(b)
    BY <1>1, <1>3, <1>4, <1>7, <1>8 DEF Finishes, Written
  <1>10. v' \in VType /\ aborted' \in BOOLEAN /\ \A c \in Blocks : c # b => v'[c] = v[c]
    BY <1>4, <1>6, <1>7 DEF MemoryInv
  <1>11. StepFacts(b)
    BY <1>3, <1>4, <1>9, <1>10, FinishStep
  <1> QED
    BY <1>1, <1>2, <1>4, <1>5, <1>7, <1>9, <1>11

LEMMA VectorLoadXStep ==
    ASSUME ControlInv, MemoryInv, NEW b \in Blocks, ~Ended(b), VectorLoadX(b)
    PROVE  LET i == Inst(b)
               w == work[b]
               n == LoadWords(i.op)
               x == ReadWord(b, w.k)
           IN  /\ StepFacts(b) /\ i.op \in LoadXOps /\ w # Idle /\ w.k \in 0..n-1
               /\ w.k + 1 # n =>
                     /\ Stays(b) /\ work'[b].at = w.at /\ work'[b].k = w.k + 1
                     /\ work'[b].lane = w.lane
                     /\ \A j \in 0..3 : work'[b].held[j] = IF j = w.k THEN x ELSE w.held[j]
               /\ w.k + 1 = n =>
                     /\ LaneDone(b, NextLane(b))
                     /\ \A j \in 0..n-1 : v'[b][i.data + j][NextLane(b)]
                                            = IF j = w.k THEN x ELSE w.held[j]
  <1> DEFINE i == Inst(b)
             w == work[b]
             l == NextLane(b)
             n == LoadWords(i.op)
             x == ReadWord(b, w.k)
             h == [w.held EXCEPT ![w.k] = x]
             g == [r \in 0..MaxV |-> IF r \in i.data..i.data+n-1
                                     THEN [v[b][r] EXCEPT ![l] = h[r - i.data]] ELSE v[b][r]]
  <1>1. w # Idle /\ i.op \in LoadXOps
    BY DEF VectorLoadX, Working
  <1>2. i.op \notin SLSOps /\ i.op \notin WriteOps /\ i.op \notin Writers /\ i.op \notin StoreOps
         /\ i.op \notin BufferStores /\ i.op \notin NoLDS /\ i.op \in GlobalOps
    BY <1>1, OpSets DEF Lanewise, Writers
  <1>3. w.lane = l /\ l \in Lanes /\ w \in Works /\ w.at \in Nat /\ w.held \in [0..3 -> Word]
         /\ l \in Int
    BY <1>1, WorkFacts, NextFacts
  <1>4. Accesses(i.op) = n /\ n \in {2, 4} /\ w.k \in 0..n-1
    BY <1>1, <1>2, WorkFacts, OpSizes DEF Accesses
  <1>5. x \in Word
    <2>1. w.k \in Nat
      BY <1>4
    <2> QED
      BY <1>1, <2>1, ReadWordType
  <1>6. /\ IF w.k + 1 = n
           THEN v' = [v EXCEPT ![b] = g] /\ LaneDone(b, l)
           ELSE work' = [work EXCEPT ![b] = Access(w.at, w.k + 1, h, l)] /\ UNCHANGED <<pc, ran, v>>
        /\ UNCHANGED <<program, s, mem, shared, aborted>>
    BY <1>3 DEF VectorLoadX, WordIndex
  <1> HIDE DEF x
  <1>7. h \in [0..3 -> Word] /\ \A j \in 0..3 : h[j] = IF j = w.k THEN x ELSE w.held[j]
    BY <1>3, <1>4, <1>5
  <1> HIDE DEF h
  <1>8. CASE w.k + 1 # n
    <2> DEFINE u == Access(w.at, w.k + 1, h, l)
    <2>1. u \in Works /\ u.lane = l /\ u.k = w.k + 1 /\ u.held = h /\ u.at = w.at
      BY <1>3, <1>4, <1>7 DEF Access, Works
    <2>2. work' = [work EXCEPT ![b] = u] /\ UNCHANGED <<pc, ran, v>>
      BY <1>6, <1>8
    <2>3. u.k \in 0..Accesses(Inst(b).op)-1
      BY <1>4, <1>8, <2>1
    <2> HIDE DEF u
    <2>4. ControlInv' /\ \A c \in Blocks : c # b => work'[c] = work[c]
      BY <1>2, <1>6, <2>1, <2>2, <2>3, StayControl
    <2>5. MemoryInv'
      BY <1>6, <2>2 DEF MemoryInv
    <2>6. Stays(b) /\ \A c \in Blocks : c # b => Kept(c)
      BY <1>6, <2>2, <2>4 DEF Stays, Kept
    <2>7. work'[b] = u
      BY <2>2 DEF ControlInv
    <2> QED
      BY <1>1, <1>3, <1>4, <1>6, <1>7, <1>8, <2>1, <2>4, <2>5, <2>6, <2>7 DEF StepFacts, x
  <1>9. CASE w.k + 1 = n
    <2>1. v' = [v EXCEPT ![b] = g] /\ LaneDone(b, l)
      BY <1>6, <1>9
    <2>2. v \in VType /\ v[b] \in [0..MaxV -> [Lanes -> Word]]
      BY DEF MemoryInv, VType
    <2>3. i.data \in Nat /\ i.data + n - 1 \in 0..MaxV
      <3>1. RegistersExist(i)
        BY <1>1, WorkFacts
      <3> QED
        BY <1>1, <1>2, <3>1 DEF RegistersExist
    <2>4. ASSUME NEW r \in 0..MaxV
          PROVE  /\ g[r] \in [Lanes -> Word]
                 /\ \A m \in Lanes : m # l => g[r][m] = v[b][r][m]
                 /\ r \in i.data..i.data+n-1 => g[r][l] = h[r - i.data]
      <3>1. v[b][r] \in [Lanes -> Word]
        BY <2>2
      <3>2. CASE r \in i.data..i.data+n-1
        <4>1. r - i.data \in 0..3
          BY <1>4, <2>3, <3>2
        <4>2. h[r - i.data] \in Word
          BY <1>7, <4>1
        <4>3. g[r] = [v[b][r] EXCEPT ![l] = h[r - i.data]]
          BY <3>2
        <4> HIDE DEF g
        <4> QED
          BY <1>3, <3>1, <4>2, <4>3
      <3>3. CASE r \notin i.data..i.data+n-1
        BY <3>1, <3>3
      <3> QED
        BY <3>2, <3>3
    <2>5. g \in [0..MaxV -> [Lanes -> Word]]
      <3>1. g = [r \in 0..MaxV |-> g[r]]
        OBVIOUS
      <3> HIDE DEF g
      <3> QED
        BY <2>4, <3>1
    <2> HIDE DEF g
    <2>6. v' \in VType /\ v'[b] = g /\ \A c \in Blocks : c # b => v'[c] = v[c]
      BY <2>1, <2>2, <2>5 DEF VType
    <2>7. Finishes(b)
      BY <1>2, <1>6, <2>1, <2>4, <2>6 DEF Finishes
    <2>8. aborted' \in BOOLEAN
      BY <1>6 DEF MemoryInv
    <2>9. StepFacts(b)
      BY <1>2, <1>6, <2>6, <2>7, <2>8, FinishStep
    <2>10. ASSUME NEW j \in 0..n-1
           PROVE  v'[b][i.data + j][l] = IF j = w.k THEN x ELSE w.held[j]
      <3>1. i.data + j \in 0..MaxV /\ i.data + j \in i.data..i.data+n-1 /\ (i.data + j) - i.data = j
             /\ j \in 0..3
        BY <1>4, <2>3, MemoryAssumption
      <3> QED
        BY <1>7, <2>4, <2>6, <3>1
    <2> QED
      BY <1>1, <1>4, <1>9, <2>1, <2>9, <2>10 DEF x
  <1> QED
    BY <1>8, <1>9

LEMMA ExecuteDLSStep ==
    ASSUME ControlInv, MemoryInv, NEW b \in Blocks, ~Ended(b), ExecuteDLS(b)
    PROVE  LET i == Inst(b)
               l == NextLane(b)
               x == Get(shared[b], v[b][i.base][l], ReadLDS(i.op))
           IN  /\ StepFacts(b)
               /\ i.op \in ReadOps =>
                     \/ Abort(b)
                     \/ /\ LaneDone(b, l)
                        /\ v'[b][i.data][l] = IF i.op \in {"D_READ_I8", "D_READ_I16"}
                                              THEN Extend(x, ReadLDS(i.op)) ELSE x
  <1> DEFINE i == Inst(b)
             l == NextLane(b)
             a == v[b][i.base][l]
             x == Get(shared[b], a, ReadLDS(i.op))
             y == IF i.op \in {"D_READ_I8", "D_READ_I16"} THEN Extend(x, ReadLDS(i.op)) ELSE x
  <1>1. i.op \in Lanewise
    BY DEF ExecuteDLS, Lanewise
  <1>2. l \in Lanes /\ RegistersExist(i)
    BY NextFacts
  <1>3. i.op \notin GlobalOps /\ i.op \notin SLSOps /\ i.op \notin Writers
         /\ i.op \notin StoreOps /\ i.op \notin BufferStores
    BY <1>1, OpSets DEF Writers
  <1>4. i.base \in 0..MaxV /\ i.data \in 0..MaxV
    BY <1>2, <1>3 DEF RegistersExist
  <1>5. a \in Word /\ v \in VType
    <2>1. v[b] \in [0..MaxV -> [Lanes -> Word]] /\ v \in VType
      BY DEF MemoryInv, VType
    <2>2. v[b][i.base] \in [Lanes -> Word]
      BY <1>4, <2>1
    <2> QED
      BY <1>2, <2>1, <2>2
  <1>6. CASE RefusedLDS(i)
    <2>1. Abort(b)
      BY <1>6 DEF ExecuteDLS
    <2> QED
      BY <2>1, AbortStep
  <1>7. CASE ~RefusedLDS(i)
    <2>1. /\ shared' = IF i.op \in WriteOps
                       THEN [shared EXCEPT ![b] = Put(@, a, WriteLDS(i.op), v[b][i.data][l])]
                       ELSE shared
          /\ v' = IF i.op \in ReadOps THEN SetAt(v, b, i.data, l, y) ELSE v
          /\ LaneDone(b, l)
          /\ UNCHANGED <<program, s, mem, last, aborted>>
      BY <1>7 DEF ExecuteDLS, SetAt
    <2>2. CASE i.op \in ReadOps
      <3>1. y \in Word
        <4>1. ReadLDS(i.op) \in {1, 2, 4}
          BY <2>2, OpSizes
        <4>2. x \in Word
          <5>1. a \in Int /\ Bytes(shared[b])
            BY <1>5, WordSize DEF MemoryInv
          <5> HIDE DEF a
          <5> QED
            BY <4>1, <5>1, GetType
        <4> HIDE DEF x
        <4>3. Extend(x, ReadLDS(i.op)) \in Word
          BY <4>1, <4>2, WordSize, ExtendType
        <4> QED
          BY <4>2, <4>3
      <3> DEFINE z == y
      <3> HIDE DEF z
      <3>2. z \in Word /\ v' = SetAt(v, b, i.data, l, z)
        BY <2>1, <2>2, <3>1 DEF z
      <3>3. LaneDone(b, NextLane(b)) /\ v' = [v EXCEPT ![b][Inst(b).data][NextLane(b)] = z]
             /\ Inst(b).op \in LoadOps \cup BufferLoads \cup ReadOps
        BY <2>1, <2>2, <3>2 DEF SetAt
      <3>4. UNCHANGED <<program, s, mem, shared, aborted>>
        BY <2>1, <2>2, OpSets
      <3>5. StepFacts(b) /\ v'[b][Inst(b).data][NextLane(b)] = z
        BY <3>2, <3>3, <3>4, OneRegisterStep
      <3> QED
        BY <2>1, <3>5 DEF z
    <2>3. CASE i.op \notin ReadOps
      <3>1. v' = v
        BY <2>1, <2>3
      <3>2. Finishes(b)
        BY <1>3, <2>1, <3>1 DEF Finishes
      <3>3. v' \in VType /\ aborted' \in BOOLEAN
        BY <1>5, <2>1, <3>1 DEF MemoryInv
      <3>4. StepFacts(b)
        BY <1>3, <2>1, <3>1, <3>2, <3>3, FinishStep
      <3> QED
        BY <2>3, <3>4
    <2> QED
      BY <2>2, <2>3
  <1> QED
    BY <1>6, <1>7

(* An instruction that sets two registers of the lane.                     *)
LEMMA TwoRegistersStep ==
    ASSUME ControlInv, MemoryInv, NEW b \in Blocks, ~Ended(b), LaneDone(b, NextLane(b)),
           NEW x \in Word, NEW y \in Word,
           v' = SetAt(SetAt(v, b, Inst(b).data, NextLane(b), x),
                      b, Inst(b).data + 1, NextLane(b), y),
           Inst(b).op \in Pairwise, UNCHANGED <<program, s, mem, shared>>, aborted' \in BOOLEAN
    PROVE  /\ StepFacts(b)
           /\ v'[b][Inst(b).data][NextLane(b)] = x /\ v'[b][Inst(b).data + 1][NextLane(b)] = y
  <1> DEFINE i == Inst(b)
             l == NextLane(b)
             f == SetAt(v, b, i.data, l, x)
  <1>1. l \in Lanes /\ RegistersExist(i)
    BY NextFacts
  <1>2. i.op \notin SLSOps /\ i.op \notin StoreOps \cup BufferStores \cup WriteOps \cup NoLDS
         /\ i.op \notin Writers
    BY OpSets DEF Lanewise, Writers
  <1>3. i.data \in 0..MaxV /\ i.data + 1 \in 0..MaxV /\ i.data + 1 # i.data
    BY <1>1, <1>2 DEF RegistersExist, Pairwise
  <1>4. /\ f \in VType /\ \A c \in Blocks : c # b => f[c] = v[c]
        /\ \A q \in 0..MaxV : \A m \in Lanes :
              f[b][q][m] = IF q = i.data /\ m = l THEN x ELSE v[b][q][m]
    <2>1. v \in VType
      BY DEF MemoryInv, VType
    <2> HIDE DEF i, l
    <2> QED
      BY ONLY <1>1, <1>3, <2>1, SetRegister, x \in Word, b \in Blocks DEF f
  <1>5. v' = SetAt(f, b, i.data + 1, l, y)
    OBVIOUS
  <1> HIDE DEF f
  <1>6. /\ v' \in VType /\ \A c \in Blocks : c # b => v'[c] = f[c]
        /\ \A q \in 0..MaxV : \A m \in Lanes :
              v'[b][q][m] = IF q = i.data + 1 /\ m = l THEN y ELSE f[b][q][m]
    <2> HIDE DEF i, l
    <2> QED
      BY ONLY <1>1, <1>3, <1>4, <1>5, SetRegister, y \in Word, b \in Blocks
  <1>7. Finishes(b)
    BY <1>2, <1>4, <1>6 DEF Finishes
  <1>8. StepFacts(b)
    BY <1>2, <1>4, <1>6, <1>7, FinishStep
  <1> QED
    BY <1>1, <1>3, <1>4, <1>6, <1>8

LEMMA Read2Step ==
    ASSUME ControlInv, MemoryInv, NEW b \in Blocks, ~Ended(b), D_READ2_B32(b)
    PROVE  StepFacts(b)
  <1> DEFINE i == Inst(b)
             l == NextLane(b)
             Read(off) == Get(shared[b], Wrap(v[b][i.base][l] + 4 * off), 4)
             x == Read(i.offset)
             y == Read(i.offset1)
  <1>1. i.op = "D_READ2_B32"
    BY DEF D_READ2_B32
  <1>2. l \in Lanes /\ RegistersExist(i)
    BY NextFacts
  <1>3. i.op \notin GlobalOps /\ i.op \in Pairwise
    BY <1>1, OpSets DEF Pairwise
  <1>4. i.base \in 0..MaxV /\ i.offset \in Nat /\ i.offset1 \in Nat
    BY <1>2, <1>3 DEF RegistersExist
  <1>5. \A off \in Nat : Read(off) \in Word
    <2>1. v[b] \in [0..MaxV -> [Lanes -> Word]]
      BY DEF MemoryInv
    <2>2. v[b][i.base] \in [Lanes -> Word]
      BY <1>4, <2>1
    <2>3. v[b][i.base][l] \in Int
      BY <1>2, <2>2, WordSize
    <2>4. \A off \in Nat : v[b][i.base][l] + 4 * off \in Int
      BY <2>3
    <2>5. \A off \in Nat : Wrap(v[b][i.base][l] + 4 * off) \in Int
      BY <2>4, WrapFacts, WordSize
    <2>6. Bytes(shared[b])
      BY DEF MemoryInv
    <2> QED
      BY <2>5, <2>6, GetType
  <1>6. x \in Word /\ y \in Word
    BY <1>4, <1>5
  <1>7. CASE "gds" \in i.bits
    <2>1. Abort(b)
      BY <1>7 DEF D_READ2_B32
    <2> QED
      BY <2>1, AbortStep
  <1>8. CASE "gds" \notin i.bits
    <2>1. /\ v' = SetAt(SetAt(v, b, i.data, l, x), b, i.data + 1, l, y)
          /\ LaneDone(b, l)
          /\ aborted' = ~(i.offset = 0 /\ i.offset1 = 1)
          /\ UNCHANGED <<program, s, mem, shared, last>>
      BY <1>8 DEF D_READ2_B32, SetAt
    <2>2. aborted' \in BOOLEAN
      BY <2>1
    <2> HIDE DEF x, y
    <2> QED
      BY <1>3, <1>6, <2>1, <2>2, TwoRegistersStep
  <1> QED
    BY <1>7, <1>8

LEMMA FlatStep ==
    ASSUME ControlInv, MemoryInv, NEW b \in Blocks, ~Ended(b), V_CVTA_SHARED_TO_FLAT(b)
    PROVE  LET i == Inst(b)
               l == NextLane(b)
           IN  /\ StepFacts(b)
               /\ \/ Abort(b)
                  \/ /\ LaneDone(b, l) /\ v[b][i.base][l] \in SharedAddr
                     /\ v'[b][i.data][l] + 2^W * v'[b][i.data + 1][l]
                           = shared_to_generic(0, v[b][i.base][l])
  <1> DEFINE i == Inst(b)
             l == NextLane(b)
             a == v[b][i.base][l]
             flat == shared_to_generic(0, a)
             x == Wrap(flat)
             y == flat \div 2^W
  <1>1. i.op = "V_CVTA_SHARED_TO_FLAT"
    BY DEF V_CVTA_SHARED_TO_FLAT
  <1>2. l \in Lanes /\ RegistersExist(i)
    BY NextFacts
  <1>3. i.op \notin GlobalOps /\ i.op \in Pairwise
    BY <1>1, OpSets DEF Pairwise
  <1>4. i.base \in 0..MaxV
    BY <1>2, <1>3 DEF RegistersExist
  <1>5. a \in Nat
    <2>1. v[b] \in [0..MaxV -> [Lanes -> Word]]
      BY DEF MemoryInv
    <2>2. v[b][i.base] \in [Lanes -> Word]
      BY <1>4, <2>1
    <2> QED
      BY <1>2, <2>2, WordSize
  <1>6. CASE a >= SHARED_MEM_SIZE_MAX
    <2>1. Abort(b)
      BY <1>6 DEF V_CVTA_SHARED_TO_FLAT
    <2> QED
      BY <2>1, AbortStep
  <1>7. CASE ~(a >= SHARED_MEM_SIZE_MAX)
    <2>1. /\ v' = SetAt(SetAt(v, b, i.data, l, x), b, i.data + 1, l, y)
          /\ LaneDone(b, l)
          /\ UNCHANGED <<program, s, mem, shared, last, aborted>>
      BY <1>7 DEF V_CVTA_SHARED_TO_FLAT, SetAt
    <2>2. a \in SharedAddr
      BY <1>5, <1>7, LayoutAssumption DEF SharedAddr
    <2>3. flat \in Nat /\ flat <= TopAddr
      <3>1. 0 \in SM
        BY LayoutAssumption, MemoryAssumption DEF SM
      <3>2. SharedWindow(0) \in Nat /\ SharedWindow(0 + 1) = SharedWindow(0) + SHARED_MEM_SIZE_MAX
             /\ SharedWindow(0 + 1) <= GLOBAL_HEAP_START /\ SharedWindow(0 + 1) \in Nat
        BY <3>1, SharedWindows
      <3>3. flat = SharedWindow(0) + a
        BY DEF shared_to_generic
      <3>4. GLOBAL_HEAP_START \in Nat /\ GLOBAL_HEAP_START <= TopAddr /\ TopAddr \in Int
             /\ SHARED_MEM_SIZE_MAX \in Nat
        <4>1. 2^W * 2^W \in Int
          BY WordSize
        <4> QED
          BY <4>1, LayoutAssumption, MemoryAssumption DEF TopAddr
      <3> HIDE DEF flat, a
      <3> QED
        BY <1>5, <1>7, <3>2, <3>3, <3>4
    <2> HIDE DEF flat, a
    <2>4. 2^W \in Nat \ {0} /\ flat \in Int
      BY <2>3, WordSize
    <2>5. flat < 2^W * 2^W /\ 0 * 2^W <= flat
      <3>1. 2^W * 2^W \in Int
        BY <2>4
      <3>2. 0 * 2^W = 0
        BY <2>4
      <3> QED
        BY <2>3, <3>1, <3>2 DEF TopAddr
    <2>6. y \in Word /\ x \in Word
      <3>1. flat \div 2^W \in 0..2^W-1
        <4> DEFINE m == 2^W
        <4>1. m \in Nat \ {0} /\ 0 * m <= flat /\ flat < m * m /\ m \in Int /\ 0 \in Int
          BY <2>4, <2>5
        <4> HIDE DEF m
        <4>2. flat \div m \in 0..m-1
          BY <2>4, <4>1, One!DivRange, Assumed
        <4> QED
          BY <4>2 DEF m
      <3> QED
        BY <2>4, <3>1, WrapFacts DEF Word
    <2>7. x + 2^W * y = flat
      <3> DEFINE m == 2^W
                 q == flat \div m
                 r == flat % m
      <3>1. r \in Int /\ q \in Int /\ flat = q * m + r /\ m \in Nat
        <4>1. r \in 0..m-1 /\ q \in Int /\ flat = q * m + r
          BY <2>4, DivMod
        <4> QED
          BY <2>4, <4>1
      <3>2. x = r /\ y = q
        BY DEF Wrap
      <3> HIDE DEF m, q, r
      <3>3. r + m * q = flat
        BY <3>1
      <3> QED
        BY <3>2, <3>3 DEF m
    <2> HIDE DEF x, y
    <2>8. aborted' \in BOOLEAN
      BY <2>1 DEF MemoryInv
    <2>9. StepFacts(b) /\ v'[b][i.data][l] = x /\ v'[b][i.data + 1][l] = y
      BY <1>3, <2>1, <2>6, <2>8, TwoRegistersStep
    <2> QED
      BY <2>1, <2>2, <2>7, <2>9 DEF flat, a
  <1> QED
    BY <1>6, <1>7

LEMMA AnyStep ==
    ASSUME ControlInv, MemoryInv, NEW b \in Blocks, Execute(b)
    PROVE  StepFacts(b)
  <1>1. ~Ended(b)
    BY DEF Execute
  <1> QED
    BY <1>1, BeginStep, ScalarLoadStep, VectorLoadStep, VectorLoadXStep, StoreStep, BufferLoadStep,
       AtomicReadStep, AtomicWriteStep, ExecuteDLSStep, Read2Step, FlatStep DEF Execute

(* The action of an instruction.                                           *)
LEMMA Dispatch ==
    ASSUME NEW b \in Blocks, Execute(b)
    PROVE  LET op == Inst(b).op
           IN  /\ op \in SLSOps => Begin(b) \/ ScalarLoad(b)
               /\ op \in LoadOps => Begin(b) \/ VectorLoad(b)
               /\ op \in LoadXOps => Begin(b) \/ VectorLoadX(b)
               /\ op \in StoreOps => Begin(b) \/ VectorStore(b)
               /\ op \in BufferLoads => Begin(b) \/ BufferLoad(b)
               /\ op \in BufferStores => Begin(b) \/ BufferStore(b)
               /\ op = "V_BUFFER_ATOMIC_ADD" => Begin(b) \/ AtomicRead(b) \/ AtomicWrite(b)
               /\ op \in Lanewise => ExecuteDLS(b)
               /\ op = "V_CVTA_SHARED_TO_FLAT" => V_CVTA_SHARED_TO_FLAT(b)
  <1> DEFINE op == Inst(b).op
  <1>1. \/ Begin(b) /\ op \in GlobalOps
        \/ ScalarLoad(b) /\ op \in SLSOps
        \/ VectorLoad(b) /\ op \in LoadOps
        \/ VectorLoadX(b) /\ op \in LoadXOps
        \/ VectorStore(b) /\ op \in StoreOps
        \/ BufferLoad(b) /\ op \in BufferLoads
        \/ BufferStore(b) /\ op \in BufferStores
        \/ (AtomicRead(b) \/ AtomicWrite(b)) /\ op = "V_BUFFER_ATOMIC_ADD"
        \/ ExecuteDLS(b) /\ op \in Lanewise
        \/ D_READ2_B32(b) /\ op = "D_READ2_B32"
        \/ V_CVTA_SHARED_TO_FLAT(b) /\ op = "V_CVTA_SHARED_TO_FLAT"
    <2>1. Begin(b) => op \in GlobalOps
      BY DEF Begin
    <2>2. ScalarLoad(b) => op \in SLSOps
      BY DEF ScalarLoad, Working
    <2>3. VectorLoad(b) => op \in LoadOps
      BY DEF VectorLoad, Working
    <2>4. VectorLoadX(b) => op \in LoadXOps
      BY DEF VectorLoadX, Working
    <2>5. VectorStore(b) => op \in StoreOps
      BY DEF VectorStore, Working
    <2>6. BufferLoad(b) => op \in BufferLoads
      BY DEF BufferLoad, Working
    <2>7. BufferStore(b) => op \in BufferStores
      BY DEF BufferStore, Working
    <2>8. AtomicRead(b) \/ AtomicWrite(b) => op = "V_BUFFER_ATOMIC_ADD"
      BY DEF AtomicRead, AtomicWrite, Working
    <2>9. ExecuteDLS(b) => op \in Lanewise
      BY DEF ExecuteDLS, Lanewise
    <2>10. D_READ2_B32(b) => op = "D_READ2_B32"
      BY DEF D_READ2_B32
    <2>11. V_CVTA_SHARED_TO_FLAT(b) => op = "V_CVTA_SHARED_TO_FLAT"
      BY DEF V_CVTA_SHARED_TO_FLAT
    <2> QED
      BY <2>1, <2>2, <2>3, <2>4, <2>5, <2>6, <2>7, <2>8, <2>9, <2>10, <2>11 DEF Execute
  <1> HIDE DEF op
  <1>2. \A o : o = "D_READ2_B32" \/ o = "V_CVTA_SHARED_TO_FLAT" => o \in Pairwise
    BY DEF Pairwise
  <1> QED
    BY <1>1, <1>2, OpSets DEF op

LEMMA InitShape ==
    ASSUME Init
    PROVE  ControlInv /\ MemoryInv
  <1>1. program \in Programs
    BY DEF Init
  <1>2. ControlInv
    <2>1. Idle \in Works
      BY WordSize DEF Idle, Access, Empty, Works
    <2>2. pc \in [Blocks -> Nat] /\ ran \in [Blocks -> SUBSET Lanes] /\ work \in [Blocks -> Works]
      BY <2>1 DEF Init
    <2>3. ASSUME NEW b \in Blocks PROVE BlockControl(b)
      <3>1. pc[b] = 1 /\ ran[b] = {} /\ work[b] = Idle
        BY DEF Init
      <3>2. Len(program.code[b]) \in Nat /\ Takers(b) # {}
        <4>1. Takers(b) = Taking(b, pc[b])
          BY DEF Takers, Taking, Inst, At
        <4> QED
          BY <1>1, <4>1, ProgramFacts
      <3> QED
        BY <3>1, <3>2 DEF BlockControl
    <2> QED
      BY <1>1, <2>2, <2>3 DEF ControlInv
  <1>3. MemoryInv
    <2>1. ASSUME NEW b \in Blocks PROVE Bytes(InitShared(program.cta[b]))
      <3> DEFINE cta == program.cta[b]
      <3>1. cta.x \in Int /\ cta.y \in Int /\ cta.z \in Int
        BY <1>1, ProgramFacts
      <3> DEFINE x == IF "x" \in IndexBits THEN 0 ELSE -1
                 y == IF "y" \in IndexBits THEN x + 1 ELSE -1
                 z == IF "y" \in IndexBits THEN y + 1 ELSE -1
                 place == IF x = -1 THEN TopAddr ELSE x
                 Stored(m, at, value) == IF at >= 0 THEN Put(m, place, 4, value) ELSE m
      <3>2. place \in Int
        <4>1. TopAddr \in Int
          BY WordSize DEF TopAddr
        <4> QED
          BY <4>1
      <3>3. \A m, at : \A value \in Int : Bytes(m) => Bytes(Stored(m, at, value))
        <4> SUFFICES ASSUME NEW m, Bytes(m), NEW value \in Int PROVE Bytes(Put(m, place, 4, value))
          OBVIOUS
        <4>1. 4 \in 0..6
          OBVIOUS
        <4> HIDE DEF place
        <4> QED
          BY <3>2, <4>1, PutBytes
      <3>4. InitShared(cta) = Stored(Stored(Stored([a \in {} |-> 0], x, cta.x), y, cta.y), z, cta.z)
        BY DEF InitShared
      <3>5. Bytes([a \in {} |-> 0])
        BY DEF Bytes
      <3> HIDE DEF Stored, x, y, z
      <3> QED
        BY <3>1, <3>3, <3>4, <3>5
    <2>2. shared = [b \in Blocks |-> InitShared(program.cta[b])]
      BY DEF Init
    <2>3. \A b \in Blocks : Bytes(shared[b])
      BY <2>1, <2>2
    <2>4. v = program.v /\ s = program.s /\ mem = program.mem /\ aborted = FALSE
      BY DEF Init
    <2>5. /\ v \in [Blocks -> [0..MaxV -> [Lanes -> Word]]] /\ s \in [Blocks -> [0..MaxS -> Word]]
          /\ Bytes(mem)
      BY <1>1, <2>4, ProgramAssumption DEF Bytes
    <2> QED
      BY <2>2, <2>3, <2>4, <2>5 DEF MemoryInv
  <1> QED
    BY <1>2, <1>3

(* What the blocks have executed grows, by the step of one lane.           *)
LEMMA StepEffects ==
    ASSUME ControlInv, NEW b \in Blocks, StepFacts(b)
    PROVE  /\ \A c \in Blocks : \A k \in Nat : \A m : Executed(c, k, m) => Executed(c, k, m)'
           /\ \A c \in Blocks : c # b => \A k, m : Executed(c, k, m)' <=> Executed(c, k, m)
           /\ \A k \in 1..Len(program.code[b]) : \A m \in Taking(b, k) :
                 Executed(b, k, m)' => Executed(b, k, m) \/ (k = pc[b] /\ m = NextLane(b))
           /\ \A r \in 0..MaxV : \A m \in Lanes : m # NextLane(b) => v'[b][r][m] = v[b][r][m]
           /\ Stays(b) => \A k, m : Executed(b, k, m)' <=> Executed(b, k, m)
           /\ LaneDone(b, NextLane(b)) =>
                 \A k, m : k = pc[b] /\ m = NextLane(b) => Executed(b, k, m)'
           /\ Finishes(b) => LaneDone(b, NextLane(b))
           /\ ~Executed(b, pc[b], NextLane(b))
           /\ pc'[b] >= pc[b] /\ pc[b] \in 1..Len(program.code[b]) /\ pc'[b] \in Nat
  <1>1. /\ program' = program /\ ~Ended(b) /\ (Stays(b) \/ Finishes(b))
        /\ \A c \in Blocks : c # b => Kept(c)
    BY DEF StepFacts
  <1>2. /\ pc[b] \in 1..Len(program.code[b]) /\ Takers(b) = Taking(b, pc[b])
        /\ NextLane(b) \in Takers(b) /\ NextLane(b) \notin ran[b] /\ pc \in [Blocks -> Nat]
    BY <1>1, NextFacts DEF ControlInv
  <1>3. ~Executed(b, pc[b], NextLane(b))
    BY <1>2 DEF Executed
  <1>4. \A c \in Blocks : c # b => \A k, m : Executed(c, k, m)' <=> Executed(c, k, m)
    BY <1>1 DEF Kept, Executed
  <1>5. Stays(b) => \A k, m : Executed(b, k, m)' <=> Executed(b, k, m)
    BY DEF Stays, Executed
  <1>6. ASSUME LaneDone(b, NextLane(b))
        PROVE  /\ \A k \in Nat : \A m : Executed(b, k, m) => Executed(b, k, m)'
               /\ \A k \in 1..Len(program.code[b]) : \A m \in Taking(b, k) :
                     Executed(b, k, m)' => Executed(b, k, m) \/ (k = pc[b] /\ m = NextLane(b))
               /\ \A k, m : k = pc[b] /\ m = NextLane(b) => Executed(b, k, m)'
               /\ pc'[b] >= pc[b] /\ pc'[b] \in Nat
    <2>1. /\ pc' \in [Blocks -> Nat] /\ pc'[b] >= pc[b] /\ (pc'[b] = pc[b] => ran[b] \subseteq ran'[b])
          /\ \A k \in 1..Len(program.code[b]) : \A m \in Taking(b, k) :
                Executed(b, k, m)' <=> Executed(b, k, m) \/ (k = pc[b] /\ m = NextLane(b))
      BY <1>1, <1>6, LaneStep
    <2>2. ASSUME NEW k \in Nat, NEW m, Executed(b, k, m) PROVE Executed(b, k, m)'
      <3>1. pc[b] \in Nat /\ pc'[b] \in Nat
        BY <1>2, <2>1
      <3> QED
        BY <2>1, <2>2, <3>1 DEF Executed
    <2> QED
      BY <1>2, <2>1, <2>2
  <1>7. Finishes(b) => LaneDone(b, NextLane(b))
    BY DEF Finishes
  <1>8. \A r \in 0..MaxV : \A m \in Lanes : m # NextLane(b) => v'[b][r][m] = v[b][r][m]
    BY <1>1 DEF Stays, Finishes
  <1>9. Stays(b) => pc'[b] = pc[b]
    BY DEF Stays
  <1>10. pc'[b] >= pc[b] /\ pc'[b] \in Nat
    BY <1>1, <1>2, <1>6, <1>7, <1>9
  <1>11. \A k \in Nat : \A m : Executed(b, k, m) => Executed(b, k, m)'
    BY <1>1, <1>5, <1>6, <1>7
  <1> QED
    BY <1>1, <1>2, <1>3, <1>4, <1>5, <1>6, <1>7, <1>8, <1>10, <1>11
-----------------------------------------------------------------------------
(* Registers that have not been written.  A block is quiet when only its   *)
(* last instruction writes registers.                                      *)
Quiet(b) ==
    \A k \in 1..Len(program.code[b]) :
        k < Len(program.code[b]) => At(b, k).op \in WriteOps \cup StoreOps \cup BufferStores

RegistersInv(b) ==
    Quiet(b) =>
        /\ \A r \in 0..MaxV : \A l \in Lanes :
              ~Executed(b, Len(program.code[b]), l) => v[b][r][l] = Reg(b, r, l)
        /\ pc[b] < Len(program.code[b]) \/ At(b, Len(program.code[b])).op \notin SLSOps
              => s[b] = program.s[b]

LEMMA RegistersStep ==
    ASSUME ControlInv, MemoryInv, NEW b \in Blocks, StepFacts(b),
           \A c \in Blocks : RegistersInv(c)
    PROVE  \A c \in Blocks : RegistersInv(c)'
  <1>1. program' = program /\ (Stays(b) \/ Finishes(b)) /\ ~Ended(b)
        /\ \A c \in Blocks : c # b => Kept(c)
    BY DEF StepFacts
  <1>2. \A c : Quiet(c)' <=> Quiet(c)
    BY <1>1 DEF Quiet, At
  <1>3. \A c, k, r, l : Reg(c, r, l)' = Reg(c, r, l) /\ At(c, k)' = At(c, k)
    BY <1>1 DEF Reg, At
  <1>4. ASSUME NEW c \in Blocks, c # b PROVE RegistersInv(c)'
    <2>1. \A k, m : Executed(c, k, m)' <=> Executed(c, k, m)
      BY <1>4, StepEffects
    <2> QED
      BY <1>1, <1>2, <1>3, <1>4, <2>1 DEF RegistersInv, Kept
  <1>5. RegistersInv(b)'
    <2> SUFFICES ASSUME Quiet(b)
                 PROVE  /\ \A r \in 0..MaxV : \A l \in Lanes : \A k :
                              k = Len(program.code[b]) =>
                                 (~Executed(b, k, l)' => v'[b][r][l] = Reg(b, r, l))
                        /\ pc'[b] < Len(program.code[b])
                              \/ At(b, Len(program.code[b])).op \notin SLSOps
                              => s'[b] = program.s[b]
      BY <1>1, <1>2, <1>3 DEF RegistersInv
    <2> DEFINE n == Len(program.code[b])
    <2>1. /\ pc[b] \in 1..n /\ n \in Nat /\ Inst(b) = At(b, pc[b])
      BY <1>1, NextFacts
    <2>2. /\ \A k \in Nat : \A m : Executed(b, k, m) => Executed(b, k, m)'
          /\ \A r \in 0..MaxV : \A m \in Lanes : m # NextLane(b) => v'[b][r][m] = v[b][r][m]
          /\ Stays(b) => \A k, m : Executed(b, k, m)' <=> Executed(b, k, m)
          /\ Finishes(b) => \A k, m : k = pc[b] /\ m = NextLane(b) => Executed(b, k, m)'
          /\ pc'[b] >= pc[b] /\ pc'[b] \in Nat
      BY <2>1, StepEffects
    <2>3. pc[b] < n => Inst(b).op \in WriteOps \cup StoreOps \cup BufferStores
      BY <2>1 DEF Quiet
    <2>4. ASSUME NEW r \in 0..MaxV, NEW l \in Lanes, NEW k, k = n, ~Executed(b, k, l)'
          PROVE  v'[b][r][l] = Reg(b, r, l)
      <3>1. v[b][r][l] = Reg(b, r, l)
        BY <2>2, <2>4 DEF RegistersInv
      <3>2. CASE l # NextLane(b)
        BY <2>2, <3>1, <3>2
      <3>3. CASE l = NextLane(b) /\ pc[b] = n
        <4>1. Stays(b)
          BY <1>1, <2>2, <2>4, <3>3
        <4> QED
          BY <3>1, <4>1 DEF Stays
      <3>4. CASE pc[b] < n
        <4>1. v' = v
          BY <1>1, <2>3, <3>4 DEF Stays, Finishes
        <4> QED
          BY <3>1, <4>1
      <3> QED
        BY <2>1, <3>2, <3>3, <3>4
    <2>5. ASSUME pc'[b] < n \/ At(b, n).op \notin SLSOps
          PROVE  s'[b] = program.s[b]
      <3>1. Inst(b).op \notin SLSOps /\ (pc[b] < n \/ At(b, n).op \notin SLSOps)
        <4>1. CASE pc[b] < n
          BY <2>3, <4>1, OpSets DEF Lanewise
        <4>2. CASE pc[b] = n
          BY <2>1, <2>2, <2>5, <4>2
        <4> QED
          BY <2>1, <4>1, <4>2
      <3>2. s' = s
        BY <1>1, <3>1 DEF Stays, Finishes
      <3> QED
        BY <3>1, <3>2 DEF RegistersInv
    <2> QED
      BY <2>4, <2>5
  <1> QED
    BY <1>4, <1>5

(* The lanes that V_CVTA_SHARED_TO_FLAT has executed hold flat addresses.  *)
FlatInv(b) ==
    Len(program.code[b]) = 1 /\ At(b, 1).op = "V_CVTA_SHARED_TO_FLAT" =>
        \A l \in program.active[b] :
            Executed(b, 1, l) =>
                LET i == At(b, 1)
                    a == Reg(b, i.base, l)
                IN  /\ a \in SharedAddr
                    /\ v[b][i.data][l] + 2^W * v[b][i.data + 1][l] = shared_to_generic(0, a)

LEMMA FlatInvStep ==
    ASSUME ControlInv, MemoryInv, NEW b \in Blocks, Execute(b), StepFacts(b),
           RegistersInv(b), \A c \in Blocks : FlatInv(c)
    PROVE  \A c \in Blocks : FlatInv(c)'
  <1>1. program' = program /\ ~Ended(b) /\ \A c \in Blocks : c # b => Kept(c)
    BY DEF StepFacts
  <1>2. \A c, k, r, l : Reg(c, r, l)' = Reg(c, r, l) /\ At(c, k)' = At(c, k)
    BY <1>1 DEF Reg, At
  <1>3. ASSUME NEW c \in Blocks, c # b PROVE FlatInv(c)'
    <2>1. \A k, m : Executed(c, k, m)' <=> Executed(c, k, m)
      BY <1>3, StepEffects
    <2> QED
      BY <1>1, <1>2, <1>3, <2>1 DEF FlatInv, Kept
  <1>4. FlatInv(b)'
    <2> DEFINE i == At(b, 1)
    <2> SUFFICES ASSUME Len(program.code[b]) = 1, i.op = "V_CVTA_SHARED_TO_FLAT",
                        NEW l \in program.active[b], Executed(b, 1, l)'
                 PROVE  /\ Reg(b, i.base, l) \in SharedAddr
                        /\ v'[b][i.data][l] + 2^W * v'[b][i.data + 1][l]
                             = shared_to_generic(0, Reg(b, i.base, l))
      BY <1>1, <1>2 DEF FlatInv
    <2>1. /\ pc[b] = 1 /\ Inst(b) = i /\ RegistersExist(i) /\ NextLane(b) \in Lanes
          /\ Takers(b) = Taking(b, pc[b])
      <3>1. /\ pc[b] \in 1..1 /\ Inst(b) = At(b, pc[b]) /\ RegistersExist(Inst(b))
            /\ NextLane(b) \in Lanes /\ Takers(b) = Taking(b, pc[b])
        BY <1>1, NextFacts
      <3>2. pc[b] = 1
        BY <3>1
      <3> QED
        BY <3>1, <3>2
    <2>2. l \in Lanes /\ l \in Taking(b, 1)
      BY OpSets, ProgramFacts DEF Taking, Pairwise, ControlInv
    <2>3. i.base \in 0..MaxV /\ i.data \in 0..MaxV /\ i.data + 1 \in 0..MaxV
      BY <2>1, OpSets DEF RegistersExist, Pairwise
    <2>4. /\ Executed(b, 1, l) \/ l = NextLane(b)
          /\ \A r \in 0..MaxV : \A m \in Lanes : m # NextLane(b) => v'[b][r][m] = v[b][r][m]
          /\ ~Executed(b, pc[b], NextLane(b))
      BY <2>1, <2>2, StepEffects
    <2>5. V_CVTA_SHARED_TO_FLAT(b)
      BY <2>1, Dispatch
    <2>6. CASE Executed(b, 1, l)
      <3>1. l # NextLane(b)
        BY <2>1, <2>4, <2>6
      <3>2. v'[b][i.data][l] = v[b][i.data][l] /\ v'[b][i.data + 1][l] = v[b][i.data + 1][l]
        BY <2>2, <2>3, <2>4, <3>1
      <3> QED
        BY <2>6, <3>2 DEF FlatInv
    <2>7. CASE ~Executed(b, 1, l)
      <3>1. l = NextLane(b)
        BY <2>4, <2>7
      <3>2. v[b][i.base][l] = Reg(b, i.base, l)
        BY <2>2, <2>3, <2>7 DEF RegistersInv, Quiet
      <3>3. ~Abort(b)
        BY <2>7 DEF Abort, Executed
      <3>4. v[b][i.base][l] \in SharedAddr
             /\ v'[b][i.data][l] + 2^W * v'[b][i.data + 1][l] = shared_to_generic(0, v[b][i.base][l])
        BY <1>1, <2>1, <2>5, <3>1, <3>3, FlatStep
      <3> QED
        BY <3>2, <3>4
    <2> QED
      BY <2>6, <2>7
  <1> QED
    BY <1>3, <1>4
-----------------------------------------------------------------------------
(* A word is known by its bits; a base with an upper word of zero is the   *)
(* lower word.                                                             *)
LEMMA BitsDetermine ==
    ASSUME NEW x \in Word, NEW y \in Word, \A j \in 0..W-1 : BitOf(x, j) = BitOf(y, j)
    PROVE  x = y
  <1>0. W \in Nat /\ x \in Int /\ y \in Int
    BY WordSize
  <1> DEFINE F(n) == x % 2^n = y % 2^n
             S == { n \in Nat : n <= W => F(n) }
  <1>1. 0 \in S
    <2>1. 2^0 = 1
      OBVIOUS
    <2>2. x % 1 = 0 /\ y % 1 = 0
      BY <1>0
    <2> QED
      BY <2>1, <2>2
  <1>2. ASSUME NEW n \in Nat, n \in S PROVE n + 1 \in S
    <2> SUFFICES ASSUME n + 1 <= W PROVE F(n + 1)
      OBVIOUS
    <2>1. n \in 0..W-1 /\ F(n)
      BY <1>0, <1>2
    <2>2. 2^n \in Nat \ {0} /\ 2^(n+1) = 2 * 2^n
      BY <1>0, <2>1, One!Powers, Assumed, PowerAssumption
    <2> DEFINE p == 2^n
    <2>3. /\ x % (2 * p) = (x % p) + ((x \div p) % 2) * p
          /\ y % (2 * p) = (y % p) + ((y \div p) % 2) * p
      <3>1. p \in Nat \ {0} /\ 2 \in Nat \ {0}
        BY <2>2
      <3> HIDE DEF p
      <3> QED
        BY <1>0, <3>1, DigitSplit
    <2>4. (x \div p) % 2 = (y \div p) % 2
      BY <2>1 DEF BitOf
    <2> QED
      BY <2>1, <2>2, <2>3, <2>4
  <1> HIDE DEF S
  <1>3. Nat \subseteq S
    BY <1>1, <1>2, One!SetInduction, Assumed
  <1>4. x % 2^W = y % 2^W
    BY <1>0, <1>3 DEF S
  <1> QED
    BY <1>0, <1>4, WrapFacts DEF Wrap

LEMMA OrZero == \A x \in Word : BitOr(x, 0) = x
  <1> SUFFICES ASSUME NEW x \in Word PROVE BitOr(x, 0) = x
    OBVIOUS
  <1>1. 0 \in Word /\ x \in Int /\ W \in Nat
    BY WordSize
  <1>2. /\ BitOr(x, 0) \in Word
        /\ \A j \in 0..W-1 : BitOf(BitOr(x, 0), j) = BitOf(x, j) + BitOf(0, j) - BitOf(x, j) * BitOf(0, j)
    <2>1. /\ One!BitOr(x, 0) \in One!Word
          /\ \A j \in 0..W-1 : One!BitOf(One!BitOr(x, 0), j)
                = One!BitOf(x, j) + One!BitOf(0, j) - One!BitOf(x, j) * One!BitOf(0, j)
      BY <1>1, One!BitOperators, Assumed DEF One!Word, Word
    <2> QED
      BY <2>1 DEF One!Word, Word, One!BitOr, One!FromBits, One!BitOf, BitOr, FromBits, BitOf
  <1>3. ASSUME NEW j \in 0..W-1 PROVE BitOf(0, j) = 0 /\ BitOf(x, j) \in Int
    <2>1. 2^j \in Nat \ {0}
      BY <1>1, One!Powers, Assumed
    <2>2. 0 \div 2^j = 0 /\ x \div 2^j \in Int
      BY <1>1, <2>1, DivUnique, DivMod
    <2>3. BitOf(0, j) = 0 % 2 /\ BitOf(x, j) = (x \div 2^j) % 2
      BY <2>2 DEF BitOf
    <2>4. \A q \in Int : q % 2 \in Int
      OBVIOUS
    <2> QED
      BY <2>2, <2>3, <2>4
  <1>4. \A j \in 0..W-1 : BitOf(BitOr(x, 0), j) = BitOf(x, j)
    BY <1>2, <1>3
  <1> QED
    BY <1>2, <1>4, BitsDetermine
-----------------------------------------------------------------------------
(* What depends on the program alone does not change.                      *)
LEMMA Rigid ==
    ASSUME program' = program
    PROVE  /\ \A b, k : At(b, k)' = At(b, k)
           /\ \A b, r, l : Reg(b, r, l)' = Reg(b, r, l)
           /\ \A b : Start(b)' = Start(b) /\ (Steady(b)' <=> Steady(b))
           /\ \A b, i, l : Place(b, i, l)' = Place(b, i, l)
           /\ \A b, l, a, n : Spares(b, l, a, n)' <=> Spares(b, l, a, n)
           /\ \A b, k : Taking(b, k)' = Taking(b, k)
  <1>1. \A b, k : At(b, k)' = At(b, k)
    BY DEF At
  <1>2. \A b, r, l : Reg(b, r, l)' = Reg(b, r, l)
    BY DEF Reg
  <1>3. \A b : Start(b)' = Start(b)
    BY DEF Start
  <1>4. \A b, i, l : Element(b, i, l)' = Element(b, i, l)
    BY <1>1, <1>2, <1>3 DEF Element
  <1>5. \A b, i, l : Place(b, i, l)' = Place(b, i, l)
    BY <1>3, <1>4 DEF Place
  <1>6. \A b, i : Described(b, i)' <=> Described(b, i)
    BY <1>1, <1>2, <1>3 DEF Described
  <1>7. \A b : Steady(b)' <=> Steady(b)
    BY <1>1, <1>3, <1>6 DEF Steady
  <1>8. \A b, l, a, n : Spares(b, l, a, n)' <=> Spares(b, l, a, n)
    BY <1>1, <1>5 DEF Spares
  <1>9. \A b, k : Taking(b, k)' = Taking(b, k)
    BY <1>1 DEF Taking
  <1> QED
    BY <1>1, <1>2, <1>3, <1>5, <1>7, <1>8, <1>9

LEMMA StartType ==
    ASSUME program \in Programs, NEW b \in Blocks
    PROVE  /\ Start(b).v \in [0..MaxV -> [Lanes -> Word]] /\ Start(b).s \in [0..MaxS -> Word]
           /\ Start(b).v = program.v[b] /\ Start(b).s = program.s[b]
           /\ \A r \in 0..MaxV, l \in Lanes : Start(b).v[r][l] = Reg(b, r, l)
  BY ProgramFacts DEF Start, Reg

(* In a steady block the registers are those of the start until the last   *)
(* instruction, and in the lane that executes it.                          *)
LEMMA SteadyRegisters ==
    ASSUME ControlInv, MemoryInv, NEW b \in Blocks, ~Ended(b), RegistersInv(b), Steady(b)
    PROVE  /\ \A r \in 0..MaxV : v[b][r][NextLane(b)] = Reg(b, r, NextLane(b))
           /\ pc[b] < Len(program.code[b]) =>
                 \A r \in 0..MaxV : \A l \in Lanes : v[b][r][l] = Reg(b, r, l)
           /\ Inst(b).op \notin SLSOps => s[b] = program.s[b]
           /\ pc[b] < Len(program.code[b]) => Inst(b).op \in WriteOps \cup StoreOps \cup BufferStores
           /\ Quiet(b)
  <1>1. Quiet(b)
    BY DEF Steady, Quiet
  <1>2. /\ pc[b] \in 1..Len(program.code[b]) /\ Len(program.code[b]) \in Nat /\ Inst(b) = At(b, pc[b])
        /\ NextLane(b) \in Lanes /\ NextLane(b) \notin ran[b]
    BY NextFacts
  <1>3. /\ ~Executed(b, Len(program.code[b]), NextLane(b))
        /\ pc[b] < Len(program.code[b]) => \A l : ~Executed(b, Len(program.code[b]), l)
    BY <1>2 DEF Executed
  <1>4. pc[b] < Len(program.code[b]) => Inst(b).op \in WriteOps \cup StoreOps \cup BufferStores
    BY <1>1, <1>2 DEF Quiet
  <1>5. pc[b] < Len(program.code[b]) \/ At(b, Len(program.code[b])).op \notin SLSOps
        \/ Inst(b).op \in SLSOps
    <2>1. CASE pc[b] = Len(program.code[b])
      BY <1>2, <2>1
    <2> QED
      BY <1>2, <2>1
  <1> QED
    BY <1>1, <1>2, <1>3, <1>4, <1>5 DEF RegistersInv

LEMMA StartPointer ==
    ASSUME program \in Programs, NEW b \in Blocks, NEW r, r \in 0..MaxS, r + 1 \in 0..MaxS
    PROVE  MemPtr(Start(b), r) \in Nat
  <1> DEFINE c == [v |-> program.v[b], s |-> program.s[b], shared |-> [a \in {} |-> 0]]
  <1>1. BlockContext(c)
    BY StartType DEF BlockContext, Bytes
  <1>2. c.s = Start(b).s
    BY DEF Start
  <1> HIDE DEF c
  <1>3. MemPtr(c, r) \in Nat
    BY <1>1, MemPtrType
  <1> QED
    BY <1>2, <1>3 DEF MemPtr

(* The descriptor of a steady block is in its shared memory once its       *)
(* stores are executed.                                                    *)
Pointer(b, k) == MemPtr(Start(b), 4 * At(b, k).rsrc)

DescriptorInv(b) ==
    Steady(b) => \A k \in 1..Len(program.code[b]) : At(b, k).op \in BufferOps =>
        LET p == Pointer(b, k)
        IN  \A l, m \in program.active[b] :
              /\ Executed(b, 1, m) =>
                    \A y \in p..p+3 : ByteAt(shared[b], y) = Digit(Reg(b, At(b, 1).data, l), y - p)
              /\ Executed(b, 2, m) =>
                    \A y \in p+4..p+7 :
                        ByteAt(shared[b], y) = Digit(Reg(b, At(b, 2).data, l), y - (p + 4))

LEMMA BufferInst ==
    ASSUME program \in Programs, NEW b \in Blocks, Steady(b),
           NEW k \in 1..Len(program.code[b]), At(b, k).op \in BufferOps
    PROVE  /\ k > 2 /\ Described(b, At(b, k)) /\ Pointer(b, k) \in Nat
           /\ At(b, 1).op = "D_WRITE_B32" /\ At(b, 2).op = "D_WRITE_B32"
           /\ 1 \in 1..Len(program.code[b]) /\ 2 \in 1..Len(program.code[b])
           /\ RegistersExist(At(b, 1)) /\ RegistersExist(At(b, 2))
           /\ At(b, 1).base \in 0..MaxV /\ At(b, 1).data \in 0..MaxV
           /\ At(b, 2).base \in 0..MaxV /\ At(b, 2).data \in 0..MaxV
           /\ \A l, m \in program.active[b] :
                 /\ Reg(b, At(b, 1).base, l) = Pointer(b, k)
                 /\ Reg(b, At(b, 2).base, l) = Pointer(b, k) + 4
                 /\ Reg(b, At(b, 1).data, l) = Reg(b, At(b, 1).data, m)
                 /\ Reg(b, At(b, 2).data, l) = Reg(b, At(b, 2).data, m)
           /\ \A n \in 3..Len(program.code[b]) : At(b, n).op \notin WriteOps
           /\ Taking(b, 1) = program.active[b] /\ Taking(b, 2) = program.active[b]
  <1>1. k > 2 /\ Described(b, At(b, k))
    BY DEF Steady
  <1>2. /\ At(b, 1).op = "D_WRITE_B32" /\ At(b, 2).op = "D_WRITE_B32"
        /\ \A n \in 3..Len(program.code[b]) : At(b, n).op \notin WriteOps
        /\ \A l, m \in program.active[b] :
                 /\ Reg(b, At(b, 1).base, l) = Pointer(b, k)
                 /\ Reg(b, At(b, 2).base, l) = Pointer(b, k) + 4
                 /\ Reg(b, At(b, 1).data, l) = Reg(b, At(b, 1).data, m)
                 /\ Reg(b, At(b, 2).data, l) = Reg(b, At(b, 2).data, m)
    BY <1>1 DEF Described, Pointer
  <1>3. Len(program.code[b]) \in Nat /\ 1 \in 1..Len(program.code[b]) /\ 2 \in 1..Len(program.code[b])
    BY <1>1, ProgramFacts
  <1>4. RegistersExist(At(b, 1)) /\ RegistersExist(At(b, 2)) /\ RegistersExist(At(b, k))
    BY <1>3, ProgramFacts
  <1>5. "D_WRITE_B32" \in WriteOps
    BY DEF WriteOps
  <1>6. "D_WRITE_B32" \notin GlobalOps /\ "D_WRITE_B32" \notin SLSOps
    BY <1>5, OpSets DEF Lanewise
  <1>7. /\ At(b, 1).base \in 0..MaxV /\ At(b, 1).data \in 0..MaxV
        /\ At(b, 2).base \in 0..MaxV /\ At(b, 2).data \in 0..MaxV
    BY <1>2, <1>4, <1>6 DEF RegistersExist
  <1>8. 4 * At(b, k).rsrc \in 0..MaxS /\ 4 * At(b, k).rsrc + 1 \in 0..MaxS
    BY <1>4 DEF RegistersExist
  <1>9. Pointer(b, k) \in Nat
    BY <1>8, StartPointer DEF Pointer
  <1> QED
    BY <1>1, <1>2, <1>3, <1>4, <1>6, <1>7, <1>9 DEF Taking

LEMMA DescriptorStep ==
    ASSUME ControlInv, MemoryInv, NEW b \in Blocks, StepFacts(b), RegistersInv(b),
           \A c \in Blocks : DescriptorInv(c)
    PROVE  \A c \in Blocks : DescriptorInv(c)'
  <1>1. program' = program /\ ~Ended(b) /\ (Stays(b) \/ Finishes(b))
        /\ (\A c \in Blocks : c # b => Kept(c)) /\ program \in Programs
    BY DEF StepFacts, ControlInv
  <1>2. /\ \A c, k, r, l : Reg(c, r, l)' = Reg(c, r, l) /\ At(c, k)' = At(c, k)
        /\ \A c : Steady(c)' <=> Steady(c)
        /\ \A c, k : Pointer(c, k)' = Pointer(c, k)
    BY <1>1, Rigid DEF Pointer
  <1>3. ASSUME NEW c \in Blocks, c # b PROVE DescriptorInv(c)'
    <2>1. \A k, m : Executed(c, k, m)' <=> Executed(c, k, m)
      BY <1>3, StepEffects
    <2>2. shared'[c] = shared[c]
      BY <1>1, <1>3 DEF Kept
    <2> QED
      BY <1>1, <1>2, <2>1, <2>2 DEF DescriptorInv
  <1>4. DescriptorInv(b)'
    <2> SUFFICES ASSUME Steady(b), NEW k \in 1..Len(program.code[b]), At(b, k).op \in BufferOps,
                        NEW l \in program.active[b], NEW m \in program.active[b]
                 PROVE  LET p == Pointer(b, k)
                        IN  /\ Executed(b, 1, m)' => \A y \in p..p+3 :
                                  ByteAt(shared'[b], y) = Digit(Reg(b, At(b, 1).data, l), y - p)
                            /\ Executed(b, 2, m)' => \A y \in p+4..p+7 :
                                  ByteAt(shared'[b], y) = Digit(Reg(b, At(b, 2).data, l), y - (p + 4))
      BY <1>1, <1>2 DEF DescriptorInv
    <2> DEFINE p == Pointer(b, k)
               x1 == Reg(b, At(b, 1).data, l)
               x2 == Reg(b, At(b, 2).data, l)
               q == NextLane(b)
    <2>1. /\ k > 2 /\ p \in Nat /\ 1 \in 1..Len(program.code[b]) /\ 2 \in 1..Len(program.code[b])
          /\ At(b, 1).op = "D_WRITE_B32" /\ At(b, 2).op = "D_WRITE_B32"
          /\ At(b, 1).base \in 0..MaxV /\ At(b, 1).data \in 0..MaxV
          /\ At(b, 2).base \in 0..MaxV /\ At(b, 2).data \in 0..MaxV
          /\ Taking(b, 1) = program.active[b] /\ Taking(b, 2) = program.active[b]
          /\ \A n \in 3..Len(program.code[b]) : At(b, n).op \notin WriteOps
      BY <1>1, BufferInst
    <2>2. /\ pc[b] \in 1..Len(program.code[b]) /\ Len(program.code[b]) \in Nat
          /\ Inst(b) = At(b, pc[b]) /\ q \in program.active[b] /\ q \in Lanes
      BY <1>1, NextFacts
    <2>3. /\ Executed(b, 1, m)' => Executed(b, 1, m) \/ (1 = pc[b] /\ m = q)
          /\ Executed(b, 2, m)' => Executed(b, 2, m) \/ (2 = pc[b] /\ m = q)
          /\ Stays(b) => \A j, n : Executed(b, j, n)' <=> Executed(b, j, n)
      BY <2>1, StepEffects
    <2>4. /\ Reg(b, At(b, 1).base, q) = p /\ Reg(b, At(b, 2).base, q) = p + 4
          /\ Reg(b, At(b, 1).data, q) = x1 /\ Reg(b, At(b, 2).data, q) = x2
      BY <1>1, <2>2, BufferInst
    <2>5. pc[b] < Len(program.code[b]) =>
             \A r \in 0..MaxV : v[b][r][q] = Reg(b, r, q)
      BY <1>1, <2>2, SteadyRegisters
    <2>6. /\ Executed(b, 1, m) => \A y \in p..p+3 : ByteAt(shared[b], y) = Digit(x1, y - p)
          /\ Executed(b, 2, m) => \A y \in p+4..p+7 : ByteAt(shared[b], y) = Digit(x2, y - (p + 4))
      BY DEF DescriptorInv
    <2>7. "D_WRITE_B32" \in WriteOps /\ WriteLDS("D_WRITE_B32") = 4
      BY DEF WriteOps, WriteLDS
    <2> HIDE DEF p, x1, x2, q
    <2>8. CASE shared'[b] = shared[b] /\ \A j, n : Executed(b, j, n)' <=> Executed(b, j, n)
      BY <2>6, <2>8 DEF p, x1, x2
    <2>9. CASE Finishes(b) /\ pc[b] = 1
      <3>1. v[b][At(b, 1).base][q] = p /\ v[b][At(b, 1).data][q] = x1
        BY <2>1, <2>2, <2>4, <2>5, <2>9
      <3>2. shared' = [shared EXCEPT ![b] = Put(shared[b], p, 4, x1)]
        BY <2>1, <2>2, <2>7, <2>9, <3>1 DEF Finishes, q
      <3>3. shared'[b] = Put(shared[b], p, 4, x1)
        BY <3>2 DEF MemoryInv
      <3>4. \A y \in p..p+3 : ByteAt(shared'[b], y) = Digit(x1, y - p)
        <4>1. p \in Int /\ 4 \in Nat /\ p+4-1 = p+3
          BY <2>1
        <4> QED
          BY <3>3, <4>1, PutByte
      <3>5. ~Executed(b, 2, m) /\ ~Executed(b, 2, m)'
        BY <2>3, <2>9 DEF Executed
      <3> QED
        BY <3>4, <3>5 DEF p, x1, x2
    <2>10. CASE Finishes(b) /\ pc[b] = 2
      <3>1. v[b][At(b, 2).base][q] = p + 4 /\ v[b][At(b, 2).data][q] = x2
        BY <2>1, <2>2, <2>4, <2>5, <2>10
      <3>2. shared' = [shared EXCEPT ![b] = Put(shared[b], p + 4, 4, x2)]
        BY <2>1, <2>2, <2>7, <2>10, <3>1 DEF Finishes, q
      <3>3. shared'[b] = Put(shared[b], p + 4, 4, x2)
        BY <3>2 DEF MemoryInv
      <3>4. p + 4 \in Int /\ 4 \in Nat /\ (p+4)+4-1 = p+7
        BY <2>1
      <3>5. \A y \in p+4..p+7 : ByteAt(shared'[b], y) = Digit(x2, y - (p + 4))
        BY <3>3, <3>4, PutByte
      <3>6. \A y \in p..p+3 : ByteAt(shared'[b], y) = ByteAt(shared[b], y)
        <4>1. \A y \in p..p+3 : y \notin p+4..p+7
          BY <2>1
        <4> QED
          BY <3>3, <3>4, <4>1, PutByte
      <3>7. Executed(b, 1, m)
        BY <2>10 DEF Executed
      <3> QED
        BY <2>6, <3>5, <3>6, <3>7 DEF p, x1, x2
    <2>11. CASE Finishes(b) /\ pc[b] > 2
      <3>1. Inst(b).op \notin WriteOps
        BY <2>1, <2>2, <2>11
      <3>2. shared' = shared
        BY <2>11, <3>1 DEF Finishes
      <3>3. Executed(b, 1, m) /\ Executed(b, 2, m)
        BY <2>2, <2>11 DEF Executed
      <3> QED
        BY <2>6, <3>2, <3>3 DEF p, x1, x2
    <2>12. Stays(b) => shared' = shared
      BY DEF Stays
    <2> QED
      BY <1>1, <2>2, <2>3, <2>8, <2>9, <2>10, <2>11, <2>12
  <1> QED
    BY <1>3, <1>4

(* The descriptor that is read has the base and the stride that the two    *)
(* words say.                                                              *)
LEMMA DescriptorRead ==
    ASSUME NEW m, Bytes(m), NEW p \in Int, NEW x \in Word, NEW y \in Word,
           \A a \in p..p+3 : ByteAt(m, a) = Digit(x, a - p),
           \A a \in p+4..p+7 : ByteAt(m, a) = Digit(y, a - (p + 4))
    PROVE  /\ \E j \in Int : Get(m, p, 6) = x + j * 2^W
           /\ Get(m, p + 6, 2) = y \div Byte^2
  <1>0. x \in Int /\ y \in Int /\ x \in Nat /\ y \in Nat /\ y < 2^W
    BY WordSize
  <1>1. Get(m, p, 4) = x
    <2>1. p+4-1 = p+3
      OBVIOUS
    <2>2. Get(m, p, 4) = x % Byte^4
      BY <1>0, <2>1, GetDigits
    <2> QED
      BY <1>0, <2>2, ByteSize, WrapFacts DEF Wrap
  <1>2. \E j \in Int : Get(m, p, 6) = x + j * 2^W
    <2> DEFINE d == ByteAt(m, p + 4)
               e == ByteAt(m, p + 5)
               B == Byte
               T == 2^W
    <2>1. d \in Int /\ e \in Int /\ B \in Int /\ T \in Int
      BY ByteAtType, ByteSize, WordSize
    <2>2. Get(m, p, 6) = x + d * T + e * (B * T)
      BY <1>1, GetForms, ByteSize
    <2> HIDE DEF d, e, B, T
    <2>3. x + d * T + e * (B * T) = x + (d + e * B) * T /\ d + e * B \in Int
      BY <1>0, <2>1
    <2> QED
      BY <2>2, <2>3 DEF T
  <1>3. Get(m, p + 6, 2) = y \div Byte^2
    <2> DEFINE z == y \div Byte^2
    <2>1. Byte^2 \in Nat \ {0} /\ Byte \in Nat \ {0} /\ Byte^3 = Byte^2 * Byte /\ Byte^1 = Byte
           /\ Byte^4 = Byte^2 * Byte^2
      <3>1. /\ Byte \in Nat \ {0} /\ Byte^2 \in Nat \ {0} /\ Byte^3 \in Nat \ {0} /\ Byte^1 = Byte
            /\ Byte^2 = Byte * Byte /\ Byte^3 = Byte * Byte^2 /\ Byte^4 = Byte * Byte^3
        BY ByteSize
      <3> QED
        BY <3>1
    <2>2. z \in Int /\ z \in 0..Byte^2-1
      <3> DEFINE P == Byte^2
      <3>1. P \in Nat \ {0} /\ y < P * P
        BY <1>0, <2>1, ByteSize
      <3>2. y % P \in 0..P-1 /\ y \div P \in Int /\ y = (y \div P) * P + (y % P)
        <4> HIDE DEF P
        <4> QED
          BY <1>0, <3>1, DivMod
      <3> DEFINE qq == y \div P
                 rr == y % P
      <3> HIDE DEF P, qq, rr
      <3>3. qq \in Int /\ rr \in 0..P-1 /\ y = qq * P + rr /\ P \in Nat \ {0} /\ y \in Nat /\ y < P * P
        BY <1>0, <3>1, <3>2 DEF qq, rr
      <3>4. qq >= 0
        <4> SUFFICES ASSUME qq <= -1 PROVE FALSE
          BY <3>3
        <4>1. qq * P <= (-1) * P
          BY <3>3
        <4> QED
          BY <3>3, <4>1
      <3>5. qq < P
        <4> SUFFICES ASSUME qq >= P PROVE FALSE
          BY <3>3
        <4>1. qq * P >= P * P
          BY <3>3
        <4> QED
          BY <3>3, <4>1
      <3> QED
        BY <3>3, <3>4, <3>5 DEF P, qq
    <2>3. Digit(z, 0) = Digit(y, 2) /\ Digit(z, 1) = Digit(y, 3)
      <3>1. z \div Byte^0 = z
        BY <2>2, DivUnique, ByteSize
      <3>2. z \div Byte^1 = y \div Byte^3
        <4> DEFINE P == Byte^2
        <4>1. (y \div P) \div Byte = y \div (P * Byte)
          <5>1. P \in Nat \ {0} /\ Byte \in Nat \ {0}
            BY <2>1
          <5> HIDE DEF P
          <5> QED
            BY <1>0, <5>1, DivDiv
        <4> QED
          BY <2>1, <4>1
      <3> QED
        BY <3>1, <3>2 DEF Digit
    <2> HIDE DEF z
    <2>4. ByteAt(m, p + 6) = Digit(y, 2) /\ ByteAt(m, p + 7) = Digit(y, 3)
      <3>1. p + 6 \in p+4..p+7 /\ p + 7 \in p+4..p+7 /\ (p + 6) - (p + 4) = 2 /\ (p + 7) - (p + 4) = 3
        OBVIOUS
      <3> QED
        BY <3>1
    <2>5. Get(m, p + 6, 2) = ByteAt(m, p + 6) + ByteAt(m, p + 7) * Byte
      <3>1. p + 6 \in Int /\ (p + 6) + 1 = p + 7
        OBVIOUS
      <3> QED
        BY <3>1, GetForms
    <2>6. Get(m, p + 6, 2) = z % Byte^2
      BY <2>2, <2>3, <2>4, <2>5, Digits
    <2>7. z % Byte^2 = z
      BY <2>1, <2>2, ModSmall
    <2> QED
      BY <2>6, <2>7 DEF z
  <1> QED
    BY <1>2, <1>3

(* A steady block accesses the global memory where the registers of its    *)
(* start say.                                                              *)
LEMMA SteadyAddress ==
    ASSUME ControlInv, MemoryInv, NEW b \in Blocks, ~Ended(b), RegistersInv(b), DescriptorInv(b),
           Steady(b), Inst(b).op \in VLSOps \cup BufferOps,
           NEW addr \in Addresses(Context(b), Inst(b), NextLane(b))
    PROVE  addr = Place(b, Inst(b), NextLane(b))
  <1> DEFINE i == Inst(b)
             l == NextLane(b)
             c == Context(b)
  <1>1. /\ pc[b] \in 1..Len(program.code[b]) /\ Len(program.code[b]) \in Nat /\ i = At(b, pc[b])
        /\ RegistersExist(i) /\ l \in Lanes /\ l \in program.active[b] /\ program \in Programs
    BY NextFacts DEF ControlInv
  <1>2. /\ \A r \in 0..MaxV : v[b][r][l] = Reg(b, r, l)
        /\ s[b] = program.s[b]
    BY SteadyRegisters, OpSets
  <1>3. /\ c.s = Start(b).s /\ \A r \in 0..MaxV : c.v[r][l] = Start(b).v[r][l]
        /\ c.shared = shared[b]
    BY <1>1, <1>2, StartType DEF Context
  <1>4. BlockContext(c)
    BY ContextType
  <1> HIDE DEF c, i, l
  <1>5. CASE i.op \in VLSOps
    <2>1. {i.base, i.base + 1} \subseteq IF i.scalar THEN 0..MaxS ELSE 0..MaxV
      BY <1>1, <1>5 DEF RegistersExist
    <2>2. SrcPair(c, i, l) = SrcPair(Start(b), i, l)
      BY <1>3, <2>1 DEF SrcPair
    <2>3. SrcPair(c, i, l)[1] \in Word
      BY <1>1, <1>4, <2>1 DEF SrcPair, BlockContext
    <2>4. SrcPair(Start(b), i, l)[2] = 0
      BY <1>1, <1>5 DEF Steady
    <2>5. U64(SrcPair(c, i, l)) = {SrcPair(Start(b), i, l)[1]}
      BY <2>2, <2>3, <2>4, OrZero DEF U64
    <2>6. addr \in calculateAddr(c, i, l)
      BY <1>5, OpSets DEF Addresses, c, i, l
    <2>7. addr = SrcPair(Start(b), i, l)[1] + i.offset
      BY <2>5, <2>6 DEF calculateAddr
    <2> QED
      BY <1>5, <2>7, OpSets DEF Place, i, l
  <1>6. CASE i.op \in BufferOps
    <2> DEFINE p == Pointer(b, pc[b])
               x == Reg(b, At(b, 1).data, l)
               y == Reg(b, At(b, 2).data, l)
    <2>1. /\ pc[b] > 2 /\ p \in Nat /\ At(b, 1).data \in 0..MaxV /\ At(b, 2).data \in 0..MaxV
      BY <1>1, <1>6, BufferInst
    <2>2. x \in Word /\ y \in Word
      BY <1>1, <2>1, ProgramFacts
    <2>3. Executed(b, 1, l) /\ Executed(b, 2, l)
      BY <1>1, <2>1 DEF Executed
    <2>4. /\ \A a \in p..p+3 : ByteAt(shared[b], a) = Digit(x, a - p)
          /\ \A a \in p+4..p+7 : ByteAt(shared[b], a) = Digit(y, a - (p + 4))
      BY <1>1, <1>6, <2>3 DEF DescriptorInv
    <2>5. MemPtr(c, 4 * i.rsrc) = p
      BY <1>1, <1>3 DEF MemPtr, Pointer
    <2> DEFINE desc == ReadBufferResource(c, 4 * i.rsrc)
    <2>6. desc.base = Get(shared[b], p, 6) /\ desc.stride = Get(shared[b], p + 6, 2) % (Byte^2 \div 4)
      BY <1>3, <2>5 DEF ReadBufferResource
    <2> HIDE DEF p, x, y
    <2>7. p \in Int /\ Bytes(shared[b])
      BY <2>1 DEF MemoryInv
    <2>8. /\ \E j \in Int : Get(shared[b], p, 6) = x + j * 2^W
          /\ Get(shared[b], p + 6, 2) = y \div Byte^2
      BY ZenonT(30), <2>2, <2>4, <2>7, DescriptorRead
    <2>9. PICK j \in Int : desc.base = x + j * 2^W
      BY <2>6, <2>8
    <2>10. desc.stride = (y \div Byte^2) % (Byte^2 \div 4)
      BY <2>6, <2>8
    <2>11. /\ desc.base \in Nat /\ desc.stride \in Nat /\ c.s[i.soffset] \in Nat /\ i.offset \in Nat
           /\ OffVgpr(c, i, l) \in Nat /\ IdxVgpr(c, i, l) \in Nat /\ l \in Nat
      BY <1>1, <1>4, <1>6, BufferParts
    <2>12. OffVgpr(c, i, l) = OffVgpr(Start(b), i, l) /\ IdxVgpr(c, i, l) = IdxVgpr(Start(b), i, l)
      <3>1. (i.idxen => i.base \in 0..MaxV) /\ (i.offen => i.base + Flag(i.idxen) \in 0..MaxV)
        BY <1>1, <1>6 DEF RegistersExist
      <3> QED
        BY <1>3, <3>1 DEF OffVgpr, IdxVgpr
    <2> DEFINE so == c.s[i.soffset]
               st == desc.stride
               u == OffVgpr(c, i, l)
               n == IdxVgpr(c, i, l)
               o == i.offset
               ba == desc.base
               pr == st * (n + l)
               T == 2^W
               jT == j * T
    <2>13. BufferAddr(c, i, l) = Wrap(ba + so + o + u + pr)
      BY DEF BufferAddr
    <2>14. Element(b, i, l) = Wrap(x + so + o + u + pr)
      <3>1. so = program.s[b][i.soffset]
        BY <1>1, <1>3, StartType
      <3> QED
        BY <2>10, <2>12, <3>1 DEF Element, x, y
    <2>15. /\ ba \in Int /\ so \in Int /\ o \in Int /\ u \in Int /\ pr \in Int /\ x \in Int
           /\ ba = x + jT /\ jT \in Int
      <3>1. T \in Int
        BY WordSize
      <3> QED
        BY <2>2, <2>9, <2>11, <3>1, WordSize
    <2> HIDE DEF so, st, u, n, o, ba, pr, jT
    <2>16. ba + so + o + u + pr = (x + so + o + u + pr) + jT /\ x + so + o + u + pr \in Int
      BY <2>15
    <2>17. Wrap((x + so + o + u + pr) + jT) = Wrap(x + so + o + u + pr)
      BY <2>9, <2>16, WrapFacts DEF jT
    <2>18. BufferAddr(c, i, l) = Element(b, i, l)
      BY <2>13, <2>14, <2>16, <2>17
    <2>19. addr = BufferAddr(c, i, l)
      BY <1>6, OpSets DEF Addresses, c, i, l
    <2> QED
      BY <1>6, <2>18, <2>19 DEF Place, i, l
  <1> QED
    BY <1>5, <1>6 DEF i

WorkInv(b) ==
    Steady(b) /\ work[b] # Idle /\ Inst(b).op \in VLSOps \cup BufferOps =>
        work[b].at = Place(b, Inst(b), NextLane(b))

LEMMA WorkStays ==
    ASSUME NEW c, program' = program, pc'[c] = pc[c], ran'[c] = ran[c],
           work'[c].at = work[c].at, work[c] # Idle, WorkInv(c)
    PROVE  WorkInv(c)'
  <1>1. Inst(c)' = Inst(c) /\ Takers(c)' = Takers(c)
    BY DEF Inst, Takers
  <1>2. NextLane(c)' = NextLane(c)
    BY <1>1 DEF NextLane
  <1>3. Place(c, Inst(c), NextLane(c))' = Place(c, Inst(c)', NextLane(c)')
    BY Rigid
  <1> QED
    BY <1>1, <1>2, <1>3, Rigid DEF WorkInv

LEMMA WorkStep ==
    ASSUME ControlInv, MemoryInv, NEW b \in Blocks, Execute(b), StepFacts(b),
           RegistersInv(b), DescriptorInv(b), \A c \in Blocks : WorkInv(c)
    PROVE  \A c \in Blocks : WorkInv(c)'
  <1>1. program' = program /\ ~Ended(b) /\ (\A c \in Blocks : c # b => Kept(c)) /\ work \in [Blocks -> Works]
    BY DEF StepFacts, ControlInv
  <1>2. ASSUME NEW c \in Blocks, c # b PROVE WorkInv(c)'
    <2>1. pc'[c] = pc[c] /\ ran'[c] = ran[c] /\ work'[c] = work[c] /\ WorkInv(c)
      BY <1>1, <1>2 DEF Kept
    <2>2. CASE work[c] = Idle
      BY <2>1, <2>2 DEF WorkInv
    <2> QED
      BY <1>1, <2>1, <2>2, WorkStays
  <1>3. CASE LaneDone(b, NextLane(b))
    <2>1. work'[b] = Idle
      BY <1>1, <1>3, LaneStep
    <2> QED
      BY <1>2, <2>1 DEF WorkInv
  <1>4. CASE Begin(b)
    <2> SUFFICES ASSUME Steady(b), Inst(b).op \in VLSOps \cup BufferOps, work'[b] # Idle
                 PROVE  WorkInv(b)'
      <3>1. work[b] = Idle /\ pc' = pc /\ (work' = work \/ TRUE)
        BY <1>4 DEF Begin, Abort
      <3>2. Inst(b)' = Inst(b) /\ (Steady(b)' <=> Steady(b))
        BY <1>1, <3>1, Rigid DEF Inst
      <3> QED
        BY <1>2, <3>2 DEF WorkInv
    <2>1. work[b] = Idle
      BY <1>4 DEF Begin
    <2>2. PICK addr \in Addresses(Context(b), Inst(b), NextLane(b)) :
             \/ Abort(b)
             \/ /\ work' = [work EXCEPT ![b] = Access(addr, 0, Empty, NextLane(b))]
                /\ UNCHANGED <<program, pc, ran>>
      BY <1>4 DEF Begin
    <2>3. ~Abort(b)
      BY <2>1 DEF Abort
    <2>4. work'[b].at = addr /\ pc' = pc /\ ran' = ran
      BY <1>1, <2>2, <2>3 DEF Access
    <2>5. addr = Place(b, Inst(b), NextLane(b))
      BY <1>1, SteadyAddress
    <2>6. Inst(b)' = Inst(b) /\ Takers(b)' = Takers(b)
      BY <1>1, <2>4 DEF Inst, Takers
    <2>7. NextLane(b)' = NextLane(b)
      BY <2>4, <2>6 DEF NextLane
    <2>8. Place(b, Inst(b), NextLane(b))' = Place(b, Inst(b)', NextLane(b)')
      BY <1>1, Rigid
    <2> QED
      BY <2>4, <2>5, <2>6, <2>7, <2>8 DEF WorkInv
  <1>5. CASE ~Begin(b) /\ ~LaneDone(b, NextLane(b))
    <2>1. \/ /\ pc'[b] = pc[b] /\ ran'[b] = ran[b] /\ work'[b].at = work[b].at /\ work[b] # Idle
          \/ Abort(b)
      <3>1. work[b] # Idle => work[b].lane = NextLane(b)
        BY <1>1, WorkFacts
      <3>2. CASE ScalarLoad(b)
        BY <1>1, <1>5, <3>1, <3>2 DEF ScalarLoad, Working, Access
      <3>3. CASE VectorLoadX(b)
        BY <1>1, <1>5, <3>1, <3>3 DEF VectorLoadX, Working, Access
      <3>4. CASE AtomicRead(b)
        BY <1>1, <1>5, <3>1, <3>4 DEF AtomicRead, Working, Access
      <3>5. CASE ExecuteDLS(b) \/ D_READ2_B32(b) \/ V_CVTA_SHARED_TO_FLAT(b)
        BY <1>5, <3>5 DEF ExecuteDLS, D_READ2_B32, V_CVTA_SHARED_TO_FLAT
      <3>6. CASE VectorLoad(b) \/ VectorStore(b) \/ BufferLoad(b) \/ BufferStore(b) \/ AtomicWrite(b)
        BY <1>5, <3>1, <3>6
           DEF VectorLoad, VectorStore, BufferLoad, BufferStore, AtomicWrite, Working
      <3> QED
        BY <1>5, <3>2, <3>3, <3>4, <3>5, <3>6 DEF Execute
    <2>2. CASE Abort(b)
      <3>1. pc' = pc /\ ran' = ran /\ work' = work
        BY <2>2 DEF Abort
      <3>2. work[b] # Idle => WorkInv(b)'
        BY <1>1, <3>1, WorkStays
      <3> QED
        BY <1>2, <3>1, <3>2 DEF WorkInv
    <2> QED
      BY <1>1, <1>2, <2>1, <2>2, WorkStays
  <1> QED
    BY <1>2, <1>3, <1>4, <1>5
-----------------------------------------------------------------------------
(* Places are addresses.                                                   *)
LEMMA PlaceType ==
    ASSUME program \in Programs, NEW b \in Blocks, Steady(b), NEW l \in Lanes,
           NEW k \in 1..Len(program.code[b]), At(b, k).op \in VLSOps \cup BufferOps
    PROVE  Place(b, At(b, k), l) \in Nat
  <1> DEFINE i == At(b, k)
  <1>1. RegistersExist(i)
    BY ProgramFacts
  <1>2. /\ \A r \in 0..MaxV : Start(b).v[r][l] \in Word
        /\ \A r \in 0..MaxS : Start(b).s[r] \in Word
    BY StartType, ProgramFacts
  <1>3. CASE i.op \in BufferOps
    <2> DEFINE x == Reg(b, At(b, 1).data, l)
               y == Reg(b, At(b, 2).data, l)
               st == (y \div Byte^2) % (Byte^2 \div 4)
               c == [v |-> program.v[b], s |-> program.s[b], shared |-> [a \in {} |-> 0]]
    <2>1. At(b, 1).data \in 0..MaxV /\ At(b, 2).data \in 0..MaxV
      BY <1>3, BufferInst
    <2>2. x \in Int /\ y \in Int
      BY <2>1, ProgramFacts, WordSize
    <2>3. st \in Int
      <3>1. Byte^2 \in Nat \ {0} /\ Byte^2 >= 4
        <4>1. Byte \in Nat /\ Byte >= 2 /\ Byte^2 = Byte * Byte
          BY ByteSize
        <4>2. Byte * Byte >= 2 * 2
          BY <4>1
        <4> QED
          BY <4>1, <4>2
      <3>2. Byte^2 \div 4 \in Nat \ {0}
        BY <3>1
      <3>3. y \div Byte^2 \in Int
        BY <2>2, <3>1, DivMod
      <3>4. \A m \in Nat \ {0} : \A z \in Int : z % m \in Int
        BY DivMod
      <3> QED
        BY <3>2, <3>3, <3>4
    <2>4. BlockContext(c)
      BY StartType DEF BlockContext, Bytes
    <2>5. c.s = Start(b).s /\ c.v = Start(b).v /\ Start(b).s = program.s[b]
      BY DEF Start
    <2> HIDE DEF c
    <2>6. /\ c.s[i.soffset] \in Int /\ i.offset \in Int
          /\ OffVgpr(c, i, l) \in Int /\ IdxVgpr(c, i, l) \in Int /\ l \in Int
      <3> HIDE DEF i
      <3> QED
        BY <1>1, <1>3, <2>4, BufferParts
    <2> DEFINE so == program.s[b][i.soffset]
               u == OffVgpr(Start(b), i, l)
               n == IdxVgpr(Start(b), i, l)
               pr == st * (n + l)
    <2>7. so \in Int /\ u \in Int /\ n \in Int
      BY <2>5, <2>6 DEF OffVgpr, IdxVgpr
    <2>8. pr \in Int
      <3> HIDE DEF st, n
      <3> QED
        BY <2>3, <2>6, <2>7
    <2> HIDE DEF so, u, pr, x
    <2>9. x + so + i.offset + u + pr \in Int
      BY <2>2, <2>6, <2>7, <2>8
    <2>10. Wrap(x + so + i.offset + u + pr) \in Nat
      BY <2>9, WrapFacts, WordSize
    <2>11. Place(b, i, l) = Wrap(x + so + i.offset + u + pr)
      BY <1>3 DEF Place, Element, so, u, pr, x
    <2> QED
      BY <2>10, <2>11
  <1>4. CASE i.op \in VLSOps
    <2>1. {i.base, i.base + 1} \subseteq IF i.scalar THEN 0..MaxS ELSE 0..MaxV
      BY <1>1, <1>4 DEF RegistersExist
    <2>2. SrcPair(Start(b), i, l)[1] \in Word /\ i.offset \in Nat
      <3> HIDE DEF i
      <3> QED
        BY <1>1, <1>2, <2>1 DEF SrcPair, RegistersExist
    <2>3. Place(b, i, l) = SrcPair(Start(b), i, l)[1] + i.offset
      BY <1>4, OpSets DEF Place
    <2> QED
      BY <2>2, <2>3, WordSize
  <1> QED
    BY <1>3, <1>4

(* The global memory.  A step of a steady block writes where the registers *)
(* of its start say, and what these say.                                   *)
LEMMA SteadyWrite ==
    ASSUME ControlInv, MemoryInv, NEW b \in Blocks, StepFacts(b), RegistersInv(b), WorkInv(b),
           Steady(b)
    PROVE  LET i == Inst(b)
               l == NextLane(b)
           IN  /\ \/ mem' = mem
                  \/ i.op \in Writers /\ mem' = Put(mem, Place(b, i, l), WriterBytes(i.op), Written(b))
               /\ Finishes(b) /\ i.op \in Writers =>
                     work[b] # Idle /\ mem' = Put(mem, Place(b, i, l), WriterBytes(i.op), Written(b))
               /\ i.op \in StoreOps \cup BufferStores => Written(b) = Reg(b, i.data, l)
               /\ i.op \in Writers => Place(b, i, l) \in Nat /\ WriterBytes(i.op) \in {1, 2, 4}
               /\ i.op \in Writers /\ work[b] # Idle => Written(b) \in Word
  <1> DEFINE i == Inst(b)
             l == NextLane(b)
  <1>1. program' = program /\ ~Ended(b) /\ (Stays(b) \/ Finishes(b)) /\ program \in Programs
    BY DEF StepFacts, ControlInv
  <1>2. i.op \in Writers => i.op \in VLSOps \cup BufferOps /\ i.op \notin SLSOps
    BY OpSets DEF Writers
  <1>3. Finishes(b) /\ i.op \in Writers =>
           work[b] # Idle /\ mem' = Put(mem, Place(b, i, l), WriterBytes(i.op), Written(b))
    BY <1>2 DEF Finishes, WorkInv
  <1>4. mem' = mem \/ (i.op \in Writers /\ Finishes(b))
    BY <1>1 DEF Stays, Finishes
  <1>5. l \in Lanes /\ RegistersExist(i)
    BY <1>1, NextFacts
  <1>6. i.op \in Writers => i.data \in 0..MaxV
    BY <1>2, <1>5 DEF RegistersExist
  <1>7. i.op \in Writers => v[b][i.data][l] = Reg(b, i.data, l)
    BY <1>1, <1>6, SteadyRegisters
  <1>8. i.op \in StoreOps \cup BufferStores => Written(b) = Reg(b, i.data, l)
    BY <1>7, OpSets DEF Written, Writers
  <1>9. i.op \in Writers /\ work[b] # Idle => Written(b) \in Word
    <2> SUFFICES ASSUME i.op \in Writers, work[b] # Idle PROVE Written(b) \in Word
      OBVIOUS
    <2> DEFINE x == v[b][i.data][l]
    <2>1. x \in Word /\ work[b].held[0] \in Word
      BY <1>1, <1>2, WorkFacts
    <2>2. x + work[b].held[0] \in Int
      BY <2>1, WordSize
    <2> QED
      BY <2>1, <2>2, WrapFacts DEF Written
  <1>10. i.op \in Writers => Place(b, i, l) \in Nat
    <2>1. pc[b] \in 1..Len(program.code[b]) /\ i = At(b, pc[b])
      BY <1>1, NextFacts
    <2> QED
      BY <1>1, <1>2, <1>5, <2>1, PlaceType
  <1> QED
    BY <1>3, <1>4, <1>8, <1>9, <1>10, OpSizes

(* A lane that spares some bytes leaves them as they are.                  *)
LEMMA Spared ==
    ASSUME ControlInv, MemoryInv, NEW b \in Blocks, StepFacts(b), RegistersInv(b), WorkInv(b),
           Steady(b), NEW a \in Int, NEW n \in Nat, Spares(b, NextLane(b), a, n)
    PROVE  /\ \A y \in a..a+n-1 : ByteAt(mem', y) = ByteAt(mem, y)
           /\ Get(mem', a, n) = Get(mem, a, n)
  <1> DEFINE i == Inst(b)
             l == NextLane(b)
             at == Place(b, i, l)
             k == WriterBytes(i.op)
             x == Written(b)
  <1>1. CASE mem' = mem
    BY <1>1
  <1>2. CASE i.op \in Writers /\ mem' = Put(mem, at, k, x)
    <2>1. at \in Int /\ k \in Nat
      BY <1>2, SteadyWrite
    <2>2. pc[b] \in 1..Len(program.code[b]) /\ i = At(b, pc[b])
      BY NextFacts DEF StepFacts
    <2>3. Apart(at, k, a, n)
      BY <1>2, <2>2, OpSets DEF Spares, Writers, WriterBytes
    <2> HIDE DEF at, k, x
    <2> QED
      BY <1>2, <2>1, <2>3, GetPutApart
  <1> QED
    BY <1>1, <1>2, SteadyWrite

(* What no lane writes is as it was at the start.                          *)
Untouched(a, n) ==
    \A c \in Blocks : Steady(c) /\ \A m \in program.active[c] : Spares(c, m, a, n)

FrameInv ==
    \A a \in Int, n \in Nat :
        Untouched(a, n) => \A y \in a..a+n-1 : ByteAt(mem, y) = ByteAt(program.mem, y)

LEMMA FrameStep ==
    ASSUME ControlInv, MemoryInv, NEW b \in Blocks, StepFacts(b), RegistersInv(b), WorkInv(b),
           FrameInv
    PROVE  FrameInv'
  <1>1. program' = program /\ ~Ended(b)
    BY DEF StepFacts
  <1>2. NextLane(b) \in program.active[b]
    BY <1>1, NextFacts
  <1>3. \A a, n : Untouched(a, n)' <=> Untouched(a, n)
    BY <1>1, Rigid DEF Untouched
  <1>4. ASSUME NEW a \in Int, NEW n \in Nat, Untouched(a, n), NEW y \in a..a+n-1
        PROVE  ByteAt(mem', y) = ByteAt(program.mem, y)
    <2>1. Steady(b) /\ Spares(b, NextLane(b), a, n)
      BY <1>2, <1>4 DEF Untouched
    <2>2. ByteAt(mem', y) = ByteAt(mem, y)
      BY <2>1, Spared
    <2> QED
      BY <1>4, <2>2 DEF FrameInv
  <1> QED
    BY <1>1, <1>3, <1>4 DEF FrameInv
-----------------------------------------------------------------------------
(* S_LOAD_DWORD*: the words that are loaded are in their registers, and    *)
(* the others are not touched.                                             *)
LoadedWords(b) ==
    IF pc[b] # 1 THEN SLSWords(At(b, 1).op) ELSE IF work[b] = Idle THEN 0 ELSE work[b].k

WordPlace(b, r) ==
    Wrap(program.s[b][2 * At(b, 1).base] + 4 * (At(b, 1).offset + r - At(b, 1).data))

ScalarInv(b) ==
    Len(program.code[b]) = 1 /\ At(b, 1).op \in SLSOps =>
        /\ pc[b] = 1 /\ work[b] # Idle =>
              work[b].at = Wrap(program.s[b][2 * At(b, 1).base] + 4 * At(b, 1).offset)
        /\ \A r \in 0..MaxS :
              IF r \in At(b, 1).data..At(b, 1).data + LoadedWords(b) - 1
              THEN Untouched(WordPlace(b, r), 4) => s[b][r] = Get(program.mem, WordPlace(b, r), 4)
              ELSE s[b][r] = program.s[b][r]

LEMMA ScalarInvStep ==
    ASSUME ControlInv, MemoryInv, NEW b \in Blocks, Execute(b), StepFacts(b), FrameInv,
           \A c \in Blocks : ScalarInv(c)
    PROVE  \A c \in Blocks : ScalarInv(c)'
  <1>1. program' = program /\ ~Ended(b) /\ (\A c \in Blocks : c # b => Kept(c))
        /\ work \in [Blocks -> Works] /\ pc \in [Blocks -> Nat] /\ program \in Programs
        /\ s \in [Blocks -> [0..MaxS -> Word]] /\ Bytes(mem)
    BY DEF StepFacts, ControlInv, MemoryInv
  <1>2. /\ \A c, k : At(c, k)' = At(c, k)
        /\ \A c, r : WordPlace(c, r)' = WordPlace(c, r)
        /\ \A a, n : Untouched(a, n)' <=> Untouched(a, n)
    BY <1>1, Rigid DEF Untouched, WordPlace
  <1>3. ASSUME NEW c \in Blocks, c # b PROVE ScalarInv(c)'
    <2>1. LoadedWords(c)' = LoadedWords(c)
      BY <1>1, <1>2, <1>3 DEF LoadedWords, Kept
    <2> QED
      BY <1>1, <1>2, <1>3, <2>1 DEF ScalarInv, Kept
  <1>4. ScalarInv(b)'
    <2> DEFINE i == At(b, 1)
               n == SLSWords(i.op)
               S == program.s[b][2 * i.base]
    <2> SUFFICES ASSUME Len(program.code[b]) = 1, i.op \in SLSOps
                 PROVE  /\ pc'[b] = 1 /\ work'[b] # Idle => work'[b].at = Wrap(S + 4 * i.offset)
                        /\ \A r \in 0..MaxS : \A k : k = LoadedWords(b)' =>
                              IF r \in i.data..i.data + k - 1
                              THEN Untouched(WordPlace(b, r), 4) =>
                                      s'[b][r] = Get(program.mem, WordPlace(b, r), 4)
                              ELSE s'[b][r] = program.s[b][r]
      BY <1>1, <1>2 DEF ScalarInv
    <2>1. /\ pc[b] = 1 /\ Inst(b) = i /\ RegistersExist(i) /\ NextLane(b) \in Lanes
          /\ Takers(b) = {NextLane(b)} /\ ran[b] = {}
      <3>1. /\ pc[b] \in 1..1 /\ Inst(b) = At(b, pc[b]) /\ RegistersExist(Inst(b))
            /\ NextLane(b) \in Lanes /\ NextLane(b) \in Takers(b)
        BY <1>1, NextFacts
      <3>2. pc[b] = 1
        BY <3>1
      <3>3. Takers(b) = {Min(program.active[b])}
        BY <3>1, <3>2 DEF Takers
      <3>4. ran[b] \subseteq Takers(b) /\ ran[b] # Takers(b)
        BY <1>1 DEF ControlInv, BlockControl
      <3> QED
        BY <3>1, <3>2, <3>3, <3>4
    <2>2. /\ 2 * i.base \in 0..MaxS /\ 2 * i.base + 1 \in 0..MaxS /\ i.offset \in Nat
          /\ i.data \in Nat /\ n \in {1, 2, 4, 8, 16}
      BY <2>1, OpSizes DEF RegistersExist
    <2>3. S \in Word /\ S \in Int
      BY <1>1, <2>2, ProgramFacts, WordSize
    <2>4. /\ work[b] # Idle => work[b].at = Wrap(S + 4 * i.offset)
          /\ \A r \in 0..MaxS :
              IF r \in i.data..i.data + LoadedWords(b) - 1
              THEN Untouched(WordPlace(b, r), 4) => s[b][r] = Get(program.mem, WordPlace(b, r), 4)
              ELSE s[b][r] = program.s[b][r]
      BY <2>1 DEF ScalarInv
    <2>5. CASE Begin(b)
      <3>1. work[b] = Idle /\ pc' = pc /\ s' = s
        BY <2>5 DEF Begin, Abort
      <3>2. LoadedWords(b) = 0
        BY <2>1, <3>1 DEF LoadedWords
      <3>3. \A r \in 0..MaxS : s[b][r] = program.s[b][r]
        BY <2>2, <2>4, <3>2
      <3>4. PICK addr \in Addresses(Context(b), i, NextLane(b)) :
               \/ Abort(b)
               \/ work' = [work EXCEPT ![b] = Access(addr, 0, Empty, NextLane(b))]
        BY <2>1, <2>5 DEF Begin
      <3>5. addr = Wrap(S + 4 * i.offset)
        <4> DEFINE c == Context(b)
                   M == MemPtr(c, 2 * i.base)
        <4>1. addr = Wrap(M + 4 * i.offset)
          BY OpSets DEF Addresses, ScalarAddr
        <4>2. M \in Nat /\ Wrap(M) = c.s[2 * i.base]
          <5>1. BlockContext(c)
            BY ContextType
          <5> HIDE DEF c
          <5> QED
            BY <2>2, <5>1, MemPtrType
        <4>3. c.s[2 * i.base] = S
          BY <2>2, <3>3 DEF Context
        <4> HIDE DEF M, S
        <4>4. Wrap(Wrap(M) + 4 * i.offset) = Wrap(M + 4 * i.offset)
          <5>1. M \in Int /\ 4 * i.offset \in Int
            BY <2>2, <4>2
          <5> QED
            BY <5>1, WrapSum
        <4> QED
          BY <4>1, <4>2, <4>3, <4>4
      <3>6. CASE Abort(b)
        <4>1. work' = work
          BY <3>6 DEF Abort
        <4>2. LoadedWords(b)' = 0
          BY <1>2, <2>1, <3>1, <4>1 DEF LoadedWords
        <4> QED
          BY <2>2, <3>1, <3>3, <4>1, <4>2
      <3>7. CASE work' = [work EXCEPT ![b] = Access(addr, 0, Empty, NextLane(b))]
        <4>1. work'[b].at = addr /\ work'[b].k = 0
          BY <1>1, <3>7 DEF Access
        <4>2. LoadedWords(b)' = 0
          BY <1>2, <2>1, <3>1, <4>1 DEF LoadedWords
        <4> QED
          BY <2>2, <3>1, <3>3, <3>5, <4>1, <4>2
      <3> QED
        BY <3>4, <3>6, <3>7
    <2>6. CASE ScalarLoad(b)
      <3> DEFINE w == work[b]
                 r0 == i.data + w.k
                 a0 == WordPlace(b, r0)
      <3>1. /\ w # Idle
            /\ s' = [s EXCEPT ![b][i.data + w.k] = ReadWord(b, w.k)]
            /\ IF w.k + 1 = n
               THEN LaneDone(b, w.lane)
               ELSE /\ work' = [work EXCEPT ![b] = Access(w.at, w.k + 1, w.held, w.lane)]
                    /\ UNCHANGED <<pc, ran>>
        BY <2>1, <2>6 DEF ScalarLoad, Working, WordIndex
      <3>2. /\ w.lane = NextLane(b) /\ w.k \in 0..n-1 /\ w.k \in Nat
        BY <1>1, <2>1, <2>2, <3>1, WorkFacts DEF Accesses
      <3>3. r0 \in 0..MaxS /\ ReadWord(b, w.k) \in Word
        BY <1>1, <2>1, <2>6, ScalarLoadStep
      <3>4. s'[b] = [s[b] EXCEPT ![r0] = ReadWord(b, w.k)] /\ s[b] \in [0..MaxS -> Word]
        BY <1>1, <3>1
      <3>5. /\ s'[b][r0] = ReadWord(b, w.k)
            /\ \A r \in 0..MaxS : r # r0 => s'[b][r] = s[b][r]
        <4> HIDE DEF r0
        <4> QED
          BY <3>3, <3>4
      <3>6. WordAddr(b, w.k) = a0
        <4>1. WordAddr(b, w.k) = Wrap(w.at + 4 * w.k)
          BY <2>1 DEF WordAddr
        <4> DEFINE z == S + 4 * i.offset
        <4>2. z \in Int /\ 4 * w.k \in Int
          BY <2>2, <2>3, <3>2
        <4>3. w.at = Wrap(z)
          BY <2>4, <3>1
        <4>4. z + 4 * w.k = S + 4 * (i.offset + r0 - i.data)
          <5> HIDE DEF S
          <5> QED
            BY <2>2, <2>3, <3>2
        <4> HIDE DEF z
        <4>5. Wrap(Wrap(z) + 4 * w.k) = Wrap(z + 4 * w.k)
          BY <4>2, WrapSum
        <4> QED
          BY <4>1, <4>3, <4>4, <4>5 DEF WordPlace
      <3>7. Untouched(a0, 4) => s'[b][r0] = Get(program.mem, a0, 4)
        <4> SUFFICES ASSUME Untouched(a0, 4) PROVE Get(mem, a0, 4) = Get(program.mem, a0, 4)
          BY <3>5, <3>6 DEF ReadWord
        <4>1. a0 \in Int
          <5>1. S + 4 * (i.offset + r0 - i.data) \in Int
            BY <2>2, <2>3, <3>2
          <5> QED
            BY <5>1, WrapFacts, WordSize DEF WordPlace
        <4>2. \A y \in a0..a0+4-1 : ByteAt(mem, y) = ByteAt(program.mem, y)
          BY <4>1 DEF FrameInv
        <4> HIDE DEF a0
        <4> QED
          BY <4>1, <4>2, GetSame
      <3>8. LoadedWords(b) = w.k
        BY <2>1, <3>1 DEF LoadedWords
      <3>9. \A r \in 0..MaxS :
               IF r \in i.data..i.data + w.k
               THEN Untouched(WordPlace(b, r), 4) => s'[b][r] = Get(program.mem, WordPlace(b, r), 4)
               ELSE s'[b][r] = program.s[b][r]
        <4> SUFFICES ASSUME NEW r \in 0..MaxS
                     PROVE  IF r \in i.data..i.data + w.k
                            THEN Untouched(WordPlace(b, r), 4) =>
                                    s'[b][r] = Get(program.mem, WordPlace(b, r), 4)
                            ELSE s'[b][r] = program.s[b][r]
          OBVIOUS
        <4>1. CASE r = r0
          BY <2>2, <3>2, <3>7, <4>1
        <4>2. CASE r # r0
          <5>1. r \in i.data..i.data + w.k <=> r \in i.data..i.data + LoadedWords(b) - 1
            BY <2>2, <3>2, <3>8, <4>2, MemoryAssumption
          <5> QED
            BY <2>4, <3>5, <4>2, <5>1
        <4> QED
          BY <4>1, <4>2
      <3>10. CASE w.k + 1 = n
        <4>1. LaneDone(b, NextLane(b))
          BY <3>1, <3>2, <3>10
        <4>2. pc'[b] = 2
          <5>1. ran[b] \cup {NextLane(b)} = Takers(b)
            BY <2>1
          <5> QED
            BY <1>1, <2>1, <4>1, <5>1 DEF LaneDone
        <4>3. LoadedWords(b)' = w.k + 1
          BY <1>2, <3>10, <4>2 DEF LoadedWords
        <4>4. i.data + (w.k + 1) - 1 = i.data + w.k
          BY <2>2, <3>2
        <4> QED
          BY <3>9, <4>2, <4>3, <4>4
      <3>11. CASE w.k + 1 # n
        <4>1. /\ work' = [work EXCEPT ![b] = Access(w.at, w.k + 1, w.held, w.lane)]
              /\ UNCHANGED <<pc, ran>>
          BY <3>1, <3>11
        <4>2. work'[b].at = w.at /\ work'[b].k = w.k + 1
          BY <1>1, <4>1 DEF Access
        <4>3. work'[b] # Idle
          BY <3>2, <4>2 DEF Idle, Access
        <4>4. LoadedWords(b)' = w.k + 1
          BY <1>2, <2>1, <4>1, <4>2, <4>3 DEF LoadedWords
        <4>5. i.data + (w.k + 1) - 1 = i.data + w.k
          BY <2>2, <3>2
        <4> QED
          BY <2>4, <3>1, <3>9, <4>2, <4>4, <4>5
      <3> QED
        BY <3>10, <3>11
    <2> QED
      BY <2>1, <2>5, <2>6, Dispatch
  <1> QED
    BY <1>3, <1>4
-----------------------------------------------------------------------------
(* DLS.  The numbers that the bytes of a shorter or longer word make.      *)
LEMMA GetLow ==
    ASSUME NEW m, Bytes(m), NEW a \in Int, NEW n \in {1, 2, 4}, NEW r \in {1, 2, 4}, NEW x \in Int,
           \A y \in a..a+3 : ByteAt(m, y) = IF y < a + n THEN Digit(x, y - a) ELSE 0
    PROVE  Get(m, a, r) = x % Byte^Smaller(n, r)
  <1>1. \A j \in 0..3 : ByteAt(m, a + j) = IF j < n THEN Digit(x, j) ELSE 0
    <2>1. \A j \in 0..3 : a + j \in a..a+3 /\ (a + j) - a = j /\ (a + j < a + n <=> j < n)
      OBVIOUS
    <2> QED
      BY <2>1
  <1>2. a + 0 = a
    OBVIOUS
  <1> DEFINE d == [j \in 0..3 |-> IF j < n THEN Digit(x, j) ELSE 0]
  <1>3. /\ ByteAt(m, a) = d[0] /\ ByteAt(m, a + 1) = d[1]
        /\ ByteAt(m, a + 2) = d[2] /\ ByteAt(m, a + 3) = d[3]
    BY <1>1, <1>2
  <1>4. /\ Get(m, a, 1) = d[0]
        /\ Get(m, a, 2) = d[0] + d[1] * Byte
        /\ Get(m, a, 4) = d[0] + d[1] * Byte + d[2] * Byte^2 + d[3] * Byte^3
    <2> HIDE DEF d
    <2> QED
      BY <1>3, GetForms
  <1>5. /\ \A j \in 0..3 : Digit(x, j) \in Int
        /\ Byte \in Int /\ Byte^2 \in Int /\ Byte^3 \in Int
    <2>1. \A j \in 0..3 : Digit(x, j) \in 0..Byte-1
      <3>1. \A j \in 0..6 : Digit(x, j) \in 0..Byte-1
        BY DigitType
      <3> QED
        BY <3>1
    <2>2. Byte \in Int /\ Byte^2 \in Nat \ {0} /\ Byte^3 \in Nat \ {0}
      BY ByteSize
    <2> QED
      BY <2>1, <2>2
  <1>6. \A z \in Int : 0 * z = 0
    OBVIOUS
  <1>7. CASE n = 1
    <2>1. d[0] = Digit(x, 0) /\ d[1] = 0 /\ d[2] = 0 /\ d[3] = 0 /\ Smaller(n, r) = 1
      BY <1>7 DEF Smaller
    <2> HIDE DEF d
    <2>2. /\ d[1] * Byte = 0 /\ d[2] * Byte^2 = 0 /\ d[3] * Byte^3 = 0 /\ d[0] \in Int
      BY <1>5, <1>6, <2>1
    <2>3. Get(m, a, r) = d[0]
      BY <1>4, <2>2
    <2> QED
      BY <2>1, <2>3, Digits
  <1>8. CASE n = 2
    <2>1. d[0] = Digit(x, 0) /\ d[1] = Digit(x, 1) /\ d[2] = 0 /\ d[3] = 0
           /\ Smaller(n, r) = IF r = 1 THEN 1 ELSE 2
      BY <1>8 DEF Smaller
    <2> HIDE DEF d
    <2>2. /\ d[2] * Byte^2 = 0 /\ d[3] * Byte^3 = 0 /\ d[0] \in Int /\ d[1] * Byte \in Int
      BY <1>5, <1>6, <2>1
    <2>3. Get(m, a, r) = IF r = 1 THEN d[0] ELSE d[0] + d[1] * Byte
      BY <1>4, <2>2
    <2> QED
      BY <2>1, <2>3, Digits
  <1>9. CASE n = 4
    <2>1. d[0] = Digit(x, 0) /\ d[1] = Digit(x, 1) /\ d[2] = Digit(x, 2) /\ d[3] = Digit(x, 3)
           /\ Smaller(n, r) = r
      BY <1>9 DEF Smaller
    <2> HIDE DEF d
    <2> QED
      BY <1>4, <2>1, Digits
  <1> QED
    BY <1>7, <1>8, <1>9

(* What a read of fewer bits makes of them.                                *)
LEMMA PowerOrder ==
    \A n, r \in {1, 2, 4} : /\ Byte^n \in Nat \ {0} /\ Byte^n <= 2^W
                            /\ n <= r => Byte^n <= Byte^r
  <1>1. /\ Byte \in Nat \ {0} /\ Byte^1 = Byte /\ Byte^2 \in Nat \ {0} /\ Byte^3 \in Nat \ {0}
        /\ Byte^2 = Byte * Byte /\ Byte^3 = Byte * Byte^2 /\ Byte^4 = Byte * Byte^3
        /\ Byte^4 \in Nat \ {0} /\ Byte^4 = 2^W
    BY ByteSize
  <1>2. \A p \in Nat \ {0} : \A d \in Nat \ {0} : p <= d * p
    BY NextWindow
  <1>3. Byte <= Byte^2 /\ Byte^2 <= Byte^3 /\ Byte^3 <= Byte^4
    BY <1>1, <1>2
  <1> QED
    BY <1>1, <1>3

LEMMA ExtendLow ==
    ASSUME NEW n \in {1, 2, 4}, NEW r \in {1, 2, 4}, NEW z \in Int
    PROVE  LET x == z % Byte^Smaller(n, r)
           IN  /\ x \in Nat
               /\ Extend(x, r) = IF 2 * x >= Byte^r THEN 2^W - Byte^r + x ELSE x
  <1> DEFINE q == Smaller(n, r)
             x == z % Byte^q
             R == Byte^r
             T == 2^W
  <1>1. q \in {1, 2, 4} /\ q <= r
    BY DEF Smaller
  <1>2. x \in 0..Byte^q-1 /\ Byte^q \in Nat \ {0}
    <2>1. Byte^q \in Nat \ {0}
      BY <1>1, PowerOrder
    <2> HIDE DEF q
    <2> QED
      BY <2>1, DivMod
  <1>3. R \in Nat \ {0} /\ R <= T /\ Byte^q <= R /\ T \in Nat
    BY <1>1, PowerOrder, WordSize
  <1> HIDE DEF x, R, T, q
  <1>4. x \in 0..R-1
    BY <1>2, <1>3
  <1>5. x % R = x
    BY <1>3, <1>4, ModSmall
  <1>6. Wrap(x - R) = T - R + x
    <2>1. (x - R) + 1 * T = T - R + x /\ x - R \in Int /\ T - R + x \in Nat /\ T - R + x < T
      BY <1>3, <1>4
    <2>2. T - R + x \in Word
      BY <2>1, WordSize DEF T
    <2>3. Wrap((x - R) + 1 * T) = Wrap(x - R)
      BY <2>1, WrapFacts DEF T
    <2> QED
      BY <2>1, <2>2, <2>3, WrapFacts
  <1>7. Extend(x, r) = IF 2 * x >= R THEN T - R + x ELSE x
    BY <1>5, <1>6 DEF Extend, R
  <1> QED
    BY <1>4, <1>7 DEF x, R, T, q

(* The lane l of block b writes to the shared memory and reads there.      *)
SharedCase(b, l) ==
    LET i == At(b, 1)
        j == At(b, 2)
        a == Reg(b, i.base, l)
    IN  /\ Len(program.code[b]) = 2 /\ i.op \in WriteOps /\ j.op \in ReadOps
        /\ l \in program.active[b] /\ Reg(b, j.base, l) = a
        /\ \A m \in program.active[b] \ {l} : Apart(Reg(b, i.base, m), WriteLDS(i.op), a, 4)
        /\ \A c \in a..a+3 : c \notin DOMAIN Start(b).shared

SharedResult(b, l) ==
    LET i == At(b, 1)
        j == At(b, 2)
        x == Reg(b, i.data, l) % Byte^Smaller(WriteLDS(i.op), ReadLDS(j.op))
        sign == j.op \in {"D_READ_I8", "D_READ_I16"} /\ 2 * x >= Byte^ReadLDS(j.op)
    IN  IF sign THEN 2^W - Byte^ReadLDS(j.op) + x ELSE x

SharedInv(b) ==
    \A l \in Lanes :
        LET i == At(b, 1)
            a == Reg(b, i.base, l)
        IN  SharedCase(b, l) =>
              /\ ~Executed(b, 1, l) => \A y \in a..a+3 : ByteAt(shared[b], y) = 0
              /\ Executed(b, 1, l) => \A y \in a..a+3 :
                    ByteAt(shared[b], y) =
                        IF y < a + WriteLDS(i.op) THEN Digit(Reg(b, i.data, l), y - a) ELSE 0
              /\ Executed(b, 2, l) => v[b][At(b, 2).data][l] = SharedResult(b, l)

LEMMA SharedInvStep ==
    ASSUME ControlInv, MemoryInv, NEW b \in Blocks, Execute(b), StepFacts(b), RegistersInv(b),
           \A c \in Blocks : SharedInv(c)
    PROVE  \A c \in Blocks : SharedInv(c)'
  <1>1. program' = program /\ ~Ended(b) /\ (\A c \in Blocks : c # b => Kept(c))
        /\ program \in Programs /\ (Stays(b) \/ Finishes(b)) /\ Bytes(shared[b])
    BY DEF StepFacts, ControlInv, MemoryInv
  <1>2. /\ \A c, k : At(c, k)' = At(c, k)
        /\ \A c, r, l : Reg(c, r, l)' = Reg(c, r, l)
        /\ \A c, l : SharedCase(c, l)' <=> SharedCase(c, l)
        /\ \A c, l : SharedResult(c, l)' = SharedResult(c, l)
    BY <1>1, Rigid DEF SharedCase, SharedResult
  <1>3. ASSUME NEW c \in Blocks, c # b PROVE SharedInv(c)'
    <2>1. \A k, m : Executed(c, k, m)' <=> Executed(c, k, m)
      BY <1>3, StepEffects
    <2>2. shared'[c] = shared[c] /\ v'[c] = v[c] /\ SharedInv(c)
      BY <1>1, <1>3 DEF Kept
    <2> QED
      BY <1>2, <2>1, <2>2 DEF SharedInv
  <1>4. SharedInv(b)'
    <2> DEFINE i == At(b, 1)
               j == At(b, 2)
               n == WriteLDS(i.op)
               r == ReadLDS(j.op)
               q == NextLane(b)
    <2> SUFFICES ASSUME NEW l \in Lanes, SharedCase(b, l)
                 PROVE  LET a == Reg(b, i.base, l)
                            x == Reg(b, i.data, l)
                        IN  /\ ~Executed(b, 1, l)' => \A y \in a..a+3 : ByteAt(shared'[b], y) = 0
                            /\ Executed(b, 1, l)' => \A y \in a..a+3 :
                                  ByteAt(shared'[b], y) = IF y < a + n THEN Digit(x, y - a) ELSE 0
                            /\ Executed(b, 2, l)' => v'[b][j.data][l] = SharedResult(b, l)
      BY <1>2 DEF SharedInv
    <2> DEFINE a == Reg(b, i.base, l)
               x == Reg(b, i.data, l)
    <2>1. /\ Len(program.code[b]) = 2 /\ i.op \in WriteOps /\ j.op \in ReadOps
          /\ l \in program.active[b] /\ Reg(b, j.base, l) = a
          /\ \A m \in program.active[b] \ {l} : Apart(Reg(b, i.base, m), n, a, 4)
      BY DEF SharedCase
    <2>2. /\ ~Executed(b, 1, l) => \A y \in a..a+3 : ByteAt(shared[b], y) = 0
          /\ Executed(b, 1, l) => \A y \in a..a+3 :
                ByteAt(shared[b], y) = IF y < a + n THEN Digit(x, y - a) ELSE 0
          /\ Executed(b, 2, l) => v[b][j.data][l] = SharedResult(b, l)
      BY DEF SharedInv
    <2>3. /\ pc[b] \in 1..2 /\ Inst(b) = At(b, pc[b]) /\ q \in program.active[b] /\ q \in Lanes
          /\ i.op \notin SLSOps /\ j.op \notin SLSOps /\ i.op \notin GlobalOps /\ j.op \notin GlobalOps
      BY <1>1, <2>1, NextFacts, OpSets DEF Lanewise
    <2>4. RegistersExist(i) /\ RegistersExist(j)
      <3>1. 1 \in 1..2 /\ 2 \in 1..2
        OBVIOUS
      <3> QED
        BY <1>1, <2>1, <3>1, ProgramFacts
    <2>5. i.base \in 0..MaxV /\ i.data \in 0..MaxV /\ j.base \in 0..MaxV /\ j.data \in 0..MaxV
      BY <2>3, <2>4 DEF RegistersExist
    <2>6. l \in Taking(b, 1) /\ l \in Taking(b, 2)
      BY <2>1, <2>3 DEF Taking
    <2>7. /\ \A k \in {1, 2} : Executed(b, k, l)' => Executed(b, k, l) \/ (k = pc[b] /\ l = q)
          /\ \A k \in {1, 2} : Executed(b, k, l) => Executed(b, k, l)'
          /\ ~Executed(b, pc[b], q)
          /\ Stays(b) => \A k, m : Executed(b, k, m)' <=> Executed(b, k, m)
          /\ Finishes(b) => \A k, m : k = pc[b] /\ m = NextLane(b) => Executed(b, k, m)'
          /\ \A rr \in 0..MaxV : \A m \in Lanes : m # q => v'[b][rr][m] = v[b][rr][m]
      <3>1. 1 \in 1..Len(program.code[b]) /\ 2 \in 1..Len(program.code[b]) /\ 1 \in Nat /\ 2 \in Nat
        BY <2>1
      <3> QED
        BY <2>6, <3>1, StepEffects
    <2>8. a \in Int /\ x \in Int /\ n \in {1, 2, 4} /\ r \in {1, 2, 4}
      BY SMTT(30), <1>1, <2>1, <2>5, ProgramFacts, WordSize, OpSizes
    <2>9. Quiet(b)
      <3>1. \A k \in 1..2 : k < 2 => k = 1
        OBVIOUS
      <3> QED
        BY <2>1, <3>1 DEF Quiet
    <2>10. /\ pc[b] = 1 => \A rr \in 0..MaxV : v[b][rr][q] = Reg(b, rr, q)
           /\ ~Executed(b, 2, l) => \A rr \in 0..MaxV : v[b][rr][l] = Reg(b, rr, l)
      <3>1. pc[b] = 1 => ~Executed(b, 2, q)
        BY DEF Executed
      <3> QED
        BY <2>1, <2>3, <2>9, <3>1 DEF RegistersInv
    <2>11. CASE Stays(b)
      <3>1. v' = v /\ shared' = shared
        BY <2>11 DEF Stays
      <3> HIDE DEF a, x, n, i, j, q
      <3> QED
        BY <2>2, <2>7, <2>11, <3>1 DEF a, x, n, i, j
    <2>12. CASE Finishes(b) /\ pc[b] = 1
      <3> DEFINE aq == Reg(b, i.base, q)
                 xq == Reg(b, i.data, q)
      <3>1. shared' = [shared EXCEPT ![b] = Put(shared[b], v[b][i.base][q], n, v[b][i.data][q])]
        BY <2>1, <2>3, <2>12 DEF Finishes
      <3>2. v[b][i.base][q] = aq /\ v[b][i.data][q] = xq
        BY <2>5, <2>10, <2>12
      <3>3. shared'[b] = Put(shared[b], aq, n, xq)
        BY <3>1, <3>2 DEF MemoryInv
      <3>4. aq \in Int /\ n \in Nat
        <4>1. aq \in Word
          BY <1>1, <2>3, <2>5, ProgramFacts
        <4> QED
          BY <2>8, <4>1, WordSize
      <3>5. ~Executed(b, 2, l)'
        BY <2>7, <2>12 DEF Executed
      <3>6. CASE q = l
        <4>1. ~Executed(b, 1, l) /\ Executed(b, 1, l)'
          BY <2>7, <2>12, <3>6
        <4>2. \A y \in a..a+3 : ByteAt(shared'[b], y) = IF y < a + n THEN Digit(x, y - a) ELSE 0
          <5> SUFFICES ASSUME NEW y \in a..a+3
                       PROVE  ByteAt(shared'[b], y) = IF y < a + n THEN Digit(x, y - a) ELSE 0
            OBVIOUS
          <5>1. ByteAt(shared[b], y) = 0
            BY <2>2, <4>1
          <5> HIDE DEF a, x, n
          <5>2. aq = a /\ xq = x
            BY <3>6 DEF a, x
          <5>3. y \in a..a+n-1 <=> y < a + n
            BY <2>8
          <5> HIDE DEF aq, xq
          <5> QED
            BY <3>3, <3>4, <5>1, <5>2, <5>3, PutByte
        <4> QED
          BY <3>5, <4>1, <4>2
      <3>7. CASE q # l
        <4>1. Executed(b, 1, l)' <=> Executed(b, 1, l)
          BY <2>7, <3>7
        <4>2. Apart(aq, n, a, 4)
          BY <2>1, <2>3, <3>7
        <4>3. \A y \in a..a+3 : ByteAt(shared'[b], y) = ByteAt(shared[b], y)
          <5>1. a+4-1 = a+3 /\ a \in Int /\ 4 \in Nat
            BY <2>8
          <5> HIDE DEF a, aq, xq, n
          <5>2. \A y \in a..a+3 : y \notin aq..aq+n-1
            BY <3>4, <4>2, <5>1 DEF Apart
          <5> QED
            BY <3>3, <3>4, <5>2, PutByte
        <4> HIDE DEF a, x, n
        <4> QED
          BY <2>2, <3>5, <4>1, <4>3 DEF a, x, n
      <3> QED
        BY <3>6, <3>7
    <2>13. CASE Finishes(b) /\ pc[b] = 2
      <3>1. shared' = shared
        BY <2>1, <2>3, <2>13, OpSets DEF Finishes
      <3>2. Executed(b, 1, l) /\ Executed(b, 1, l)'
        BY <2>7, <2>13 DEF Executed
      <3>3. Executed(b, 2, l)' => v'[b][j.data][l] = SharedResult(b, l)
        <4> SUFFICES ASSUME Executed(b, 2, l)' PROVE v'[b][j.data][l] = SharedResult(b, l)
          OBVIOUS
        <4>1. CASE l # q
          BY <2>2, <2>5, <2>7, <4>1
        <4>2. CASE l = q
          <5> DEFINE y == Get(shared[b], a, r)
                     z == x % Byte^Smaller(n, r)
          <5>1. ~Executed(b, 2, l)
            BY <2>7, <2>13, <4>2
          <5>2. v[b][j.base][l] = a
            BY <2>1, <2>5, <2>10, <5>1
          <5>3. ExecuteDLS(b) /\ Inst(b) = j
            BY <2>1, <2>3, <2>13, Dispatch DEF Lanewise
          <5>4. \/ Abort(b)
                \/ v'[b][j.data][l] = IF j.op \in {"D_READ_I8", "D_READ_I16"}
                                      THEN Extend(y, r) ELSE y
            BY <1>1, <2>1, <4>2, <5>2, <5>3, ExecuteDLSStep
          <5>5. ~Abort(b)
            BY <5>1, <2>7, <2>13, <4>2 DEF Abort, Executed
          <5>6. y = z
            <6> HIDE DEF a, x, n, r
            <6> QED
              BY ZenonT(30), <1>1, <2>2, <2>8, <3>2, GetLow
          <5>7. Extend(z, r) = IF 2 * z >= Byte^r THEN 2^W - Byte^r + z ELSE z
            <6> HIDE DEF a, x, n, r
            <6> QED
              BY <2>8, ExtendLow
          <5>8. SharedResult(b, l) = IF j.op \in {"D_READ_I8", "D_READ_I16"} /\ 2 * z >= Byte^r
                                     THEN 2^W - Byte^r + z ELSE z
            BY DEF SharedResult
          <5> HIDE DEF y, z
          <5> QED
            BY <5>4, <5>5, <5>6, <5>7, <5>8
        <4> QED
          BY <4>1, <4>2
      <3> HIDE DEF a, x, n
      <3> QED
        BY <2>2, <3>1, <3>2, <3>3 DEF a, x, n
    <2> QED
      BY <1>1, <2>3, <2>11, <2>12, <2>13
  <1> QED
    BY <1>3, <1>4
-----------------------------------------------------------------------------
(* Bytes that one lane alone writes.                                       *)
Private(b, l, a, n) ==
    \A c \in Blocks :
        Steady(c) /\ \A m \in program.active[c] : ~(c = b /\ m = l) => Spares(c, m, a, n)

(* A step that is not one of lane l of block c.                            *)
LEMMA OtherLane ==
    ASSUME ControlInv, MemoryInv, NEW b \in Blocks, StepFacts(b), RegistersInv(b), WorkInv(b),
           NEW c \in Blocks, NEW l \in Lanes, ~(b = c /\ NextLane(b) = l)
    PROVE  /\ \A k \in 1..Len(program.code[c]) :
                 l \in Taking(c, k) => (Executed(c, k, l)' <=> Executed(c, k, l))
           /\ \A r \in 0..MaxV : v'[c][r][l] = v[c][r][l]
           /\ \A a \in Int, n \in Nat : Private(c, l, a, n) =>
                 /\ \A y \in a..a+n-1 : ByteAt(mem', y) = ByteAt(mem, y)
                 /\ Get(mem', a, n) = Get(mem, a, n)
  <1>1. program' = program /\ ~Ended(b) /\ (\A d \in Blocks : d # b => Kept(d))
    BY DEF StepFacts
  <1>2. NextLane(b) \in program.active[b]
    BY <1>1, NextFacts
  <1>3. ASSUME NEW a \in Int, NEW n \in Nat, Private(c, l, a, n)
        PROVE  /\ \A y \in a..a+n-1 : ByteAt(mem', y) = ByteAt(mem, y)
               /\ Get(mem', a, n) = Get(mem, a, n)
    <2>1. Steady(b) /\ Spares(b, NextLane(b), a, n)
      BY <1>2, <1>3 DEF Private
    <2> QED
      BY <2>1, Spared
  <1>4. \A r \in 0..MaxV : v'[c][r][l] = v[c][r][l]
    <2>1. CASE c = b
      BY <2>1, StepEffects
    <2>2. CASE c # b
      BY <1>1, <2>2 DEF Kept
    <2> QED
      BY <2>1, <2>2
  <1>5. ASSUME NEW k \in 1..Len(program.code[c]), l \in Taking(c, k)
        PROVE  Executed(c, k, l)' <=> Executed(c, k, l)
    <2>1. CASE c = b
      <3>1. k \in Nat
        OBVIOUS
      <3> QED
        BY <1>5, <2>1, <3>1, StepEffects
    <2>2. CASE c # b
      BY <2>2, StepEffects
    <2> QED
      BY <2>1, <2>2
  <1> QED
    BY <1>3, <1>4, <1>5

(* A step of lane l itself: it finishes instruction k or does not yet.     *)
LEMMA OwnLane ==
    ASSUME ControlInv, MemoryInv, NEW b \in Blocks, StepFacts(b), NEW l \in Lanes, NextLane(b) = l
    PROVE  /\ pc[b] \in 1..Len(program.code[b]) /\ Inst(b) = At(b, pc[b])
           /\ \A k \in 1..Len(program.code[b]) :
                 /\ k < pc[b] => Executed(b, k, l) /\ Executed(b, k, l)'
                 /\ k > pc[b] /\ l \in Taking(b, k) => ~Executed(b, k, l) /\ ~Executed(b, k, l)'
                 /\ k = pc[b] => ~Executed(b, k, l)
                 /\ k = pc[b] /\ Executed(b, k, l)' => Finishes(b)
                 /\ k = pc[b] /\ Finishes(b) => Executed(b, k, l)'
           /\ Stays(b) \/ Finishes(b)
           /\ Stays(b) => mem' = mem /\ v' = v
  <1>1. program' = program /\ ~Ended(b) /\ (Stays(b) \/ Finishes(b))
    BY DEF StepFacts
  <1>2. pc[b] \in 1..Len(program.code[b]) /\ Inst(b) = At(b, pc[b]) /\ Len(program.code[b]) \in Nat
    BY <1>1, NextFacts
  <1>3. /\ ~Executed(b, pc[b], l)
        /\ \A k \in 1..Len(program.code[b]) : \A m \in Taking(b, k) :
                 Executed(b, k, m)' => Executed(b, k, m) \/ (k = pc[b] /\ m = NextLane(b))
        /\ \A k \in Nat : \A m : Executed(b, k, m) => Executed(b, k, m)'
        /\ Stays(b) => \A k, m : Executed(b, k, m)' <=> Executed(b, k, m)
        /\ Finishes(b) => \A k, m : k = pc[b] /\ m = NextLane(b) => Executed(b, k, m)'
    BY StepEffects
  <1>4. ASSUME NEW k \in 1..Len(program.code[b])
        PROVE  /\ k < pc[b] => Executed(b, k, l) /\ Executed(b, k, l)'
               /\ k > pc[b] /\ l \in Taking(b, k) => ~Executed(b, k, l) /\ ~Executed(b, k, l)'
               /\ k = pc[b] => ~Executed(b, k, l)
               /\ k = pc[b] /\ Executed(b, k, l)' => Finishes(b)
               /\ k = pc[b] /\ Finishes(b) => Executed(b, k, l)'
    <2>1. k < pc[b] => Executed(b, k, l)
      BY DEF Executed
    <2>2. k > pc[b] => ~Executed(b, k, l)
      BY <1>2 DEF Executed
    <2>3. k \in Nat /\ (k > pc[b] => k # pc[b])
      BY <1>2
    <2> QED
      BY <1>1, <1>3, <2>1, <2>2, <2>3
  <1>5. Stays(b) => mem' = mem /\ v' = v
    BY DEF Stays
  <1> QED
    BY <1>1, <1>2, <1>4, <1>5

(* The digits of one number laid over another.                             *)
LEMMA LowDigit ==
    ASSUME NEW n \in {1, 2, 4}, NEW j \in 0..3, j < n, NEW u \in Int, NEW k \in Int
    PROVE  Digit(u + k * Byte^n, j) = Digit(u, j)
  <1> DEFINE B == Byte
             p == Byte^j
             e == Byte^(n - j - 1)
  <1>1. B \in Nat \ {0} /\ p \in Nat \ {0} /\ e \in Nat \ {0} /\ Byte^n = (e * B) * p
    <2>1. /\ Byte \in Nat \ {0} /\ Byte^1 = Byte /\ Byte^2 \in Nat \ {0} /\ Byte^3 \in Nat \ {0}
          /\ Byte^2 = Byte * Byte /\ Byte^3 = Byte * Byte^2 /\ Byte^4 = Byte * Byte^3
          /\ Byte^4 \in Nat \ {0} /\ Byte^0 = 1
      BY ByteSize
    <2>2. /\ n = 1 => j = 0 /\ n - j - 1 = 0
          /\ n = 2 => (j = 0 /\ n - j - 1 = 1) \/ (j = 1 /\ n - j - 1 = 0)
          /\ n = 4 => (j = 0 /\ n - j - 1 = 3) \/ (j = 1 /\ n - j - 1 = 2) \/ (j = 2 /\ n - j - 1 = 1)
                       \/ (j = 3 /\ n - j - 1 = 0)
      OBVIOUS
    <2>3. CASE n = 1
      BY <2>1, <2>2, <2>3
    <2>4. CASE n = 2
      BY <2>1, <2>2, <2>4
    <2>5. CASE n = 4
      <3>1. CASE j = 0 /\ n - j - 1 = 3
        BY <2>1, <2>5, <3>1
      <3>2. CASE j = 1 /\ n - j - 1 = 2
        BY <2>1, <2>5, <3>2
      <3>3. CASE j = 2 /\ n - j - 1 = 1
        BY <2>1, <2>5, <3>3
      <3>4. CASE j = 3 /\ n - j - 1 = 0
        BY <2>1, <2>5, <3>4
      <3> QED
        BY <2>2, <2>5, <3>1, <3>2, <3>3, <3>4
    <2> QED
      BY <2>3, <2>4, <2>5
  <1> HIDE DEF B, p, e
  <1> DEFINE t == k * (e * B)
             ke == k * e
  <1>2. t \in Int /\ ke \in Int /\ t = ke * B /\ k * ((e * B) * p) = t * p
    BY <1>1
  <1> HIDE DEF t, ke
  <1>3. (u + t * p) \div p = (u \div p) + t
    BY <1>1, <1>2, DivShift
  <1>4. u \div p \in Int
    BY <1>1, DivMod
  <1> DEFINE w == u \div p
  <1> HIDE DEF w
  <1>5. (w + ke * B) % B = w % B
    BY <1>1, <1>2, <1>4, ModShift DEF w
  <1> QED
    BY <1>1, <1>2, <1>3, <1>5 DEF Digit, B, p, w

LEMMA HighDigit ==
    ASSUME NEW n \in {1, 2, 4}, NEW j \in 0..3, j >= n, NEW x \in Int, NEW y \in Int,
           x \div Byte^n = y \div Byte^n
    PROVE  Digit(x, j) = Digit(y, j)
  <1> DEFINE p == Byte^n
             e == Byte^(j - n)
  <1>1. p \in Nat \ {0} /\ e \in Nat \ {0} /\ Byte^j = p * e
    <2>1. /\ Byte \in Nat \ {0} /\ Byte^1 = Byte /\ Byte^2 \in Nat \ {0} /\ Byte^3 \in Nat \ {0}
          /\ Byte^2 = Byte * Byte /\ Byte^3 = Byte * Byte^2 /\ Byte^0 = 1
      BY ByteSize
    <2>2. \/ n = 1 /\ j = 1 /\ j - n = 0
          \/ n = 1 /\ j = 2 /\ j - n = 1
          \/ n = 1 /\ j = 3 /\ j - n = 2
          \/ n = 2 /\ j = 2 /\ j - n = 0
          \/ n = 2 /\ j = 3 /\ j - n = 1
      OBVIOUS
    <2> QED
      BY <2>1, <2>2
  <1> HIDE DEF p, e
  <1>2. x \div (p * e) = (x \div p) \div e /\ y \div (p * e) = (y \div p) \div e
    BY <1>1, DivDiv
  <1> QED
    BY <1>1, <1>2 DEF Digit, p

Overlay(h, i, n) == (h \div Byte^n) * Byte^n + (i % Byte^n)

LEMMA OverlayDigits ==
    ASSUME NEW n \in {1, 2, 4}, NEW h \in Int, NEW i \in Int
    PROVE  /\ Overlay(h, i, n) \in Int
           /\ \A j \in 0..3 : Digit(Overlay(h, i, n), j) = IF j < n THEN Digit(i, j) ELSE Digit(h, j)
  <1> DEFINE p == Byte^n
             q == h \div p
             r == i % p
             d == i \div p
             x == q * p + r
  <1>1. p \in Nat \ {0}
    BY ByteSize
  <1>2. q \in Int /\ r \in 0..p-1 /\ d \in Int /\ i = d * p + r
    <2> HIDE DEF p
    <2> QED
      BY <1>1, DivMod
  <1>3. Overlay(h, i, n) = x
    BY DEF Overlay
  <1> HIDE DEF q, r, d
  <1>4. x \in Int /\ x = r + q * p /\ i = r + d * p /\ r \in Int
    <2> HIDE DEF p
    <2> QED
      BY <1>1, <1>2
  <1>5. ASSUME NEW j \in 0..3, j < n PROVE Digit(x, j) = Digit(i, j)
    <2>1. Digit(r + q * p, j) = Digit(r, j) /\ Digit(r + d * p, j) = Digit(r, j)
      BY <1>2, <1>4, <1>5, LowDigit
    <2> QED
      BY <1>4, <2>1
  <1>6. ASSUME NEW j \in 0..3, j >= n PROVE Digit(x, j) = Digit(h, j)
    <2>1. x \div p = q
      <3>1. q * p <= x /\ x < q * p + p
        <4> DEFINE qp == q * p
        <4>1. qp \in Int
          BY <1>1, <1>2
        <4> HIDE DEF qp, p
        <4> QED
          BY <1>1, <1>2, <4>1 DEF qp
      <3> HIDE DEF p, x
      <3> QED
        BY <1>1, <1>2, <1>4, <3>1, DivUnique
    <2> HIDE DEF x
    <2> QED
      BY <1>4, <1>6, <2>1, HighDigit DEF q
  <1> QED
    BY <1>3, <1>4, <1>5, <1>6

(* VLS: a word, a store over it and a load.                                *)
LoadsCase(b, l) ==
    LET h == At(b, 1)
        i == At(b, 2)
        j == At(b, 3)
        a == Place(b, h, l)
    IN  /\ Len(program.code[b]) = 3 /\ h.op = "V_STORE_U32" /\ i.op \in StoreOps /\ j.op \in LoadOps
        /\ l \in program.active[b] /\ Place(b, i, l) = a /\ Place(b, j, l) = a
        /\ Private(b, l, a, 4)

Overlaid(b, l) ==
    Overlay(Reg(b, At(b, 1).data, l), Reg(b, At(b, 2).data, l), StoreBytes(At(b, 2).op))

LoadsInv(b) ==
    \A l \in Lanes :
        LET a == Place(b, At(b, 1), l)
        IN  LoadsCase(b, l) =>
              /\ Executed(b, 1, l) /\ ~Executed(b, 2, l) =>
                    \A y \in a..a+3 : ByteAt(mem, y) = Digit(Reg(b, At(b, 1).data, l), y - a)
              /\ Executed(b, 2, l) => \A y \in a..a+3 : ByteAt(mem, y) = Digit(Overlaid(b, l), y - a)
              /\ Executed(b, 3, l) =>
                    v[b][At(b, 3).data][l] = Overlaid(b, l) % Byte^LoadBytes(At(b, 3).op)

LEMMA LoadsInvStep ==
    ASSUME ControlInv, MemoryInv, NEW b \in Blocks, Execute(b), StepFacts(b),
           RegistersInv(b), WorkInv(b), \A c \in Blocks : LoadsInv(c)
    PROVE  \A c \in Blocks : LoadsInv(c)'
  <1>1. program' = program /\ ~Ended(b) /\ program \in Programs /\ Bytes(mem)
    BY DEF StepFacts, ControlInv, MemoryInv
  <1>2. /\ \A c, k : At(c, k)' = At(c, k)
        /\ \A c, r, l : Reg(c, r, l)' = Reg(c, r, l)
        /\ \A c, i, l : Place(c, i, l)' = Place(c, i, l)
        /\ \A c, l, a, n : Private(c, l, a, n)' <=> Private(c, l, a, n)
    BY <1>1, Rigid DEF Private
  <1>3. \A c, l : /\ (LoadsCase(c, l)' <=> LoadsCase(c, l)) /\ Overlaid(c, l)' = Overlaid(c, l)
                  /\ Place(c, At(c, 1), l)' = Place(c, At(c, 1), l)
    BY <1>1, <1>2 DEF LoadsCase, Overlaid
  <1> SUFFICES ASSUME NEW c \in Blocks, NEW l \in Lanes, LoadsCase(c, l)
               PROVE  LET a == Place(c, At(c, 1), l)
                      IN  /\ Executed(c, 1, l)' /\ ~Executed(c, 2, l)' => \A y \in a..a+3 :
                                ByteAt(mem', y) = Digit(Reg(c, At(c, 1).data, l), y - a)
                          /\ Executed(c, 2, l)' => \A y \in a..a+3 :
                                ByteAt(mem', y) = Digit(Overlaid(c, l), y - a)
                          /\ Executed(c, 3, l)' =>
                                v'[c][At(c, 3).data][l] = Overlaid(c, l) % Byte^LoadBytes(At(c, 3).op)
    BY <1>2, <1>3 DEF LoadsInv
  <1> DEFINE h == At(c, 1)
             i == At(c, 2)
             j == At(c, 3)
             a == Place(c, h, l)
             H == Reg(c, h.data, l)
             I == Reg(c, i.data, l)
             n == StoreBytes(i.op)
             X == Overlaid(c, l)
  <1>4. /\ Len(program.code[c]) = 3 /\ h.op = "V_STORE_U32" /\ i.op \in StoreOps /\ j.op \in LoadOps
        /\ l \in program.active[c] /\ Place(c, i, l) = a /\ Place(c, j, l) = a
        /\ Private(c, l, a, 4)
    BY DEF LoadsCase
  <1>5. /\ Executed(c, 1, l) /\ ~Executed(c, 2, l) => \A y \in a..a+3 : ByteAt(mem, y) = Digit(H, y - a)
        /\ Executed(c, 2, l) => \A y \in a..a+3 : ByteAt(mem, y) = Digit(X, y - a)
        /\ Executed(c, 3, l) => v[c][j.data][l] = X % Byte^LoadBytes(j.op)
    BY DEF LoadsInv
  <1>6. 1 \in 1..3 /\ 2 \in 1..3 /\ 3 \in 1..3
    OBVIOUS
  <1>7. /\ h.op \in StoreOps /\ StoreBytes(h.op) = 4
        /\ h.op \in Writers /\ i.op \in Writers /\ j.op \notin Writers
        /\ h.op \notin SLSOps /\ i.op \notin SLSOps /\ j.op \notin SLSOps
        /\ h.op \in VLSOps /\ i.op \in VLSOps /\ j.op \in VLSOps
    <2>1. "V_STORE_U32" \in StoreOps /\ StoreBytes("V_STORE_U32") = 4
      BY DEF StoreOps, StoreBytes
    <2> QED
      BY <1>4, <2>1, OpSets DEF Writers
  <1>8. RegistersExist(h) /\ RegistersExist(i) /\ RegistersExist(j)
    BY <1>1, <1>4, <1>6, ProgramFacts
  <1>9. /\ h.data \in 0..MaxV /\ i.data \in 0..MaxV /\ j.data \in 0..MaxV
        /\ n \in {1, 2, 4} /\ LoadBytes(j.op) \in {1, 2, 4}
    BY <1>4, <1>7, <1>8, OpSizes DEF RegistersExist
  <1>10. H \in Word /\ I \in Word /\ H \in Int /\ I \in Int
    BY <1>1, <1>9, ProgramFacts, WordSize
  <1>11. a \in Int
    <2>1. Steady(c)
      BY <1>4 DEF Private
    <2> QED
      BY <1>1, <1>4, <1>6, <1>7, <2>1, PlaceType
  <1>12. X \in Int /\ \A k \in 0..3 : Digit(X, k) = IF k < n THEN Digit(I, k) ELSE Digit(H, k)
    <2> HIDE DEF H, I, n
    <2>1. Overlay(H, I, n) \in Int
           /\ \A k \in 0..3 : Digit(Overlay(H, I, n), k) = IF k < n THEN Digit(I, k) ELSE Digit(H, k)
      BY <1>9, <1>10, OverlayDigits
    <2>2. X = Overlay(H, I, n)
      BY DEF Overlaid, H, I, n
    <2> QED
      BY <2>1, <2>2
  <1>13. Taking(c, 1) = program.active[c] /\ Taking(c, 2) = program.active[c]
         /\ Taking(c, 3) = program.active[c]
    BY <1>7 DEF Taking
  <1>14. Steady(c)
    BY <1>4 DEF Private
  <1>15. CASE ~(b = c /\ NextLane(b) = l)
    <2>1. /\ \A k \in 1..3 : Executed(c, k, l)' <=> Executed(c, k, l)
          /\ v'[c][j.data][l] = v[c][j.data][l]
      <3>1. \A k \in 1..3 : l \in Taking(c, k)
        BY <1>4, <1>13
      <3> QED
        BY <1>4, <1>9, <1>15, <3>1, OtherLane
    <2>2. \A y \in a..a+3 : ByteAt(mem', y) = ByteAt(mem, y)
      <3>1. 4 \in Nat /\ a+4-1 = a+3
        BY <1>11
      <3>2. \A k \in Nat : Private(c, l, a, k) => \A y \in a..a+k-1 : ByteAt(mem', y) = ByteAt(mem, y)
        BY <1>11, <1>15, OtherLane
      <3> HIDE DEF a
      <3> QED
        BY <1>4, <3>1, <3>2
    <2> HIDE DEF a, h, i, j, H, I, X
    <2> QED
      BY <1>5, <1>6, <2>1, <2>2 DEF a, h, i, j, H, I, X
  <1>16. CASE b = c /\ NextLane(b) = l
    <2>1. /\ pc[c] \in 1..3 /\ Inst(c) = At(c, pc[c])
          /\ \A k \in 1..3 :
                 /\ k < pc[c] => Executed(c, k, l) /\ Executed(c, k, l)'
                 /\ k > pc[c] => ~Executed(c, k, l) /\ ~Executed(c, k, l)'
                 /\ k = pc[c] => ~Executed(c, k, l)
                 /\ k = pc[c] /\ Executed(c, k, l)' => Finishes(c)
                 /\ k = pc[c] /\ Finishes(c) => Executed(c, k, l)'
          /\ Stays(c) \/ Finishes(c)
          /\ Stays(c) => mem' = mem /\ v' = v
      <3>1. \A k \in 1..3 : l \in Taking(c, k)
        BY <1>4, <1>13
      <3> QED
        BY <1>4, <1>16, <3>1, OwnLane
    <2>2. /\ Finishes(c) /\ Inst(c).op \in StoreOps =>
                mem' = Put(mem, Place(c, Inst(c), l), StoreBytes(Inst(c).op), Reg(c, Inst(c).data, l))
      <3>1. Inst(c).op \in StoreOps => Inst(c).op \in Writers /\ WriterBytes(Inst(c).op) = StoreBytes(Inst(c).op)
        BY DEF Writers, WriterBytes
      <3> QED
        BY <1>14, <1>16, <3>1, SteadyWrite
    <2>3. CASE pc[c] = 1
      <3>1. Inst(c) = h /\ ~Executed(c, 2, l)' /\ ~Executed(c, 3, l)'
        BY <2>1, <2>3
      <3>2. ASSUME Finishes(c), NEW y \in a..a+3 PROVE ByteAt(mem', y) = Digit(H, y - a)
        <4>1. mem' = Put(mem, a, 4, H)
          BY <1>7, <2>2, <3>1, <3>2
        <4>2. y \in a..a+4-1 /\ 4 \in Nat
          BY <1>11
        <4> HIDE DEF a, H
        <4> QED
          BY <1>11, <4>1, <4>2, PutByte
      <3> QED
        BY <1>6, <2>1, <2>3, <3>1, <3>2
    <2>4. CASE pc[c] = 2
      <3>1. Inst(c) = i /\ Executed(c, 1, l) /\ ~Executed(c, 2, l) /\ ~Executed(c, 3, l)'
        BY <2>1, <2>4
      <3>2. ASSUME Finishes(c), NEW y \in a..a+3 PROVE ByteAt(mem', y) = Digit(X, y - a)
        <4>1. mem' = Put(mem, a, n, I)
          BY <1>4, <2>2, <3>1, <3>2
        <4>2. ByteAt(mem, y) = Digit(H, y - a)
          BY <1>5, <3>1
        <4>3. y - a \in 0..3 /\ n \in Nat /\ (y \in a..a+n-1 <=> y - a < n)
          BY <1>9, <1>11
        <4> HIDE DEF a, H, I, X, n
        <4> QED
          BY <1>11, <1>12, <4>1, <4>2, <4>3, PutByte
      <3>3. Executed(c, 2, l)' => Finishes(c)
        BY <1>6, <2>1, <2>4
      <3>4. ~Executed(c, 2, l)' => mem' = mem
        BY <1>6, <2>1, <2>4
      <3> HIDE DEF a, H, X
      <3> QED
        BY <1>5, <3>1, <3>2, <3>3, <3>4 DEF a, H, X
    <2>5. CASE pc[c] = 3
      <3>1. Inst(c) = j /\ Executed(c, 2, l) /\ Executed(c, 2, l)' /\ ~Executed(c, 3, l)
        BY <2>1, <2>5
      <3>2. mem' = mem
        BY <1>7, <2>1, <3>1 DEF Finishes
      <3>3. ASSUME Executed(c, 3, l)' PROVE v'[c][j.data][l] = X % Byte^LoadBytes(j.op)
        <4>1. Finishes(c)
          BY <1>6, <2>1, <2>5, <3>3
        <4>2. ~Begin(b)
          <5>1. Begin(b) => pc' = pc /\ ran' = ran
            BY DEF Begin, Abort
          <5> QED
            BY <1>16, <3>1, <3>3, <5>1 DEF Executed
        <4>3. VectorLoad(b)
          BY <1>4, <1>16, <3>1, <4>2, Dispatch
        <4>4. v'[c][j.data][l] = Get(mem, work[c].at, LoadBytes(j.op)) /\ work[c] # Idle
          BY <1>1, <1>16, <3>1, <4>3, VectorLoadStep DEF VectorLoad, Working
        <4>5. work[c].at = a
          BY <1>4, <1>7, <1>14, <1>16, <3>1, <4>4 DEF WorkInv
        <4>6. \A y \in a..a+3 : ByteAt(mem, y) = Digit(X, y - a)
          BY <1>5, <3>1
        <4> DEFINE r == LoadBytes(j.op)
        <4> HIDE DEF a, X, r
        <4>7. r \in {1, 2, 4}
          BY <1>9 DEF r
        <4>8. \A y \in a..a+r-1 : y \in a..a+3
          BY <1>11, <4>7
        <4>9. Get(mem, a, r) = X % Byte^r
          BY <1>1, <1>11, <1>12, <4>6, <4>7, <4>8, GetDigits
        <4> QED
          BY <4>4, <4>5, <4>9 DEF r
      <3> HIDE DEF a, X
      <3> QED
        BY <1>5, <3>1, <3>2, <3>3 DEF a, X
    <2> QED
      BY <2>1, <2>3, <2>4, <2>5
  <1> QED
    BY <1>15, <1>16

(* VMUBUF: a byte is loaded through the descriptor it was stored through.  *)
BufferCase(b, l) ==
    LET i == At(b, 3)
        j == At(b, 4)
        a == Place(b, i, l)
    IN  /\ Len(program.code[b]) = 4 /\ i.op \in BufferStores /\ j.op = "V_BUFFER_LOAD_SBYTE"
        /\ l \in program.active[b] /\ Place(b, j, l) = a /\ Private(b, l, a, 1)

BufferInv(b) ==
    \A l \in Lanes : BufferCase(b, l) =>
        /\ Executed(b, 3, l) => ByteAt(mem, Place(b, At(b, 3), l)) = Digit(Reg(b, At(b, 3).data, l), 0)
        /\ Executed(b, 4, l) => v[b][At(b, 4).data][l] = Extend(Reg(b, At(b, 3).data, l), 1)

LEMMA FirstByte ==
    ASSUME NEW m, Bytes(m), NEW a \in Int, NEW n \in {1, 4}, NEW x \in Int,
           ByteAt(m, a) = Digit(x, 0)
    PROVE  Extend(Get(m, a, n), 1) = Extend(x, 1)
  <1> DEFINE B == Byte
             d == ByteAt(m, a)
             d1 == ByteAt(m, a + 1)
             d2 == ByteAt(m, a + 2)
             d3 == ByteAt(m, a + 3)
             e == d1 + d2 * B + d3 * Byte^2
             g == Get(m, a, n)
  <1>1. d \in 0..B-1 /\ d1 \in Int /\ d2 \in Int /\ d3 \in Int /\ B \in Nat \ {0} /\ Byte^2 = B * B
         /\ Byte^3 = B * Byte^2 /\ Byte^1 = B
    BY ByteAtType, ByteSize
  <1>2. \E k \in Int : g = d + k * B
    <2>1. CASE n = 1
      <3>1. g = d /\ d = d + 0 * B
        BY <1>1, <2>1, GetForms
      <3> QED
        BY <3>1
    <2>2. CASE n = 4
      <3>1. g = d + d1 * B + d2 * Byte^2 + d3 * Byte^3
        BY <2>2, GetForms
      <3> HIDE DEF d, d1, d2, d3, g, B
      <3>2. g = d + (d1 + d2 * B + d3 * (B * B)) * B /\ d1 + d2 * B + d3 * (B * B) \in Int
        BY <1>1, <3>1
      <3> QED
        BY <3>2
    <2> QED
      BY <2>1, <2>2
  <1>3. g % B = d
    <2>1. PICK k \in Int : g = d + k * B
      BY <1>2
    <2> HIDE DEF d, g, B
    <2>0. d \in 0..B-1 /\ B \in Nat \ {0} /\ d \in Int
      BY <1>1
    <2>2. d \in Int /\ d % B = d
      BY <2>0, ModSmall
    <2>3. (d + k * B) % B = d % B
      BY <2>0, <2>2, ModShift
    <2> QED
      BY <2>1, <2>2, <2>3
  <1>4. x % B = d
    BY <1>1, Digits
  <1> HIDE DEF B, g, d
  <1> QED
    BY <1>1, <1>3, <1>4 DEF Extend, g

LEMMA BufferInvStep ==
    ASSUME ControlInv, MemoryInv, NEW b \in Blocks, Execute(b), StepFacts(b),
           RegistersInv(b), WorkInv(b), \A c \in Blocks : BufferInv(c)
    PROVE  \A c \in Blocks : BufferInv(c)'
  <1>1. program' = program /\ ~Ended(b) /\ program \in Programs /\ Bytes(mem)
    BY DEF StepFacts, ControlInv, MemoryInv
  <1>2. /\ \A c, k : At(c, k)' = At(c, k)
        /\ \A c, r, l : Reg(c, r, l)' = Reg(c, r, l)
        /\ \A c, i, l : Place(c, i, l)' = Place(c, i, l)
        /\ \A c, l, a, n : Private(c, l, a, n)' <=> Private(c, l, a, n)
    BY <1>1, Rigid DEF Private
  <1>3. \A c, l : /\ (BufferCase(c, l)' <=> BufferCase(c, l))
                  /\ Place(c, At(c, 3), l)' = Place(c, At(c, 3), l)
    BY <1>1, <1>2 DEF BufferCase
  <1> SUFFICES ASSUME NEW c \in Blocks, NEW l \in Lanes, BufferCase(c, l)
               PROVE  /\ Executed(c, 3, l)' =>
                            ByteAt(mem', Place(c, At(c, 3), l)) = Digit(Reg(c, At(c, 3).data, l), 0)
                      /\ Executed(c, 4, l)' =>
                            v'[c][At(c, 4).data][l] = Extend(Reg(c, At(c, 3).data, l), 1)
    BY <1>2, <1>3 DEF BufferInv
  <1> DEFINE i == At(c, 3)
             j == At(c, 4)
             a == Place(c, i, l)
             x == Reg(c, i.data, l)
  <1>4. /\ Len(program.code[c]) = 4 /\ i.op \in BufferStores /\ j.op \in BufferLoads
        /\ l \in program.active[c] /\ Place(c, j, l) = a /\ Private(c, l, a, 1)
    BY DEF BufferCase, BufferLoads
  <1>5. /\ Executed(c, 3, l) => ByteAt(mem, a) = Digit(x, 0)
        /\ Executed(c, 4, l) => v[c][j.data][l] = Extend(x, 1)
    BY DEF BufferInv
  <1>6. 1 \in 1..4 /\ 2 \in 1..4 /\ 3 \in 1..4 /\ 4 \in 1..4
    OBVIOUS
  <1>7. /\ i.op \in Writers /\ i.op \in BufferOps /\ i.op \notin SLSOps /\ i.op \notin StoreOps
        /\ j.op \notin Writers /\ j.op \in BufferOps /\ j.op \notin SLSOps
    BY <1>4, OpSets DEF Writers
  <1>8. RegistersExist(i) /\ RegistersExist(j)
    BY <1>1, <1>4, <1>6, ProgramFacts
  <1>9. i.data \in 0..MaxV /\ j.data \in 0..MaxV
    BY <1>7, <1>8 DEF RegistersExist
  <1>10. x \in Word /\ x \in Int
    BY <1>1, <1>9, ProgramFacts, WordSize
  <1>11. Steady(c)
    BY <1>4 DEF Private
  <1>12. a \in Int
    <2>1. 3 \in 1..Len(program.code[c]) /\ At(c, 3).op \in VLSOps \cup BufferOps
      BY <1>4, <1>6, <1>7
    <2> QED
      BY <1>1, <1>11, <2>1, PlaceType
  <1>13. l \in Taking(c, 3) /\ l \in Taking(c, 4)
    BY <1>4, <1>7 DEF Taking
  <1>14. CASE ~(b = c /\ NextLane(b) = l)
    <2>1. /\ Executed(c, 3, l)' <=> Executed(c, 3, l)
          /\ Executed(c, 4, l)' <=> Executed(c, 4, l)
          /\ v'[c][j.data][l] = v[c][j.data][l]
      BY <1>4, <1>6, <1>9, <1>13, <1>14, OtherLane
    <2>2. ByteAt(mem', a) = ByteAt(mem, a)
      <3>1. 1 \in Nat /\ a \in a..a+1-1
        BY <1>12
      <3>2. \A k \in Nat : Private(c, l, a, k) => \A y \in a..a+k-1 : ByteAt(mem', y) = ByteAt(mem, y)
        BY <1>12, <1>14, OtherLane
      <3> HIDE DEF a
      <3> QED
        BY <1>4, <3>1, <3>2
    <2> QED
      BY <1>5, <2>1, <2>2
  <1>15. CASE b = c /\ NextLane(b) = l
    <2>1. /\ pc[c] \in 1..4 /\ Inst(c) = At(c, pc[c])
          /\ \A k \in 3..4 :
                 /\ k < pc[c] => Executed(c, k, l) /\ Executed(c, k, l)'
                 /\ k > pc[c] => ~Executed(c, k, l) /\ ~Executed(c, k, l)'
                 /\ k = pc[c] => ~Executed(c, k, l)
                 /\ k = pc[c] /\ Executed(c, k, l)' => Finishes(c)
          /\ Stays(c) \/ Finishes(c)
          /\ Stays(c) => mem' = mem /\ v' = v
      <3>1. \A k \in 3..4 : l \in Taking(c, k) /\ k \in 1..Len(program.code[c])
        BY <1>4, <1>13
      <3> QED
        BY <1>4, <1>15, <3>1, OwnLane
    <2>2. CASE pc[c] < 3
      BY <2>1, <2>2
    <2>3. CASE pc[c] = 3
      <3>1. Inst(c) = i /\ ~Executed(c, 4, l)'
        BY <2>1, <2>3
      <3>2. ASSUME Finishes(c) PROVE ByteAt(mem', a) = Digit(x, 0)
        <4>1. /\ mem' = Put(mem, a, WriterBytes(i.op), x) /\ WriterBytes(i.op) \in {1, 2, 4}
          BY <1>4, <1>7, <1>11, <1>15, <3>1, <3>2, SteadyWrite
        <4> DEFINE k == WriterBytes(i.op)
        <4>2. k \in Nat /\ a \in a..a+k-1 /\ a - a = 0
          BY <1>12, <4>1
        <4> HIDE DEF a, x, k
        <4>3. ByteAt(Put(mem, a, k, x), a) = Digit(x, a - a)
          BY <1>12, <4>2, PutByte
        <4> QED
          BY <4>1, <4>2, <4>3 DEF k
      <3> QED
        BY <2>1, <2>3, <3>1, <3>2
    <2>4. CASE pc[c] = 4
      <3>1. Inst(c) = j /\ Executed(c, 3, l) /\ ~Executed(c, 4, l)
        BY <2>1, <2>4
      <3>2. mem' = mem
        BY <1>7, <2>1, <3>1 DEF Finishes
      <3>3. ASSUME Executed(c, 4, l)' PROVE v'[c][j.data][l] = Extend(x, 1)
        <4>2. ~Begin(b)
          <5>1. Begin(b) => pc' = pc /\ ran' = ran
            BY DEF Begin, Abort
          <5> QED
            BY <1>15, <3>1, <3>3, <5>1 DEF Executed
        <4>3. BufferLoad(b)
          BY <1>4, <1>15, <3>1, <4>2, Dispatch
        <4>4. v'[c][j.data][l] = Extend(Get(mem, work[c].at, BufferBytes(j.op)), 1) /\ work[c] # Idle
          BY <1>1, <1>15, <3>1, <4>3, BufferLoadStep DEF BufferLoad, Working
        <4>5. work[c].at = a
          BY <1>4, <1>7, <1>11, <1>15, <3>1, <4>4 DEF WorkInv
        <4>6. ByteAt(mem, a) = Digit(x, 0)
          BY <1>5, <3>1
        <4>7. BufferBytes(j.op) \in {1, 4}
          BY OpSizes
        <4> HIDE DEF a, x
        <4> QED
          BY <1>1, <1>10, <1>12, <4>4, <4>5, <4>6, <4>7, FirstByte
      <3> QED
        BY <1>5, <3>1, <3>2, <3>3
    <2> QED
      BY <2>1, <2>2, <2>3, <2>4
  <1> QED
    BY <1>14, <1>15
-----------------------------------------------------------------------------
(* Message passing: lane l of block b reads at a what block c sends.       *)
Flag1(c, m) == Place(c, At(c, 1), m)
Flag2(c, m) == Place(c, At(c, 2), m)

FlagCase(b, c, l) ==
    LET i == At(b, 1)
        a == Place(b, i, l)
    IN  /\ Len(program.code[b]) = 1 /\ i.op = "V_LOAD_U64" /\ l \in program.active[b]
        /\ Len(program.code[c]) = 2 /\ \A k \in 1..2 : At(c, k).op = "V_STORE_U32"
        /\ \A m \in program.active[c] :
              /\ Flag1(c, m) = Flag2(c, m) + 4
              /\ \/ Apart(Flag2(c, m), 8, a, 8)
                 \/ Flag2(c, m) = a /\ Reg(c, At(c, 1).data, m) = program.datum
        /\ \A d \in Blocks :
              Steady(d) /\ \A m \in program.active[d] : d # c => Spares(d, m, a, 8)
        /\ Get(program.mem, a, 4) = 0

FlagInv(b, c) ==
    \A l \in Lanes :
        LET i == At(b, 1)
            a == Place(b, i, l)
            sent == Get(mem, a + 4, 4) = program.datum
        IN  FlagCase(b, c, l) =>
              /\ pc[c] = 1 => Get(mem, a, 4) = 0
              /\ \A m \in program.active[c] : Executed(c, 1, m) /\ Flag2(c, m) = a => sent
              /\ Get(mem, a, 4) = 0 \/ sent
              /\ work[b] # Idle /\ pc[b] = 1 /\ NextLane(b) = l /\ work[b].k = 1
                    /\ work[b].held[0] # 0 => sent
              /\ Executed(b, 1, l) /\ v[b][i.data][l] # 0 => v[b][i.data + 1][l] = program.datum

(* What a step does to the flag and to the datum.                          *)
LEMMA FlagMemory ==
    ASSUME ControlInv, MemoryInv, NEW d \in Blocks, StepFacts(d), RegistersInv(d), WorkInv(d),
           NEW b \in Blocks, NEW c \in Blocks, NEW l \in Lanes, FlagCase(b, c, l)
    PROVE  LET a == Place(b, At(b, 1), l)
               m == NextLane(c)
           IN  /\ Get(mem', a + 4, 4) = Get(mem, a + 4, 4) \/ Get(mem', a + 4, 4) = program.datum
               /\ \/ Get(mem', a, 4) = Get(mem, a, 4)
                  \/ d = c /\ pc[c] = 2 /\ Flag2(c, m) = a
               /\ d = c /\ Finishes(c) /\ pc[c] = 1 /\ Flag2(c, m) = a =>
                     Get(mem', a + 4, 4) = program.datum
  <1> DEFINE i == At(b, 1)
             a == Place(b, i, l)
             m == NextLane(c)
  <1>1. program' = program /\ ~Ended(d) /\ program \in Programs /\ Bytes(mem)
    BY DEF StepFacts, ControlInv, MemoryInv
  <1>2. /\ Len(program.code[b]) = 1 /\ i.op = "V_LOAD_U64"
        /\ Len(program.code[c]) = 2 /\ \A k \in 1..2 : At(c, k).op = "V_STORE_U32"
        /\ \A q \in program.active[c] :
              /\ Flag1(c, q) = Flag2(c, q) + 4
              /\ \/ Apart(Flag2(c, q), 8, a, 8)
                 \/ Flag2(c, q) = a /\ Reg(c, At(c, 1).data, q) = program.datum
        /\ \A e \in Blocks :
              Steady(e) /\ \A q \in program.active[e] : e # c => Spares(e, q, a, 8)
    BY DEF FlagCase
  <1>3. a \in Int
    <2>1. i.op \in VLSOps
      BY <1>2 DEF VLSOps, LoadXOps
    <2>2. 1 \in 1..Len(program.code[b]) /\ Steady(b)
      BY <1>2
    <2> QED
      BY <1>1, <2>1, <2>2, PlaceType
  <1> HIDE DEF a
  <1>4. ASSUME \A y \in a..a+7 : ByteAt(mem', y) = ByteAt(mem, y)
        PROVE  Get(mem', a, 4) = Get(mem, a, 4) /\ Get(mem', a + 4, 4) = Get(mem, a + 4, 4)
    <2>1. /\ \A y \in a..a+4-1 : y \in a..a+7
          /\ \A y \in a+4..(a+4)+4-1 : y \in a..a+7
          /\ a + 4 \in Int /\ 4 \in Nat
      BY <1>3
    <2> QED
      BY <1>3, <1>4, <2>1, GetSame
  <1>5. NextLane(d) \in program.active[d] /\ NextLane(d) \in Lanes
    BY <1>1, NextFacts
  <1>6. CASE d # c
    <2>1. Steady(d) /\ Spares(d, NextLane(d), a, 8)
      BY <1>2, <1>5, <1>6
    <2>2. 8 \in Nat /\ a+8-1 = a+7
      BY <1>3
    <2>3. \A n \in Nat : Spares(d, NextLane(d), a, n) =>
             \A y \in a..a+n-1 : ByteAt(mem', y) = ByteAt(mem, y)
      BY <1>3, <2>1, Spared
    <2> QED
      BY <1>4, <1>6, <2>1, <2>2, <2>3 DEF a
  <1>7. CASE d = c
    <2> DEFINE x == Reg(c, Inst(c).data, m)
               p == Place(c, Inst(c), m)
    <2>1. pc[c] \in 1..2 /\ Inst(c) = At(c, pc[c]) /\ m \in program.active[c] /\ m \in Lanes
      BY <1>1, <1>2, <1>7, NextFacts
    <2>2. Inst(c).op = "V_STORE_U32"
      BY <1>2, <2>1
    <2>3. "V_STORE_U32" \in StoreOps /\ StoreBytes("V_STORE_U32") = 4
      BY DEF StoreOps, StoreBytes
    <2>4. Inst(c).op \in Writers /\ Inst(c).op \in StoreOps /\ WriterBytes(Inst(c).op) = 4
      BY <2>2, <2>3 DEF Writers, WriterBytes
    <2>5. /\ mem' = mem \/ mem' = Put(mem, p, 4, x)
          /\ Finishes(c) => mem' = Put(mem, p, 4, x)
          /\ p \in Int
      BY <1>2, <1>7, <2>4, SteadyWrite
    <2>6. Steady(c) /\ Flag1(c, m) = Flag2(c, m) + 4
          /\ (Apart(Flag2(c, m), 8, a, 8) \/ (Flag2(c, m) = a /\ Reg(c, At(c, 1).data, m) = program.datum))
      BY <1>2, <2>1
    <2>7. /\ pc[c] = 1 => p = Flag1(c, m) /\ x = Reg(c, At(c, 1).data, m)
          /\ pc[c] = 2 => p = Flag2(c, m)
      BY <2>1 DEF Flag1, Flag2
    <2>8. Flag2(c, m) \in Int
      <3>1. At(c, 2).op \in VLSOps /\ 2 \in 1..Len(program.code[c])
        <4>1. 2 \in 1..2
          OBVIOUS
        <4> QED
          BY <1>2, <2>3, <4>1, OpSets
      <3> QED
        BY <1>1, <2>1, <2>6, <3>1, PlaceType DEF Flag2
    <2>9. x \in Int /\ x \in Word
      <3>1. RegistersExist(Inst(c))
        BY <1>1, <1>7, NextFacts
      <3>2. Inst(c).data \in 0..MaxV
        BY <2>4, <3>1, OpSets DEF RegistersExist, Writers
      <3> QED
        BY SMTT(30), <1>1, <2>1, <3>2, ProgramFacts, WordSize
    <2> HIDE DEF x, p, m
    <2>10. CASE mem' = mem
      <3>1. ~(Finishes(c) /\ pc[c] = 1 /\ Flag2(c, m) = a) \/ Get(mem', a + 4, 4) = program.datum
        <4> SUFFICES ASSUME Finishes(c), pc[c] = 1, Flag2(c, m) = a
                     PROVE  Get(mem', a + 4, 4) = program.datum
          OBVIOUS
        <4>1. mem' = Put(mem, a + 4, 4, x) /\ x = program.datum
          <5>1. ~Apart(a, 8, a, 8)
            BY <1>3 DEF Apart
          <5> QED
            BY <2>5, <2>6, <2>7, <5>1
        <4>2. a + 4 \in Int /\ 4 \in {1, 2, 4}
          BY <1>3
        <4> QED
          BY <1>1, <2>9, <4>1, <4>2, GetPut
      <3> QED
        BY <2>10, <3>1 DEF a, m
    <2>11. CASE mem' = Put(mem, p, 4, x) /\ Apart(Flag2(c, m), 8, a, 8)
      <3>1. p = Flag2(c, m) \/ p = Flag2(c, m) + 4
        BY <2>1, <2>6, <2>7
      <3>2. \A y \in a..a+7 : y \notin p..p+4-1
        BY <1>3, <2>5, <2>8, <2>11, <3>1 DEF Apart
      <3>3. 4 \in Nat
        OBVIOUS
      <3>4. \A y \in a..a+7 : ByteAt(mem', y) = ByteAt(mem, y)
        BY <2>5, <2>11, <3>2, <3>3, PutByte
      <3>5. Flag2(c, m) # a
        BY <1>3, <2>11 DEF Apart
      <3> QED
        BY <1>4, <3>4, <3>5 DEF a, m
    <2>12. CASE /\ mem' = Put(mem, p, 4, x) /\ Flag2(c, m) = a
                /\ Reg(c, At(c, 1).data, m) = program.datum /\ pc[c] = 1
      <3>1. p = a + 4 /\ x = program.datum
        BY <2>6, <2>7, <2>12
      <3>2. a + 4 \in Int /\ 4 \in {1, 2, 4} /\ 4 \in Nat
        BY <1>3
      <3>3. Get(mem', a + 4, 4) = program.datum
        BY <1>1, <2>9, <2>12, <3>1, <3>2, GetPut
      <3>4. \A y \in a..a+4-1 : y \notin a+4..(a+4)+4-1
        BY <1>3
      <3>5. \A y \in a..a+4-1 : ByteAt(mem', y) = ByteAt(mem, y)
        BY <2>12, <3>1, <3>2, <3>4, PutByte
      <3>6. Get(mem', a, 4) = Get(mem, a, 4)
        BY <1>3, <3>2, <3>5, GetSame
      <3> QED
        BY <3>3, <3>6 DEF a
    <2>13. CASE mem' = Put(mem, p, 4, x) /\ Flag2(c, m) = a /\ pc[c] = 2
      <3>1. p = a
        BY <2>7, <2>13
      <3>2. a + 4 \in Int /\ 4 \in Nat
        BY <1>3
      <3>3. \A y \in a+4..(a+4)+4-1 : y \notin a..a+4-1
        BY <1>3
      <3>4. \A y \in a+4..(a+4)+4-1 : ByteAt(mem', y) = ByteAt(mem, y)
        BY <1>3, <2>13, <3>1, <3>2, <3>3, PutByte
      <3>5. Get(mem', a + 4, 4) = Get(mem, a + 4, 4)
        BY <3>2, <3>4, GetSame
      <3> QED
        BY <1>7, <2>13, <3>5 DEF a, m
    <2>14. (pc[c] = 1 \/ pc[c] = 2) /\ (mem' = mem \/ mem' = Put(mem, p, 4, x))
      BY <2>1, <2>5
    <2> QED
      BY <2>6, <2>10, <2>11, <2>12, <2>13, <2>14
  <1> QED
    BY <1>6, <1>7

LEMMA FlagInvStep ==
    ASSUME ControlInv, MemoryInv, NEW d \in Blocks, Execute(d), StepFacts(d),
           RegistersInv(d), WorkInv(d), \A b, c \in Blocks : FlagInv(b, c)
    PROVE  \A b, c \in Blocks : FlagInv(b, c)'
  <1>1. program' = program /\ ~Ended(d) /\ program \in Programs /\ Bytes(mem)
        /\ (\A e \in Blocks : e # d => Kept(e)) /\ pc \in [Blocks -> Nat]
    BY DEF StepFacts, ControlInv, MemoryInv
  <1>2. /\ \A c, k : At(c, k)' = At(c, k)
        /\ \A c, i, l : Place(c, i, l)' = Place(c, i, l)
        /\ \A c, r, l : Reg(c, r, l)' = Reg(c, r, l)
        /\ \A c, l, a, n : Spares(c, l, a, n)' <=> Spares(c, l, a, n)
        /\ \A c : Steady(c)' <=> Steady(c)
    BY <1>1, Rigid
  <1>3. /\ \A c, m : Flag1(c, m)' = Flag1(c, m) /\ Flag2(c, m)' = Flag2(c, m)
        /\ \A c, l : Place(c, At(c, 1), l)' = Place(c, At(c, 1), l)
    BY <1>2 DEF Flag1, Flag2
  <1>4. \A b, c, l : FlagCase(b, c, l)' <=> FlagCase(b, c, l)
    BY <1>1, <1>2, <1>3 DEF FlagCase
  <1> SUFFICES ASSUME NEW b \in Blocks, NEW c \in Blocks, NEW l \in Lanes, FlagCase(b, c, l)
               PROVE  LET i == At(b, 1)
                          a == Place(b, i, l)
                          sent == Get(mem', a + 4, 4) = program.datum
                      IN  /\ pc'[c] = 1 => Get(mem', a, 4) = 0
                          /\ \A m \in program.active[c] : Executed(c, 1, m)' /\ Flag2(c, m) = a => sent
                          /\ Get(mem', a, 4) = 0 \/ sent
                          /\ work'[b] # Idle /\ pc'[b] = 1 /\ NextLane(b)' = l /\ work'[b].k = 1
                                /\ work'[b].held[0] # 0 => sent
                          /\ Executed(b, 1, l)' /\ v'[b][i.data][l] # 0 =>
                                v'[b][i.data + 1][l] = program.datum
    BY <1>1, <1>2, <1>3, <1>4 DEF FlagInv
  <1> DEFINE i == At(b, 1)
             a == Place(b, i, l)
             sent == Get(mem, a + 4, 4) = program.datum
             q == NextLane(c)
  <1>5. /\ Len(program.code[b]) = 1 /\ i.op = "V_LOAD_U64" /\ l \in program.active[b]
        /\ Len(program.code[c]) = 2 /\ \A k \in 1..2 : At(c, k).op = "V_STORE_U32"
        /\ Steady(b)
    BY DEF FlagCase
  <1>6. b # c
    BY <1>5
  <1>7. /\ pc[c] = 1 => Get(mem, a, 4) = 0
        /\ \A m \in program.active[c] : Executed(c, 1, m) /\ Flag2(c, m) = a => sent
        /\ Get(mem, a, 4) = 0 \/ sent
        /\ work[b] # Idle /\ pc[b] = 1 /\ NextLane(b) = l /\ work[b].k = 1
              /\ work[b].held[0] # 0 => sent
        /\ Executed(b, 1, l) /\ v[b][i.data][l] # 0 => v[b][i.data + 1][l] = program.datum
    BY DEF FlagInv
  <1>8. /\ Get(mem', a + 4, 4) = Get(mem, a + 4, 4) \/ Get(mem', a + 4, 4) = program.datum
        /\ \/ Get(mem', a, 4) = Get(mem, a, 4)
           \/ d = c /\ pc[c] = 2 /\ Flag2(c, q) = a
        /\ d = c /\ Finishes(c) /\ pc[c] = 1 /\ Flag2(c, q) = a =>
              Get(mem', a + 4, 4) = program.datum
    BY FlagMemory
  <1> DEFINE sentN == Get(mem', a + 4, 4) = program.datum
  <1>9. sent => sentN
    BY <1>8
  <1>10. /\ "V_STORE_U32" \in StoreOps /\ "V_STORE_U32" \notin SLSOps
         /\ "V_LOAD_U64" \in LoadXOps /\ "V_LOAD_U64" \notin SLSOps /\ "V_LOAD_U64" \in VLSOps
         /\ LoadWords("V_LOAD_U64") = 2
    BY DEF StoreOps, LoadXOps, SLSOps, VLSOps, LoadWords
  <1>11. Taking(c, 1) = program.active[c] /\ Taking(b, 1) = program.active[b]
         /\ 1 \in 1..Len(program.code[c]) /\ 1 \in 1..Len(program.code[b]) /\ 1 \in Nat
    <2>1. 1 \in 1..2 /\ 1 \in 1..1
      OBVIOUS
    <2> QED
      BY <1>5, <1>10, <2>1 DEF Taking
  <1>12. a \in Int
    <2>1. At(b, 1).op \in VLSOps \cup BufferOps
      BY <1>5, <1>10
    <2>2. Place(b, At(b, 1), l) \in Nat
      BY <1>1, <1>5, <1>11, <2>1, PlaceType
    <2> QED
      BY <2>2
  <1>13. \A m \in program.active[c] : Executed(c, 1, m)' /\ Flag2(c, m) = a => sentN
    <2> SUFFICES ASSUME NEW m \in program.active[c], Executed(c, 1, m)', Flag2(c, m) = a
                 PROVE  sentN
      OBVIOUS
    <2>1. CASE Executed(c, 1, m)
      BY <1>7, <1>9, <2>1
    <2>2. CASE ~Executed(c, 1, m)
      <3>1. d = c
        BY <2>2, StepEffects
      <3>2. 1 = pc[c] /\ m = q
        BY <1>11, <2>2, <3>1, StepEffects
      <3>3. Finishes(c)
        <4>1. Stays(c) \/ Finishes(c)
          BY <3>1 DEF StepFacts
        <4>2. Stays(c) => FALSE
          BY <2>2, <3>1, StepEffects
        <4> QED
          BY <4>1, <4>2
      <3> QED
        BY <1>8, <3>1, <3>2, <3>3
    <2> QED
      BY <2>1, <2>2
  <1>14. pc'[c] = 1 => Get(mem', a, 4) = 0
    <2> SUFFICES ASSUME pc'[c] = 1 PROVE Get(mem', a, 4) = 0
      OBVIOUS
    <2>1. pc[c] = 1
      <3>1. CASE d = c
        <4>1. pc'[c] >= pc[c] /\ pc[c] \in 1..2
          BY <1>5, <3>1, StepEffects
        <4> QED
          BY <4>1
      <3>2. CASE d # c
        BY <1>1, <3>2 DEF Kept
      <3> QED
        BY <3>1, <3>2
    <2> QED
      BY <1>7, <1>8, <2>1
  <1>15. Get(mem', a, 4) = 0 \/ sentN
    <2>1. CASE Get(mem', a, 4) = Get(mem, a, 4)
      BY <1>7, <1>9, <2>1
    <2>2. CASE d = c /\ pc[c] = 2 /\ Flag2(c, q) = a
      <3>1. q \in program.active[c]
        BY <1>1, <2>2, NextFacts
      <3>2. Executed(c, 1, q)
        BY <2>2 DEF Executed
      <3> QED
        BY <1>7, <1>9, <2>2, <3>1, <3>2
    <2> QED
      BY <1>8, <2>1, <2>2
  <1>16. CASE d # b
    <2>1. /\ pc'[b] = pc[b] /\ ran'[b] = ran[b] /\ work'[b] = work[b] /\ v'[b] = v[b]
      BY <1>1, <1>16 DEF Kept
    <2>2. Takers(b)' = Takers(b)
      BY <1>1, <2>1 DEF Takers, Inst
    <2>3. NextLane(b)' = NextLane(b) /\ (Executed(b, 1, l)' <=> Executed(b, 1, l))
      BY <2>1, <2>2 DEF NextLane, Executed
    <2> HIDE DEF sent, sentN, a, i
    <2> QED
      BY <1>7, <1>9, <1>13, <1>14, <1>15, <2>1, <2>3 DEF sentN, a, i
  <1>17. CASE d = b
    <2>0. mem' = mem
      <3>1. Inst(b).op \notin Writers
        <4>1. pc[b] \in 1..1 /\ Inst(b) = At(b, pc[b])
          BY <1>1, <1>5, <1>17, NextFacts
        <4>2. pc[b] = 1
          BY <4>1
        <4> QED
          BY <1>5, <1>10, <4>1, <4>2, OpSets
      <3> QED
        BY <1>17, <3>1 DEF StepFacts, Stays, Finishes
    <2>1. /\ pc[b] = 1 /\ Inst(b) = i /\ NextLane(b) \in Lanes /\ RegistersExist(i)
          /\ Takers(b) = Taking(b, 1)
      <3>1. /\ pc[b] \in 1..1 /\ Inst(b) = At(b, pc[b]) /\ NextLane(b) \in Lanes
            /\ RegistersExist(Inst(b)) /\ Takers(b) = Taking(b, pc[b])
        BY <1>1, <1>5, <1>17, NextFacts
      <3>2. pc[b] = 1
        BY <3>1
      <3> QED
        BY <3>1, <3>2
    <2>2. i.data \in 0..MaxV /\ i.data + 1 \in 0..MaxV
      <3>1. i.data \in Nat /\ i.data + 2 - 1 \in 0..MaxV
        BY <1>5, <1>10, <2>1, OpSets DEF RegistersExist
      <3> QED
        BY <3>1, MemoryAssumption
    <2>3. /\ Executed(b, 1, l)' => Executed(b, 1, l) \/ l = NextLane(b)
          /\ ~Executed(b, 1, NextLane(b))
          /\ \A r \in 0..MaxV : \A m \in Lanes : m # NextLane(b) => v'[b][r][m] = v[b][r][m]
          /\ Stays(b) => \A k, m : Executed(b, k, m)' <=> Executed(b, k, m)
          /\ Finishes(b) => LaneDone(b, NextLane(b))
      BY <1>5, <1>11, <1>17, <2>1, StepEffects
    <2>4. Begin(b) \/ VectorLoadX(b)
      BY <1>5, <1>10, <1>17, <2>1, Dispatch
    <2>5. Stays(b) => pc' = pc /\ ran' = ran /\ v' = v
      BY DEF Stays
    <2>6. CASE Begin(b)
      <3>1. pc' = pc /\ ran' = ran /\ v' = v
        BY <2>6 DEF Begin, Abort
      <3>2. work'[b] = Idle \/ work'[b].k = 0
        <4>1. work[b] = Idle /\ work \in [Blocks -> Works]
          BY <2>6 DEF Begin, ControlInv
        <4>2. PICK addr \in Addresses(Context(b), Inst(b), NextLane(b)) :
                 \/ work' = work
                 \/ work' = [work EXCEPT ![b] = Access(addr, 0, Empty, NextLane(b))]
          BY <2>6 DEF Begin, Abort
        <4> QED
          BY <4>1, <4>2 DEF Access
      <3>3. Idle.k = 0
        BY DEF Idle, Access
      <3>4. Executed(b, 1, l)' <=> Executed(b, 1, l)
        BY <3>1 DEF Executed
      <3>5. work'[b].k # 1
        BY <3>2, <3>3
      <3> HIDE DEF sent, sentN, a, i
      <3> QED
        BY <1>7, <1>9, <1>13, <1>14, <1>15, <3>1, <3>4, <3>5 DEF sentN, a, i
    <2>7. CASE VectorLoadX(b) /\ NextLane(b) = l
      <3> DEFINE w == work[b]
      <3>1. /\ w # Idle /\ w.k \in 0..1
            /\ w.k + 1 # 2 =>
                  /\ Stays(b) /\ work'[b].k = w.k + 1
                  /\ \A j \in 0..3 : work'[b].held[j] = IF j = w.k THEN ReadWord(b, w.k) ELSE w.held[j]
            /\ w.k + 1 = 2 =>
                  /\ LaneDone(b, NextLane(b))
                  /\ \A j \in 0..1 : v'[b][i.data + j][NextLane(b)]
                                       = IF j = w.k THEN ReadWord(b, w.k) ELSE w.held[j]
        <4>1. LoadWords(Inst(b).op) = 2
          BY <1>5, <1>10, <2>1
        <4>2. 2 - 1 = 1
          OBVIOUS
        <4> QED
          BY <1>1, <1>17, <2>1, <2>7, <4>1, <4>2, VectorLoadXStep
      <3>2. w.at = a
        BY <1>5, <1>10, <1>17, <2>1, <2>7, <3>1 DEF WorkInv
      <3>3. ReadWord(b, w.k) = Get(mem, a + 4 * w.k, 4)
        BY <1>5, <1>10, <2>1, <3>2 DEF ReadWord, WordAddr
      <3>4. CASE w.k = 0
        <4>1. /\ Stays(b) /\ work'[b].k = 1 /\ work'[b].held[0] = Get(mem, a, 4)
          <5>1. a + 4 * 0 = a /\ 0 \in 0..3
            BY <1>12
          <5> QED
            BY <3>1, <3>3, <3>4, <5>1
        <4>2. Get(mem, a, 4) # 0 => sentN
          BY <1>7, <1>9
        <4>3. Executed(b, 1, l)' <=> Executed(b, 1, l)
          BY <2>3, <4>1
        <4> HIDE DEF sent, sentN, a, i
        <4> QED
          BY <1>7, <1>13, <1>14, <1>15, <2>5, <4>1, <4>2, <4>3 DEF sentN, a, i
      <3>5. CASE w.k = 1
        <4>1. /\ v'[b][i.data][l] = w.held[0] /\ v'[b][i.data + 1][l] = Get(mem, a + 4, 4)
          <5>1. /\ v'[b][i.data + 0][l] = w.held[0] /\ v'[b][i.data + 1][l] = ReadWord(b, w.k)
            <6>1. 0 \in 0..1 /\ 1 \in 0..1 /\ w.k + 1 = 2
              BY <3>5
            <6> QED
              BY <2>7, <3>1, <3>5, <6>1
          <5>2. i.data + 0 = i.data
            BY <2>2
          <5>3. a + 4 * w.k = a + 4
            BY <1>12, <3>5
          <5> QED
            BY <3>3, <5>1, <5>2, <5>3
        <4>2. w.held[0] # 0 => sent
          BY <1>7, <2>1, <2>7, <3>1, <3>5
        <4>3. work'[b] = Idle
          <5>1. LaneDone(b, NextLane(b))
            BY <3>1, <3>5
          <5> QED
            BY <1>1, <1>17, <5>1, LaneStep
        <4> HIDE DEF a, i
        <4> QED
          BY <1>13, <1>14, <1>15, <4>1, <4>2, <4>3 DEF a, i
      <3> QED
        BY <3>1, <3>4, <3>5
    <2>8. CASE VectorLoadX(b) /\ NextLane(b) # l
      <3>1. v'[b][i.data][l] = v[b][i.data][l] /\ v'[b][i.data + 1][l] = v[b][i.data + 1][l]
        BY <2>2, <2>3, <2>8
      <3>2. Executed(b, 1, l)' => Executed(b, 1, l)
        BY <2>3, <2>8
      <3>3. work'[b] # Idle => NextLane(b)' # l
        <4>1. CASE Stays(b)
          <5>1. Takers(b)' = Takers(b)
            BY <1>1, <2>5, <4>1 DEF Takers, Inst
          <5>2. NextLane(b)' = NextLane(b)
            BY <2>5, <4>1, <5>1 DEF NextLane
          <5> QED
            BY <2>8, <5>2
        <4>2. CASE Finishes(b)
          <5>1. work'[b] = Idle
            BY <1>1, <1>17, <2>3, <4>2, LaneStep
          <5> QED
            BY <5>1
        <4> QED
          BY <1>17, <4>1, <4>2 DEF StepFacts
      <3> HIDE DEF sent, sentN, a, i
      <3> QED
        BY <1>7, <1>13, <1>14, <1>15, <3>1, <3>2, <3>3 DEF sentN, a, i
    <2> QED
      BY <2>4, <2>6, <2>7, <2>8
  <1> QED
    BY <1>16, <1>17
-----------------------------------------------------------------------------
(* The sums of what the lanes of a block add, one after the other.         *)
LEMMA AddedFacts ==
    ASSUME program \in Programs, NEW b \in Blocks, NEW r \in 0..MaxV
    PROVE  /\ Added(b, r, 0) = 0
           /\ \A n \in 0..NLanes : Added(b, r, n) \in Nat
           /\ \A n \in 0..NLanes-1 :
                 Added(b, r, n + 1) =
                    Added(b, r, n) + (IF n \in program.active[b] THEN Reg(b, r, n) ELSE 0)
  <1> DEFINE t == [k \in 0..NLanes-1 |-> IF k \in program.active[b] THEN Reg(b, r, k) ELSE 0]
             E(n) == \E g \in [0..n -> Nat] : g[0] = 0 /\ \A i \in 1..n : g[i] = g[i-1] + t[i-1]
             S == { n \in Nat : n <= NLanes => E(n) }
  <1>1. NLanes \in Nat
    BY ProgramFacts
  <1>2. \A k \in 0..NLanes-1 : t[k] \in Nat
    <2>1. ASSUME NEW k \in 0..NLanes-1 PROVE t[k] \in Nat
      <3>1. k \in Lanes
        BY DEF Lanes
      <3>2. Reg(b, r, k) \in Nat
        BY <3>1, ProgramFacts, WordSize
      <3> QED
        BY <3>2
    <2> QED
      BY <2>1
  <1>3. t = [k \in 0..NLanes-1 |-> IF k \in program.active[b] THEN Reg(b, r, k) ELSE 0]
    OBVIOUS
  <1> HIDE DEF t
  <1>4. 0 \in S
    <2> DEFINE g == [i \in 0..0 |-> 0]
    <2>1. g \in [0..0 -> Nat] /\ g[0] = 0 /\ \A i \in 1..0 : g[i] = g[i-1] + t[i-1]
      OBVIOUS
    <2>2. E(0)
      BY <2>1
    <2> QED
      BY <2>2
  <1>5. ASSUME NEW n \in Nat, n \in S PROVE n + 1 \in S
    <2> SUFFICES ASSUME n + 1 <= NLanes PROVE E(n + 1)
      BY SMTT(30)
    <2>1. PICK g \in [0..n -> Nat] : g[0] = 0 /\ \A i \in 1..n : g[i] = g[i-1] + t[i-1]
      BY <1>1, <1>5
    <2> DEFINE x == g[n] + t[n]
               u == [i \in 0..n+1 |-> IF i = n + 1 THEN x ELSE g[i]]
    <2>2. x \in Nat
      <3>1. n \in 0..NLanes-1
        <4> HIDE DEF S, E
        <4> QED
          BY <1>1
      <3>2. t[n] \in Nat /\ g[n] \in Nat
        BY <1>2, <3>1
      <3> QED
        BY <3>2
    <2> HIDE DEF x
    <2>3. u \in [0..n+1 -> Nat] /\ u[0] = 0
      BY <2>1, <2>2
    <2>4. ASSUME NEW i \in 1..n+1 PROVE u[i] = u[i-1] + t[i-1]
      <3>1. CASE i = n + 1
        <4>1. u[i] = x /\ i - 1 = n /\ u[n] = g[n]
          BY <3>1
        <4> QED
          BY <4>1 DEF x
      <3>2. CASE i # n + 1
        <4>1. i \in 1..n /\ i - 1 \in 0..n /\ u[i] = g[i] /\ u[i-1] = g[i-1]
          BY <3>2
        <4> QED
          BY <4>1, <2>1
      <3> QED
        BY <3>1, <3>2
    <2> QED
      BY <2>3, <2>4
  <1> HIDE DEF S
  <1>6. Nat \subseteq S
    BY <1>4, <1>5, One!SetInduction, Assumed
  <1>7. PICK g \in [0..NLanes -> Nat] :
           g[0] = 0 /\ \A i \in 1..NLanes : g[i] = g[i-1] + t[i-1]
    <2>1. E(NLanes)
      <3> HIDE DEF E
      <3> QED
        BY <1>1, <1>6 DEF S
    <2> QED
      BY <2>1
  <1> DEFINE F(h) == h = [k \in 0..NLanes |->
                             IF k = 0 THEN 0
                             ELSE h[k - 1] + (IF k - 1 \in program.active[b]
                                              THEN Reg(b, r, k - 1) ELSE 0)]
  <1>8. F(g)
    <2>1. \A k \in 1..NLanes : t[k - 1] = IF k - 1 \in program.active[b] THEN Reg(b, r, k - 1) ELSE 0
      BY <1>1, <1>3
    <2> QED
      BY <1>1, <1>7, <2>1
  <1>9. PICK h : F(h) /\ \A n : Added(b, r, n) = h[n]
    <2> DEFINE h == CHOOSE h : F(h)
    <2>1. F(h)
      BY <1>8
    <2>2. \A n : Added(b, r, n) = h[n]
      BY DEF Added
    <2> QED
      BY <2>1, <2>2
  <1>10. h[0] = 0
    BY <1>1, <1>9
  <1>11. ASSUME NEW n \in 0..NLanes-1
         PROVE  h[n + 1] = h[n] + (IF n \in program.active[b] THEN Reg(b, r, n) ELSE 0)
    <2>1. n + 1 \in 0..NLanes /\ n + 1 # 0 /\ (n + 1) - 1 = n
      BY <1>1
    <2>2. h[n + 1] = h[(n + 1) - 1] + (IF (n + 1) - 1 \in program.active[b]
                                         THEN Reg(b, r, (n + 1) - 1) ELSE 0)
      BY <1>9, <2>1
    <2> QED
      BY <2>1, <2>2
  <1> DEFINE T == { n \in Nat : n <= NLanes => h[n] \in Nat }
  <1>12. 0 \in T
    BY <1>10
  <1>13. ASSUME NEW n \in Nat, n \in T PROVE n + 1 \in T
    <2> SUFFICES ASSUME n + 1 <= NLanes PROVE h[n + 1] \in Nat
      OBVIOUS
    <2>1. n \in 0..NLanes-1 /\ h[n] \in Nat
      BY <1>1, <1>13
    <2>2. t[n] \in Nat /\ h[n + 1] = h[n] + t[n]
      BY <1>2, <1>3, <1>11, <2>1
    <2> QED
      BY <2>1, <2>2
  <1> HIDE DEF T
  <1>14. Nat \subseteq T
    BY <1>12, <1>13, One!SetInduction, Assumed
  <1>15. \A n \in 0..NLanes : h[n] \in Nat
    BY <1>1, <1>14 DEF T
  <1>16. \A n : Added(b, r, n) = h[n]
    BY <1>9
  <1> HIDE DEF F
  <1> QED
    BY ONLY <1>10, <1>11, <1>15, <1>16

(* Lanes that are not active add nothing.                                  *)
LEMMA AddedSkip ==
    ASSUME program \in Programs, NEW b \in Blocks, NEW r \in 0..MaxV,
           NEW n \in 0..NLanes, NEW m \in 0..NLanes, n <= m,
           \A l \in program.active[b] : ~(n <= l /\ l < m)
    PROVE  Added(b, r, m) = Added(b, r, n)
  <1> DEFINE S == { d \in Nat : n + d <= m => Added(b, r, n + d) = Added(b, r, n) }
  <1>1. NLanes \in Nat
    BY ProgramFacts
  <1>2. 0 \in S
    OBVIOUS
  <1>3. ASSUME NEW d \in Nat, d \in S PROVE d + 1 \in S
    <2> SUFFICES ASSUME n + (d + 1) <= m PROVE Added(b, r, n + (d + 1)) = Added(b, r, n)
      OBVIOUS
    <2>1. n + d \in 0..NLanes-1 /\ n + (d + 1) = (n + d) + 1 /\ n + d <= m
          /\ n <= n + d /\ n + d < m
      BY <1>1
    <2>2. n + d \notin program.active[b]
      BY <2>1
    <2>3. Added(b, r, (n + d) + 1) = Added(b, r, n + d) + 0 /\ Added(b, r, n + d) \in Nat
      BY <1>1, <2>1, <2>2, AddedFacts
    <2>4. Added(b, r, n + d) = Added(b, r, n)
      BY <1>3, <2>1
    <2> QED
      BY <2>1, <2>3, <2>4
  <1> HIDE DEF S
  <1>4. Nat \subseteq S
    BY <1>2, <1>3, One!SetInduction, Assumed
  <1>5. m - n \in Nat /\ n + (m - n) = m
    OBVIOUS
  <1>6. m - n \in S
    BY <1>4, <1>5
  <1> QED
    BY <1>5, <1>6 DEF S

(* V_BUFFER_ATOMIC_ADD: the lanes of block b add to the word of lane f.    *)
(* The lanes below n have executed: the word has the sum of what they add. *)
AddsCase(b, f) ==
    LET i == At(b, 3)
        a == Place(b, i, f)
    IN  /\ Len(program.code[b]) = 3 /\ i.op = "V_BUFFER_ATOMIC_ADD"
        /\ f \in program.active[b] /\ \A l \in program.active[b] : Place(b, i, l) = a
        /\ \A c \in Blocks :
              Steady(c) /\ \A m \in program.active[c] : c # b => Spares(c, m, a, 4)

Before(b, f) == Get(program.mem, Place(b, At(b, 3), f), 4)
Sum(b, f, n) == Wrap(Before(b, f) + Added(b, At(b, 3).data, n))
Below(b, n) == \A l \in program.active[b] : Executed(b, 3, l) <=> l < n

AddsInv(b) ==
    \A f \in Lanes :
        LET i == At(b, 3)
            word == Get(mem, Place(b, i, f), 4)
        IN  AddsCase(b, f) =>
              /\ \A n \in 0..NLanes : Below(b, n) => word = Sum(b, f, n)
              /\ work[b] # Idle /\ pc[b] = 3 /\ work[b].k = 1 => work[b].held[0] = word
              /\ Executed(b, 3, f) /\ "glc" \in i.bits => v[b][i.data][f] = Sum(b, f, f)

(* The next lane adds to the sum of those before it.                       *)
LEMMA NextSum ==
    ASSUME program \in Programs, NEW b \in Blocks, NEW f, NEW q \in program.active[b],
           Before(b, f) \in Nat, At(b, 3).data \in 0..MaxV, NEW n \in 0..NLanes,
           \A l \in program.active[b] : l <= q <=> l < n
    PROVE  Sum(b, f, n) = Wrap(Reg(b, At(b, 3).data, q) + Sum(b, f, q))
  <1> DEFINE r == At(b, 3).data
             x == Reg(b, r, q)
             y == Before(b, f)
             z == Added(b, r, q)
  <1>1. NLanes \in Nat /\ q \in 0..NLanes-1 /\ q \in Lanes
    BY ProgramFacts DEF Lanes
  <1>2. q \in 0..NLanes /\ q + 1 \in 0..NLanes /\ q + 1 <= n
    BY <1>1
  <1>3. \A l \in program.active[b] : ~(q + 1 <= l /\ l < n)
    <2> SUFFICES ASSUME NEW l \in program.active[b], q + 1 <= l, l < n PROVE FALSE
      OBVIOUS
    <2>1. l \in Nat /\ l <= q
      BY ProgramFacts
    <2> QED
      BY <1>1, <2>1
  <1>4. Added(b, r, n) = Added(b, r, q + 1)
    BY <1>2, <1>3, AddedSkip
  <1>5. Added(b, r, q + 1) = z + x /\ z \in Nat
    BY <1>1, <1>2, AddedFacts
  <1>6. x \in Nat
    BY <1>1, ProgramFacts, WordSize
  <1> HIDE DEF x, y, z, r
  <1>7. y + (z + x) = (y + z) + x /\ y + z \in Int /\ x \in Int
    BY <1>5, <1>6 DEF y
  <1>8. Wrap(Wrap(y + z) + x) = Wrap((y + z) + x)
    BY <1>7, WrapSum
  <1>9. Wrap(y + z) \in Nat
    BY <1>7, WrapFacts, WordSize
  <1>10. x + Wrap(y + z) = Wrap(y + z) + x
    BY <1>6, <1>9
  <1> QED
    BY <1>4, <1>5, <1>7, <1>8, <1>10 DEF Sum, x, y, z, r

LEMMA AddsInvStep ==
    ASSUME ControlInv, MemoryInv, NEW b \in Blocks, Execute(b), StepFacts(b),
           RegistersInv(b), WorkInv(b), \A c \in Blocks : AddsInv(c)
    PROVE  \A c \in Blocks : AddsInv(c)'
  <1>1. program' = program /\ ~Ended(b) /\ program \in Programs /\ Bytes(mem)
        /\ (\A d \in Blocks : d # b => Kept(d)) /\ pc \in [Blocks -> Nat]
    BY DEF StepFacts, ControlInv, MemoryInv
  <1>2. /\ \A c, k : At(c, k)' = At(c, k)
        /\ \A c, r, l : Reg(c, r, l)' = Reg(c, r, l)
        /\ \A c, i, l : Place(c, i, l)' = Place(c, i, l)
        /\ \A c, l, a, n : Spares(c, l, a, n)' <=> Spares(c, l, a, n)
        /\ \A c : Steady(c)' <=> Steady(c)
    BY <1>1, Rigid
  <1>3. \A c, l : Place(c, At(c, 3), l)' = Place(c, At(c, 3), l)
    BY <1>2
  <1>4. \A c, l : AddsCase(c, l)' <=> AddsCase(c, l)
    BY <1>1, <1>2, <1>3 DEF AddsCase
  <1>5. \A c, l, n : Sum(c, l, n)' = Sum(c, l, n)
    <2>1. \A c, r, n : Added(c, r, n)' = Added(c, r, n)
      BY <1>1, <1>2 DEF Added
    <2> QED
      BY <1>1, <1>2, <1>3, <2>1 DEF Sum, Before
  <1> SUFFICES ASSUME NEW c \in Blocks, NEW f \in Lanes, AddsCase(c, f)
               PROVE  LET i == At(c, 3)
                          word == Get(mem', Place(c, i, f), 4)
                      IN  /\ \A n \in 0..NLanes : Below(c, n)' => word = Sum(c, f, n)
                          /\ work'[c] # Idle /\ pc'[c] = 3 /\ work'[c].k = 1 => work'[c].held[0] = word
                          /\ Executed(c, 3, f)' /\ "glc" \in i.bits => v'[c][i.data][f] = Sum(c, f, f)
    BY <1>2, <1>3, <1>4, <1>5 DEF AddsInv
  <1> DEFINE i == At(c, 3)
             a == Place(c, i, f)
             word == Get(mem, a, 4)
             q == NextLane(c)
  <1>6. /\ Len(program.code[c]) = 3 /\ i.op = "V_BUFFER_ATOMIC_ADD"
        /\ f \in program.active[c] /\ \A l \in program.active[c] : Place(c, i, l) = a
        /\ \A d \in Blocks : Steady(d) /\ \A m \in program.active[d] : d # c => Spares(d, m, a, 4)
    BY DEF AddsCase
  <1>7. /\ \A n \in 0..NLanes : Below(c, n) => word = Sum(c, f, n)
        /\ work[c] # Idle /\ pc[c] = 3 /\ work[c].k = 1 => work[c].held[0] = word
        /\ Executed(c, 3, f) /\ "glc" \in i.bits => v[c][i.data][f] = Sum(c, f, f)
    BY DEF AddsInv
  <1>8. Steady(b) /\ Steady(c)
    BY <1>6
  <1>9. 3 \in 1..Len(program.code[c]) /\ 3 \in Nat
    <2>1. 3 \in 1..3
      OBVIOUS
    <2> QED
      BY <1>6, <2>1
  <1>10. i.op \in Writers /\ i.op \in BufferOps /\ i.op \notin SLSOps /\ i.op \notin StoreOps
         /\ WriterBytes(i.op) = 4
    BY <1>6, OpSets DEF Writers, WriterBytes, BufferBytes
  <1>11. a \in Int
    <2>1. At(c, 3).op \in VLSOps \cup BufferOps
      BY <1>10
    <2>2. Place(c, At(c, 3), f) \in Nat
      BY <1>1, <1>8, <1>9, <2>1, PlaceType
    <2> QED
      BY <2>2
  <1>12. i.data \in 0..MaxV
    <2>1. RegistersExist(At(c, 3))
      BY <1>1, <1>9, ProgramFacts
    <2> QED
      BY <1>10, <2>1 DEF RegistersExist
  <1>13. Taking(c, 3) = program.active[c] /\ program.active[c] \subseteq Lanes
    BY <1>1, <1>10, ProgramFacts DEF Taking
  <1>14. CASE b # c
    <2>1. NextLane(b) \in program.active[b]
      BY <1>1, NextFacts
    <2>2. Spares(b, NextLane(b), a, 4)
      BY <1>6, <1>14, <2>1
    <2>3. Get(mem', a, 4) = word
      <3>1. 4 \in Nat
        OBVIOUS
      <3> QED
        BY <1>8, <1>11, <2>2, <3>1, Spared
    <2>4. pc'[c] = pc[c] /\ ran'[c] = ran[c] /\ work'[c] = work[c] /\ v'[c] = v[c]
      BY <1>1, <1>14 DEF Kept
    <2>5. \A l : Executed(c, 3, l)' <=> Executed(c, 3, l)
      BY <2>4 DEF Executed
    <2>6. \A n : Below(c, n)' <=> Below(c, n)
      BY <1>1, <2>5 DEF Below
    <2> HIDE DEF a
    <2> QED
      BY <1>7, <2>3, <2>4, <2>5, <2>6 DEF a
  <1>15. CASE b = c
    <2>1. /\ pc[c] \in 1..3 /\ Inst(c) = At(c, pc[c]) /\ Takers(c) = Taking(c, pc[c])
          /\ q \in program.active[c] /\ q \in Lanes /\ q \in Nat
          /\ \A m \in Takers(c) : m \in ran[c] <=> m < q
      BY <1>1, <1>6, <1>15, NextFacts
    <2>2. /\ \A m \in program.active[c] :
                Executed(c, 3, m)' => Executed(c, 3, m) \/ (3 = pc[c] /\ m = q)
          /\ \A m : Executed(c, 3, m) => Executed(c, 3, m)'
          /\ \A r \in 0..MaxV : \A m \in Lanes : m # q => v'[c][r][m] = v[c][r][m]
          /\ Stays(c) => \A m : Executed(c, 3, m)' <=> Executed(c, 3, m)
          /\ ~Executed(c, pc[c], q)
      BY <1>9, <1>13, <1>15, StepEffects
    <2>3. CASE pc[c] # 3
      <3>1. pc[c] \in 1..2
        BY <2>1, <2>3
      <3>2. Inst(c).op \in WriteOps
        <4>1. Described(c, i)
          BY <1>8, <1>9, <1>10 DEF Steady
        <4>2. At(c, 1).op = "D_WRITE_B32" /\ At(c, 2).op = "D_WRITE_B32"
          BY <4>1 DEF Described
        <4>3. pc[c] = 1 \/ pc[c] = 2
          BY <3>1
        <4> QED
          BY <2>1, <4>2, <4>3 DEF WriteOps
      <3>3. Inst(c).op \notin Writers /\ Inst(c).op \notin GlobalOps
        BY <3>2, OpSets DEF Lanewise, Writers, GlobalOps
      <3>4. mem' = mem /\ v' = v
        BY <1>15, <3>2, <3>3 DEF StepFacts, Stays, Finishes
      <3>5. \A m \in program.active[c] : Executed(c, 3, m)' <=> Executed(c, 3, m)
        BY <2>2, <2>3
      <3>6. \A n : Below(c, n)' <=> Below(c, n)
        BY <1>1, <3>5 DEF Below
      <3>7. pc'[c] = 3 => work'[c] = Idle
        <4>1. work' \in [Blocks -> Works] /\ BlockControl(c)'
          BY DEF StepFacts, ControlInv
        <4>2. CASE Stays(c)
          BY <2>3, <4>2 DEF Stays
        <4>3. CASE Finishes(c)
          <5>1. work' = [work EXCEPT ![c] = Idle] /\ work \in [Blocks -> Works]
            BY <4>3 DEF Finishes, LaneDone, ControlInv
          <5> QED
            BY <5>1
        <4> QED
          BY <1>15, <4>2, <4>3 DEF StepFacts
      <3> HIDE DEF a, i
      <3> QED
        BY <1>6, <1>7, <3>4, <3>5, <3>6, <3>7 DEF a, i
    <2>4. CASE pc[c] = 3
      <3>1. /\ Inst(c) = i /\ Takers(c) = program.active[c]
            /\ \A m \in program.active[c] : Executed(c, 3, m) <=> m < q
        <4>1. Inst(c) = i /\ Takers(c) = program.active[c]
          BY <1>13, <2>1, <2>4
        <4>2. \A m : Executed(c, 3, m) <=> m \in ran[c]
          BY <2>4 DEF Executed
        <4> QED
          BY <2>1, <4>1, <4>2
      <3>2. word = Sum(c, f, q)
        <4>1. q \in 0..NLanes
          BY <1>1, <2>1, ProgramFacts DEF Lanes
        <4> QED
          BY <1>7, <3>1, <4>1 DEF Below
      <3>3. Begin(c) \/ AtomicRead(c) \/ AtomicWrite(c)
        BY <1>6, <1>15, <3>1, Dispatch
      <3>4. CASE Begin(c)
        <4>1. pc' = pc /\ ran' = ran /\ v' = v /\ mem' = mem
          BY <3>4 DEF Begin, Abort
        <4>2. work'[c] = Idle \/ work'[c].k = 0
          <5>1. work[c] = Idle /\ work \in [Blocks -> Works]
            BY <3>4 DEF Begin, ControlInv
          <5>2. PICK addr \in Addresses(Context(c), Inst(c), NextLane(c)) :
                   \/ work' = work
                   \/ work' = [work EXCEPT ![c] = Access(addr, 0, Empty, NextLane(c))]
            BY <3>4 DEF Begin, Abort
          <5> QED
            BY <5>1, <5>2 DEF Access
        <4>3. Idle.k = 0
          BY DEF Idle, Access
        <4>4. \A m : Executed(c, 3, m)' <=> Executed(c, 3, m)
          BY <4>1 DEF Executed
        <4>5. \A n : Below(c, n)' <=> Below(c, n)
          BY <1>1, <4>4 DEF Below
        <4>6. work'[c].k # 1
          BY <4>2, <4>3
        <4> HIDE DEF a, i
        <4> QED
          BY <1>7, <4>1, <4>4, <4>5, <4>6 DEF a, i
      <3>5. CASE AtomicRead(c)
        <4>1. /\ Stays(c) /\ work[c] # Idle /\ work'[c].held[0] = Get(mem, work[c].at, 4)
          BY <1>1, <1>15, <3>5, AtomicReadStep
        <4>2. work[c].at = a
          BY <1>6, <1>8, <1>10, <1>15, <2>1, <3>1, <4>1 DEF WorkInv
        <4>3. mem' = mem /\ v' = v
          BY <4>1 DEF Stays
        <4>4. \A m : Executed(c, 3, m)' <=> Executed(c, 3, m)
          BY <2>2, <4>1
        <4>5. \A n : Below(c, n)' <=> Below(c, n)
          BY <1>1, <4>4 DEF Below
        <4> HIDE DEF a, i
        <4> QED
          BY <1>7, <4>1, <4>2, <4>3, <4>4, <4>5 DEF a, i
      <3>6. CASE AtomicWrite(c)
        <4>1. /\ Finishes(c) /\ work[c] # Idle /\ work[c].k = 1
              /\ "glc" \in i.bits => v'[c][i.data][q] = work[c].held[0]
          BY <1>1, <1>15, <3>1, <3>6, AtomicWriteStep
        <4>2. work[c].held[0] = word
          BY <1>7, <2>4, <4>1
        <4> DEFINE x == Reg(c, i.data, q)
                   y == Wrap(x + word)
        <4>3. mem' = Put(mem, a, 4, Written(c)) /\ Written(c) \in Word
          BY <1>6, <1>8, <1>10, <1>15, <2>1, <3>1, <4>1, SteadyWrite
        <4>4. Written(c) = y
          <5>1. v[c][i.data][q] = x
            BY <1>1, <1>8, <1>12, <1>15, <3>1, SteadyRegisters
          <5> QED
            BY <1>6, <3>1, <4>2, <5>1 DEF Written
        <4>5. Get(mem', a, 4) = y
          <5> HIDE DEF a, y
          <5>1. y \in Word /\ y \in Int /\ 4 \in {1, 2, 4}
            BY <4>3, <4>4, WordSize
          <5> QED
            BY <1>1, <1>11, <4>3, <4>4, <5>1, GetPut
        <4>6. ASSUME NEW n \in 0..NLanes, Below(c, n)' PROVE Get(mem', a, 4) = Sum(c, f, n)
          <5>1. \A l \in program.active[c] : l <= q <=> l < n
            <6> SUFFICES ASSUME NEW l \in program.active[c] PROVE l <= q <=> l < n
              OBVIOUS
            <6>1. Executed(c, 3, l)' <=> l < n
              BY <1>1, <4>6 DEF Below
            <6>2. l = q => Executed(c, 3, l)'
              BY <1>15, <2>4, <4>1, StepEffects
            <6>3. Executed(c, 3, l)' <=> Executed(c, 3, l) \/ l = q
              BY <2>2, <6>2
            <6>4. Executed(c, 3, l) <=> l < q
              BY <3>1
            <6>5. l \in Nat
              BY <1>1, ProgramFacts
            <6> QED
              BY <2>1, <6>1, <6>3, <6>4, <6>5
          <5>2. Before(c, f) \in Nat
            <6>1. Bytes(program.mem)
              BY <1>1, ProgramFacts
            <6> QED
              BY <1>11, <6>1, GetType, WordSize DEF Before
          <5>3. Sum(c, f, n) = Wrap(Reg(c, At(c, 3).data, q) + Sum(c, f, q))
            BY <1>1, <1>12, <2>1, <5>1, <5>2, NextSum
          <5> QED
            BY <3>2, <4>5, <5>3
        <4>7. work'[c] = Idle
          <5>1. work' = [work EXCEPT ![c] = Idle] /\ work \in [Blocks -> Works]
            BY <4>1 DEF Finishes, LaneDone, ControlInv
          <5> QED
            BY <5>1
        <4>8. ASSUME Executed(c, 3, f)', "glc" \in i.bits PROVE v'[c][i.data][f] = Sum(c, f, f)
          <5>1. CASE f = q
            BY <3>2, <4>1, <4>2, <4>8, <5>1
          <5>2. CASE f # q
            <6>1. Executed(c, 3, f)
              BY <1>6, <2>2, <4>8, <5>2
            <6>2. v'[c][i.data][f] = v[c][i.data][f]
              BY <1>12, <2>2, <5>2
            <6> QED
              BY <1>7, <4>8, <6>1, <6>2
          <5> QED
            BY <5>1, <5>2
        <4> QED
          BY <4>6, <4>7, <4>8
      <3> QED
        BY <3>3, <3>4, <3>5, <3>6
    <2> QED
      BY <2>3, <2>4
  <1> QED
    BY <1>14, <1>15
-----------------------------------------------------------------------------
(* The inductive invariant.                                                *)
BlockInv(b) ==
    /\ RegistersInv(b) /\ FlatInv(b) /\ DescriptorInv(b) /\ WorkInv(b) /\ ScalarInv(b)
    /\ SharedInv(b) /\ LoadsInv(b) /\ BufferInv(b) /\ AddsInv(b)
    /\ \A c \in Blocks : FlagInv(b, c)

IInv == ControlInv /\ MemoryInv /\ FrameInv /\ \A b \in Blocks : BlockInv(b)

LEMMA InitInv == Init => IInv
  <1> SUFFICES ASSUME Init PROVE IInv
    OBVIOUS
  <1>1. ControlInv /\ MemoryInv /\ program \in Programs
    BY InitShape DEF ControlInv
  <1>2. /\ v = program.v /\ s = program.s /\ mem = program.mem
        /\ \A b \in Blocks : pc[b] = 1 /\ ran[b] = {} /\ work[b] = Idle
                             /\ shared[b] = InitShared(program.cta[b])
    BY DEF Init
  <1>3. \A b \in Blocks : \A k \in Nat \ {0} : \A l : ~Executed(b, k, l)
    BY <1>2 DEF Executed
  <1>4. FrameInv
    BY <1>2 DEF FrameInv
  <1>5. ASSUME NEW b \in Blocks PROVE BlockInv(b)
    <2>0. Len(program.code[b]) \in Nat /\ NLanes \in Nat /\ Lanes \subseteq Nat
      BY <1>1, ProgramFacts
    <2>1. \A k \in 1..4 : \A l : ~Executed(b, k, l)
      BY <1>3
    <2>2. RegistersInv(b) /\ FlatInv(b) /\ DescriptorInv(b) /\ WorkInv(b)
      <3>1. RegistersInv(b)
        BY <1>2 DEF RegistersInv, Reg
      <3>2. FlatInv(b)
        BY <2>1 DEF FlatInv
      <3>3. DescriptorInv(b)
        BY <2>1 DEF DescriptorInv
      <3>4. WorkInv(b)
        BY <1>2 DEF WorkInv
      <3> QED
        BY <3>1, <3>2, <3>3, <3>4
    <2>3. ScalarInv(b)
      <3> SUFFICES ASSUME Len(program.code[b]) = 1, NEW r \in 0..MaxS
                   PROVE  r \notin At(b, 1).data..At(b, 1).data + LoadedWords(b) - 1
        BY <1>2 DEF ScalarInv
      <3>1. LoadedWords(b) = 0
        BY <1>2 DEF LoadedWords
      <3>2. At(b, 1).data \in Nat
        <4>1. 1 \in 1..Len(program.code[b])
          OBVIOUS
        <4> QED
          BY <1>1, <4>1, ProgramFacts DEF RegistersExist
      <3> QED
        BY <3>1, <3>2
    <2>4. SharedInv(b)
      <3> SUFFICES ASSUME NEW l \in Lanes, SharedCase(b, l), NEW y,
                          y \in Reg(b, At(b, 1).base, l)..Reg(b, At(b, 1).base, l) + 3
                   PROVE  ByteAt(shared[b], y) = 0
        BY <2>1 DEF SharedInv
      <3>1. y \notin DOMAIN Start(b).shared
        BY DEF SharedCase
      <3>2. Start(b).shared = shared[b]
        BY <1>2 DEF Start
      <3> QED
        BY <3>1, <3>2 DEF ByteAt
    <2>5. LoadsInv(b) /\ BufferInv(b)
      BY <2>1 DEF LoadsInv, BufferInv
    <2>6. AddsInv(b)
      <3> SUFFICES ASSUME NEW f \in Lanes, AddsCase(b, f), NEW n \in 0..NLanes, Below(b, n)
                   PROVE  Get(mem, Place(b, At(b, 3), f), 4) = Sum(b, f, n)
        BY <1>2, <2>1 DEF AddsInv
      <3> DEFINE a == Place(b, At(b, 3), f)
                 x == Get(mem, a, 4)
                 r == At(b, 3).data
      <3>1. 3 \in 1..Len(program.code[b]) /\ At(b, 3).op \in BufferOps /\ Steady(b)
        <4>1. 3 \in 1..3
          OBVIOUS
        <4>2. Len(program.code[b]) = 3 /\ At(b, 3).op = "V_BUFFER_ATOMIC_ADD" /\ Steady(b)
          BY DEF AddsCase
        <4> QED
          BY <4>1, <4>2 DEF BufferOps
      <3>2. a \in Int /\ r \in 0..MaxV
        <4>1. At(b, 3).op \in VLSOps \cup BufferOps /\ At(b, 3).op \notin SLSOps
          BY <3>1, OpSets
        <4>2. Place(b, At(b, 3), f) \in Nat
          BY <1>1, <3>1, <4>1, PlaceType
        <4>3. RegistersExist(At(b, 3))
          BY <1>1, <3>1, ProgramFacts
        <4> QED
          BY <4>1, <4>2, <4>3 DEF RegistersExist
      <3>3. Added(b, r, n) = 0
        <4>1. \A l \in program.active[b] : ~(0 <= l /\ l < n)
          BY <2>1 DEF Below
        <4>2. 0 \in 0..NLanes /\ 0 <= n
          BY <2>0
        <4> HIDE DEF r
        <4>3. Added(b, r, n) = Added(b, r, 0)
          BY <1>1, <3>2, <4>1, <4>2, AddedSkip
        <4> QED
          BY <1>1, <3>2, <4>3, AddedFacts
      <3>4. x \in Word /\ x \in Int
        <4> HIDE DEF a
        <4> QED
          BY <1>1, <3>2, GetType, WordSize DEF MemoryInv
      <3>5. Before(b, f) = x
        BY <1>2 DEF Before
      <3> HIDE DEF x
      <3>6. x + 0 = x /\ Wrap(x) = x
        BY <3>4, WrapFacts
      <3> QED
        BY <3>3, <3>5, <3>6 DEF Sum, x
    <2>7. ASSUME NEW c \in Blocks PROVE FlagInv(b, c)
      <3> SUFFICES ASSUME NEW l \in Lanes, FlagCase(b, c, l)
                   PROVE  Get(mem, Place(b, At(b, 1), l), 4) = 0
        BY <1>2, <1>3, <2>1 DEF FlagInv
      <3> QED
        BY <1>2 DEF FlagCase
    <2> QED
      BY <2>2, <2>3, <2>4, <2>5, <2>6, <2>7 DEF BlockInv
  <1> QED
    BY <1>1, <1>4, <1>5 DEF IInv

(* A step that changes nothing.                                            *)
LEMMA StutterInv ==
    ASSUME IInv, UNCHANGED vars
    PROVE  IInv'
  <1>1. /\ program' = program /\ pc' = pc /\ ran' = ran /\ work' = work /\ v' = v /\ s' = s
        /\ mem' = mem /\ shared' = shared /\ aborted' = aborted
    BY DEF vars
  <1>2. /\ \A b, k : At(b, k)' = At(b, k)
        /\ \A b, r, l : Reg(b, r, l)' = Reg(b, r, l)
        /\ \A b, i, l : Place(b, i, l)' = Place(b, i, l)
        /\ \A b : Start(b)' = Start(b) /\ (Steady(b)' <=> Steady(b))
        /\ \A b, l, a, n : Spares(b, l, a, n)' <=> Spares(b, l, a, n)
    BY <1>1, Rigid
  <1>3. /\ \A b : Inst(b)' = Inst(b) /\ (Ended(b)' <=> Ended(b)) /\ Takers(b)' = Takers(b)
        /\ \A b, k, l : Executed(b, k, l)' <=> Executed(b, k, l)
    BY <1>1 DEF Inst, Ended, Takers, Executed
  <1>4. \A b : NextLane(b)' = NextLane(b)
    BY <1>1, <1>3 DEF NextLane
  <1>5. /\ \A b, k, l : Place(b, At(b, k), l)' = Place(b, At(b, k), l)
        /\ \A b, l : Place(b, Inst(b), NextLane(b))' = Place(b, Inst(b), NextLane(b))
        /\ \A b, k : Pointer(b, k)' = Pointer(b, k)
    BY <1>1, <1>2, <1>3, <1>4 DEF Pointer, MemPtr
  <1>6. ControlInv' /\ MemoryInv' /\ FrameInv'
    <2>1. ControlInv'
      BY <1>1, <1>3, <1>4 DEF IInv, ControlInv, BlockControl
    <2>2. MemoryInv'
      BY <1>1 DEF IInv, MemoryInv
    <2>3. \A a, n : Untouched(a, n)' <=> Untouched(a, n)
      BY <1>1, <1>2 DEF Untouched
    <2>4. FrameInv'
      BY <1>1, <2>3 DEF IInv, FrameInv
    <2> QED
      BY <2>1, <2>2, <2>4
  <1>7. ASSUME NEW b \in Blocks PROVE BlockInv(b)'
    <2>0. BlockInv(b)
      BY DEF IInv
    <2>1. RegistersInv(b)'
      <3>1. Quiet(b)' <=> Quiet(b)
        BY <1>1, <1>2 DEF Quiet
      <3>2. \A l : Executed(b, Len(program.code[b]), l)' <=> Executed(b, Len(program.code[b]), l)
        BY <1>1, <1>3
      <3> QED
        BY <1>1, <1>2, <2>0, <3>1, <3>2 DEF BlockInv, RegistersInv
    <2>2. FlatInv(b)'
      BY <1>1, <1>2, <1>3, <2>0 DEF BlockInv, FlatInv
    <2>3. DescriptorInv(b)'
      BY <1>1, <1>2, <1>3, <1>5, <2>0 DEF BlockInv, DescriptorInv
    <2>4. WorkInv(b)'
      BY <1>1, <1>2, <1>3, <1>5, <2>0 DEF BlockInv, WorkInv
    <2>5. ScalarInv(b)'
      <3>1. LoadedWords(b)' = LoadedWords(b)
        BY <1>1, <1>2 DEF LoadedWords
      <3>2. \A r : WordPlace(b, r)' = WordPlace(b, r)
        BY <1>1, <1>2 DEF WordPlace
      <3>3. \A r : Untouched(WordPlace(b, r), 4)' <=> Untouched(WordPlace(b, r), 4)
        BY <1>1, <1>2, <3>2 DEF Untouched
      <3> QED
        BY <1>1, <1>2, <2>0, <3>1, <3>2, <3>3 DEF BlockInv, ScalarInv
    <2>6. SharedInv(b)'
      <3>1. \A l : SharedCase(b, l)' <=> SharedCase(b, l)
        BY <1>1, <1>2 DEF SharedCase
      <3>2. \A l : SharedResult(b, l)' = SharedResult(b, l)
        BY <1>2 DEF SharedResult
      <3> QED
        BY <1>1, <1>2, <1>3, <2>0, <3>1, <3>2 DEF BlockInv, SharedInv
    <2>7. LoadsInv(b)' /\ BufferInv(b)'
      <3>1. \A l, a, n : Private(b, l, a, n)' <=> Private(b, l, a, n)
        BY <1>1, <1>2 DEF Private
      <3>2. \A l : /\ LoadsCase(b, l)' <=> LoadsCase(b, l)
                   /\ BufferCase(b, l)' <=> BufferCase(b, l)
                   /\ Overlaid(b, l)' = Overlaid(b, l)
        BY <1>1, <1>2, <1>5, <3>1 DEF LoadsCase, BufferCase, Overlaid
      <3>3. LoadsInv(b)'
        BY <1>1, <1>2, <1>3, <1>5, <2>0, <3>2 DEF BlockInv, LoadsInv
      <3>4. BufferInv(b)'
        BY <1>1, <1>2, <1>3, <1>5, <2>0, <3>2 DEF BlockInv, BufferInv
      <3> QED
        BY <3>3, <3>4
    <2>8. AddsInv(b)'
      <3>1. \A f : AddsCase(b, f)' <=> AddsCase(b, f)
        BY <1>1, <1>2, <1>5 DEF AddsCase
      <3>2. \A r, n : Added(b, r, n)' = Added(b, r, n)
        BY <1>1, <1>2 DEF Added
      <3>3. \A f, n : Sum(b, f, n)' = Sum(b, f, n)
        BY <1>1, <1>2, <1>5, <3>2 DEF Sum, Before
      <3>4. \A n : Below(b, n)' <=> Below(b, n)
        BY <1>1, <1>3 DEF Below
      <3> QED
        BY <1>1, <1>2, <1>3, <1>5, <2>0, <3>1, <3>3, <3>4 DEF BlockInv, AddsInv
    <2>9. ASSUME NEW c \in Blocks PROVE FlagInv(b, c)'
      <3>1. \A m : Flag1(c, m)' = Flag1(c, m) /\ Flag2(c, m)' = Flag2(c, m)
        BY <1>5 DEF Flag1, Flag2
      <3>2. \A l : FlagCase(b, c, l)' <=> FlagCase(b, c, l)
        BY <1>1, <1>2, <1>5, <3>1 DEF FlagCase
      <3> QED
        BY <1>1, <1>2, <1>3, <1>4, <1>5, <2>0, <3>1, <3>2 DEF BlockInv, FlagInv
    <2> QED
      BY <2>1, <2>2, <2>3, <2>4, <2>5, <2>6, <2>7, <2>8, <2>9 DEF BlockInv
  <1> QED
    BY <1>1, <1>6, <1>7 DEF IInv

LEMMA NextInv == IInv /\ [Next]_vars => IInv'
  <1>1. ASSUME IInv, NEW b \in Blocks, Execute(b) PROVE IInv'
    <2>1. ControlInv /\ MemoryInv /\ FrameInv /\ \A c \in Blocks : BlockInv(c)
      BY <1>1 DEF IInv
    <2>2. StepFacts(b)
      BY <1>1, <2>1, AnyStep
    <2>3. /\ program' = program /\ ControlInv' /\ MemoryInv'
      BY <2>2 DEF StepFacts
    <2>4. RegistersInv(b) /\ DescriptorInv(b) /\ WorkInv(b)
      BY <2>1 DEF BlockInv
    <2>5. \A c \in Blocks : RegistersInv(c)'
      <3>1. \A c \in Blocks : RegistersInv(c)
        BY <2>1 DEF BlockInv
      <3> QED
        BY <2>1, <2>2, <3>1, RegistersStep
    <2>6. \A c \in Blocks : FlatInv(c)'
      <3>1. \A c \in Blocks : FlatInv(c)
        BY <2>1 DEF BlockInv
      <3> QED
        BY <1>1, <2>1, <2>2, <2>4, <3>1, FlatInvStep
    <2>7. \A c \in Blocks : DescriptorInv(c)'
      <3>1. \A c \in Blocks : DescriptorInv(c)
        BY <2>1 DEF BlockInv
      <3> QED
        BY <2>1, <2>2, <2>4, <3>1, DescriptorStep
    <2>8. \A c \in Blocks : WorkInv(c)'
      <3>1. \A c \in Blocks : WorkInv(c)
        BY <2>1 DEF BlockInv
      <3> QED
        BY <1>1, <2>1, <2>2, <2>4, <3>1, WorkStep
    <2>9. FrameInv'
      BY <2>1, <2>2, <2>4, FrameStep
    <2>10. \A c \in Blocks : ScalarInv(c)'
      <3>1. \A c \in Blocks : ScalarInv(c)
        BY <2>1 DEF BlockInv
      <3> QED
        BY <1>1, <2>1, <2>2, <3>1, ScalarInvStep
    <2>11. \A c \in Blocks : SharedInv(c)'
      <3>1. \A c \in Blocks : SharedInv(c)
        BY <2>1 DEF BlockInv
      <3> QED
        BY <1>1, <2>1, <2>2, <2>4, <3>1, SharedInvStep
    <2>12. \A c \in Blocks : LoadsInv(c)'
      <3>1. \A c \in Blocks : LoadsInv(c)
        BY <2>1 DEF BlockInv
      <3> QED
        BY <1>1, <2>1, <2>2, <2>4, <3>1, LoadsInvStep
    <2>13. \A c \in Blocks : BufferInv(c)'
      <3>1. \A c \in Blocks : BufferInv(c)
        BY <2>1 DEF BlockInv
      <3> QED
        BY <1>1, <2>1, <2>2, <2>4, <3>1, BufferInvStep
    <2>14. \A c \in Blocks : AddsInv(c)'
      <3>1. \A c \in Blocks : AddsInv(c)
        BY <2>1 DEF BlockInv
      <3> QED
        BY <1>1, <2>1, <2>2, <2>4, <3>1, AddsInvStep
    <2>15. \A c, d \in Blocks : FlagInv(c, d)'
      <3>1. \A c, d \in Blocks : FlagInv(c, d)
        BY <2>1 DEF BlockInv
      <3> QED
        BY <1>1, <2>1, <2>2, <2>4, <3>1, FlagInvStep
    <2>16. \A c \in Blocks : BlockInv(c)'
      BY <2>5, <2>6, <2>7, <2>8, <2>10, <2>11, <2>12, <2>13, <2>14, <2>15 DEF BlockInv
    <2> QED
      BY <2>3, <2>9, <2>16 DEF IInv
  <1> QED
    BY <1>1, StutterInv DEF Next

(* The registers, the memories and the accesses at work, on any number of  *)
(* blocks, lanes and registers and for every program.                      *)
THEOREM Invariance == Spec => []IInv
  BY InitInv, NextInv, PTL DEF Spec

(* S_LOAD_DWORD*: the words of an address that is formed once are loaded   *)
(* into the registers they belong to, also over the base itself.           *)
THEOREM ScalarLoads == Spec => []ScalarLoadExact
  <1>1. IInv => ScalarLoadExact
    <2> SUFFICES ASSUME IInv, NEW b \in Blocks, NEW r \in 0..MaxS,
                        Ran(b, 1), At(b, 1).op \in SLSOps
                 PROVE  LET i == At(b, 1)
                            a == Wrap(program.s[b][2 * i.base] + 4 * (i.offset + r - i.data))
                        IN  IF r \in i.data..i.data + SLSWords(i.op) - 1
                            THEN Untouched(a, 4) => s[b][r] = Get(program.mem, a, 4)
                            ELSE s[b][r] = program.s[b][r]
      BY DEF ScalarLoadExact, Alone, Untouched
    <2>1. ScalarInv(b) /\ Len(program.code[b]) = 1 /\ pc[b] = 2
      BY DEF IInv, BlockInv, Ran
    <2>2. LoadedWords(b) = SLSWords(At(b, 1).op)
      BY <2>1 DEF LoadedWords
    <2> QED
      BY <2>1, <2>2 DEF ScalarInv, WordPlace
  <1> QED
    BY <1>1, Invariance, PTL

(* Message passing through the global memory: a lane whose two accesses    *)
(* see the flag sees the datum that was stored before it, wherever the     *)
(* steps of the two blocks meet.                                           *)
THEOREM Messages == Spec => []FlagThenData
  <1>1. IInv => FlagThenData
    <2> SUFFICES ASSUME IInv, NEW b \in Blocks, NEW c \in Blocks, NEW l \in Lanes,
                        FlagCase(b, c, l), Ran(b, 1), v[b][At(b, 1).data][l] # 0
                 PROVE  v[b][At(b, 1).data + 1][l] = program.datum
      BY DEF FlagThenData, FlagCase, Flag1, Flag2, Alone, Ran
    <2>1. FlagInv(b, c) /\ Executed(b, 1, l)
      BY DEF IInv, BlockInv, Ran, Executed
    <2> QED
      BY <2>1 DEF FlagInv
  <1> QED
    BY <1>1, Invariance, PTL

(* V_BUFFER_ATOMIC_ADD: no lane's addition is lost though each is a read   *)
(* and a write, as long as no other block writes the word.                 *)
THEOREM Additions == Spec => []AddsApplied
  <1>1. IInv => AddsApplied
    <2> SUFFICES ASSUME IInv, NEW b \in Blocks, NEW f \in Lanes, AddsCase(b, f), Ran(b, 3)
                 PROVE  LET i == At(b, 3)
                            a == Place(b, i, f)
                            before == Get(program.mem, a, 4)
                        IN  /\ Get(mem, a, 4) = Wrap(before + Added(b, i.data, NLanes))
                            /\ "glc" \in i.bits => v[b][i.data][f] = Wrap(before + Added(b, i.data, f))
      BY DEF AddsApplied, AddsCase, Alone, Ran
    <2>1. AddsInv(b) /\ \A l : Executed(b, 3, l)
      BY DEF IInv, BlockInv, Ran, Executed
    <2>2. NLanes \in 0..NLanes /\ Below(b, NLanes)
      <3>1. program \in Programs
        BY DEF IInv, ControlInv
      <3>2. NLanes \in Nat /\ program.active[b] \subseteq 0..NLanes-1
        BY <3>1, ProgramFacts DEF Lanes
      <3> QED
        BY <2>1, <3>2 DEF Below
    <2> QED
      BY <2>1, <2>2 DEF AddsInv, Sum, Before
  <1> QED
    BY <1>1, Invariance, PTL

(* Through V_BUFFER_LOAD_SBYTE, VLS and DLS a lane reads what was last     *)
(* written to the bytes it asks for; registers hold words, memories bytes. *)
THEOREM MemoryResults == Spec => []MemoryExact
  <1>1. ASSUME IInv PROVE TypeOK
    <2>1. ControlInv /\ MemoryInv
      BY <1>1 DEF IInv
    <2>2. ASSUME NEW b \in Blocks PROVE ran[b] \subseteq program.active[b]
      <3>1. CASE Ended(b)
        BY <2>1, <3>1 DEF ControlInv, BlockControl
      <3>2. CASE ~Ended(b)
        <4>1. ran[b] \subseteq Takers(b) /\ Takers(b) = Taking(b, pc[b])
          BY <2>1, <3>2, NextFacts DEF ControlInv, BlockControl
        <4> QED
          BY <2>1, <4>1, ProgramFacts DEF ControlInv
      <3> QED
        BY <3>1, <3>2
    <2> QED
      BY <2>1, <2>2 DEF TypeOK, ControlInv, BlockControl, MemoryInv, Bytes
  <1>2. ASSUME IInv PROVE BufferRoundTrip
    <2> SUFFICES ASSUME NEW b \in Blocks, NEW l \in Lanes, BufferCase(b, l), Ran(b, 4)
                 PROVE  v[b][At(b, 4).data][l] = Extend(Reg(b, At(b, 3).data, l), 1)
      BY DEF BufferRoundTrip, BufferCase, Alone, Private, Ran
    <2>1. BufferInv(b) /\ Executed(b, 4, l)
      BY <1>2 DEF IInv, BlockInv, Ran, Executed
    <2> QED
      BY <2>1 DEF BufferInv
  <1>3. ASSUME IInv PROVE LoadsSeeStores
    <2> SUFFICES ASSUME NEW b \in Blocks, NEW l \in Lanes, LoadsCase(b, l), Ran(b, 3)
                 PROVE  v[b][At(b, 3).data][l] = Overlaid(b, l) % Byte^LoadBytes(At(b, 3).op)
      BY DEF LoadsSeeStores, LoadsCase, Alone, Private, Ran, Overlaid, Overlay
    <2>1. LoadsInv(b) /\ Executed(b, 3, l)
      BY <1>3 DEF IInv, BlockInv, Ran, Executed
    <2> QED
      BY <2>1 DEF LoadsInv
  <1>4. ASSUME IInv PROVE SharedExact
    <2> SUFFICES ASSUME NEW b \in Blocks, NEW l \in Lanes, SharedCase(b, l), Ran(b, 2)
                 PROVE  v[b][At(b, 2).data][l] = SharedResult(b, l)
      BY DEF SharedExact, SharedCase, SharedResult, Ran
    <2>1. SharedInv(b) /\ Executed(b, 2, l)
      BY <1>4 DEF IInv, BlockInv, Ran, Executed
    <2> QED
      BY <2>1 DEF SharedInv
  <1>5. IInv => MemoryExact
    BY <1>1, <1>2, <1>3, <1>4 DEF MemoryExact
  <1> QED
    BY <1>5, Invariance, PTL

(* V_CVTA_SHARED_TO_FLAT: SM 0 recovers the shared address from the pair   *)
(* of registers, and no value of a register is an address of two owners.   *)
THEOREM Addressing == Spec => []AddressesSound
  <1>1. ASSUME IInv PROVE FlatRecovered
    <2> SUFFICES ASSUME NEW b \in Blocks, NEW l \in Lanes, Ran(b, 1),
                        At(b, 1).op = "V_CVTA_SHARED_TO_FLAT", l \in program.active[b]
                 PROVE  LET i == At(b, 1)
                            flat == v[b][i.data][l] + 2^W * v[b][i.data + 1][l]
                        IN  /\ whichspace(flat) = "shared" /\ isspace_shared(0, flat)
                            /\ generic_to_shared(0, flat) = Reg(b, i.base, l)
      BY DEF FlatRecovered
    <2>1. FlatInv(b) /\ Len(program.code[b]) = 1 /\ Executed(b, 1, l)
      BY <1>1 DEF IInv, BlockInv, Ran, Executed
    <2> DEFINE a == Reg(b, At(b, 1).base, l)
    <2>2. /\ a \in SharedAddr
          /\ v[b][At(b, 1).data][l] + 2^W * v[b][At(b, 1).data + 1][l] = shared_to_generic(0, a)
      BY <2>1 DEF FlatInv
    <2>3. 0 \in SM
      BY MemoryAssumption, LayoutAssumption DEF SM
    <2> HIDE DEF a
    <2>4. /\ whichspace(shared_to_generic(0, a)) = "shared"
          /\ isspace_shared(0, shared_to_generic(0, a))
          /\ generic_to_shared(0, shared_to_generic(0, a)) = a
      BY <2>2, <2>3, SharedAddresses DEF SharedRoundTrip
    <2> QED
      BY <2>2, <2>4 DEF a
  <1>2. ASSUME IInv PROVE AddressesUnambiguous
    <2> SUFFICES ASSUME NEW b \in Blocks, NEW r \in 0..MaxV, NEW l \in Lanes
                 PROVE  v[b][r][l] \in Nat
      BY OneOwner DEF AddressesUnambiguous
    <2>1. v[b] \in [0..MaxV -> [Lanes -> Word]]
      BY <1>2 DEF IInv, MemoryInv
    <2>2. v[b][r] \in [Lanes -> Word]
      BY <2>1
    <2> QED
      BY <2>2, WordSize
  <1>3. IInv => AddressesSound
    BY <1>1, <1>2 DEF AddressesSound
  <1> QED
    BY <1>3, Invariance, PTL
=============================================================================
