------------------------- MODULE Checkpoint_proofs -------------------------
(***************************************************************************)
(* The execution of a block and its resumption from checkpoints.           *)
(*                                                                         *)
(* First the safety of ThreadBlock for every warp size, thread count and   *)
(* set of well-formed programs, and whatever the uninitialised fields      *)
(* hold.  It begins with Warp::update on a stack without reconvergence     *)
(* points, the only stacks the instructions of this repository build: the  *)
(* top entry is replaced by one entry for each path its live lanes take.   *)
(*                                                                         *)
(* Then runs that resume from checkpoints, for any number of processes:    *)
(* what execute() relies on survives a kill at any point, as long as the   *)
(* stacks resumed from are whole.                                          *)
(***************************************************************************)
EXTENDS Checkpoint, FiniteSetTheorems, TLAPS

(* Stacks without reconvergence.                                           *)
PlainEntry(e) == e.recvg = NullPC /\ e.type = NORMAL

Plain(stack) == \A i \in DOMAIN stack : PlainEntry(stack[i])

(* Popping keeps every entry but the top (std::deque::pop_back).           *)
LEMMA PopFacts ==
    ASSUME NEW S, NEW stack \in Seq(S), Len(stack) > 0
    PROVE  /\ Pop(stack) \in Seq(S)
           /\ Len(Pop(stack)) = Len(stack) - 1
           /\ \A i \in 1..Len(stack)-1 : Pop(stack)[i] = stack[i]
  BY DEF Pop

(* The blank entry the loop of Warp::update pushes after a path is the one *)
(* it pops at the end.                                                     *)
LEMMA PopAppend ==
    ASSUME NEW S, NEW stack \in Seq(S), NEW e
    PROVE  Pop(Append(stack, e)) = stack
  BY DEF Pop

(* Writing a path into the top entry leaves the entries below alone.       *)
LEMMA SetTopFacts ==
    ASSUME NEW S, NEW stack \in Seq(S), Len(stack) > 0, NEW e \in S
    PROVE  /\ SetTop(stack, e) \in Seq(S)
           /\ Len(SetTop(stack, e)) = Len(stack)
           /\ \A i \in 1..Len(stack)-1 : SetTop(stack, e)[i] = stack[i]
           /\ Top(SetTop(stack, e)) = e
  BY DEF SetTop, Top

(* Reading a path back after the blank entry has been pushed on it.        *)
LEMMA AppendFacts ==
    ASSUME NEW S, NEW stack \in Seq(S), NEW e \in S
    PROVE  /\ Append(stack, e) \in Seq(S)
           /\ Len(Append(stack, e)) = Len(stack) + 1
           /\ \A i \in 1..Len(stack) : Append(stack, e)[i] = stack[i]
           /\ Top(Append(stack, e)) = e
  BY DEF Top

(* Overwriting an entry just pushed is pushing the other entry.            *)
LEMMA SetTopAppend ==
    ASSUME NEW S, NEW stack \in Seq(S), NEW e \in S, NEW f \in S
    PROVE  SetTop(Append(stack, e), f) = Append(stack, f)
  <1>1. /\ SetTop(Append(stack, e), f) \in Seq(S)
        /\ Len(SetTop(Append(stack, e), f)) = Len(stack) + 1
    BY DEF SetTop
  <1>2. Append(stack, f) \in Seq(S) /\ Len(Append(stack, f)) = Len(stack) + 1
    OBVIOUS
  <1>3. \A i \in 1..Len(stack)+1 : SetTop(Append(stack, e), f)[i] = Append(stack, f)[i]
    <2> TAKE i \in 1..Len(stack)+1
    <2>1. CASE i = Len(stack) + 1
      BY <2>1 DEF SetTop
    <2>2. CASE i \in 1..Len(stack)
      <3>1. Append(stack, e)[i] = stack[i] /\ Append(stack, f)[i] = stack[i]
        BY <2>2
      <3>2. i # Len(Append(stack, e)) /\ i \in DOMAIN Append(stack, e)
        BY <2>2
      <3> QED
        BY <3>1, <3>2 DEF SetTop
    <2> QED
      BY <2>1, <2>2
  <1> QED
    BY <1>1, <1>2, <1>3

(* A path of a plain stack as Warp::update stores it.                      *)
PathEntry(stack, gone, next, p) == Entry(p, PathMask(stack, gone, next, p), NullPC, NORMAL)

(* One iteration of the loop on a plain stack: no reconvergence entry is   *)
(* made and no path is discarded, the path is written into the top entry.  *)
LEMMA AddPathPlain ==
    ASSUME NEW L, NEW stack \in Seq(EntrySet(L)), Len(stack) > 0,
           PlainEntry(Top(stack)), NEW top, PlainEntry(top),
           NEW d, NEW p \in Nat, NEW m \in SUBSET L, NEW n \in Nat
    PROVE  AddPath(stack, d, p, m, top, n, NullPC)
             = Append(SetTop(stack, Entry(p, m, NullPC, NORMAL)), Blank)
  <1>1. p # NullPC
    BY DEF NullPC
  <1> QED
    BY <1>1 DEF AddPath, PlainEntry, Reconverges

(* The three outcomes of Warp::update on a plain stack: no lane left, one  *)
(* path, two paths.                                                        *)
Popped(stack, pcs, r) == pcs = {} /\ r = Pop(stack)

OnePath(stack, gone, next, r, p) ==
    /\ NextPCs(stack, gone, next) = {p}
    /\ r = SetTop(stack, PathEntry(stack, gone, next, p))

TwoPaths(stack, gone, next, r, p, q) ==
    /\ p # q
    /\ NextPCs(stack, gone, next) = {p, q}
    /\ r = Append(SetTop(stack, PathEntry(stack, gone, next, p)),
                  PathEntry(stack, gone, next, q))

(* The last iteration of the loop of Warp::update leaves the stack below   *)
(* the path it adds.                                                       *)
LEMMA TopPlain ==
    ASSUME NEW L, NEW stack \in Seq(EntrySet(L)), Len(stack) > 0, Plain(stack)
    PROVE  Top(stack) \in EntrySet(L) /\ PlainEntry(Top(stack)) /\ Top(stack).mask \in SUBSET L
  <1>1. Len(stack) \in DOMAIN stack
    OBVIOUS
  <1>2. Top(stack) \in EntrySet(L)
    BY <1>1 DEF Top
  <1>3. PlainEntry(Top(stack))
    BY <1>1 DEF Top, Plain
  <1> QED
    BY <1>2, <1>3 DEF EntrySet

(* Warp::update on a plain stack, for at most two next program counters.   *)
LEMMA UpdatePlain ==
    ASSUME NEW L, NEW stack \in Seq(EntrySet(L)), Len(stack) > 0, Plain(stack),
           NEW gone \in SUBSET L, NEW next \in [L -> Nat],
           NEW op, op \notin {"CALL", "RET"}, NEW nt \in Nat,
           NEW a, NEW b, NextPCs(stack, gone, next) \subseteq {a, b},
           NEW r, r = Update(stack, gone, next, NullPC, op, nt)
    PROVE  \/ Popped(stack, NextPCs(stack, gone, next), r)
           \/ \E p \in Nat : OnePath(stack, gone, next, r, p)
           \/ \E p, q \in Nat : TwoPaths(stack, gone, next, r, p, q)
  <1> DEFINE pcs == NextPCs(stack, gone, next)
             n   == Cardinality(pcs)
             p1  == FirstPath(pcs, nt)
             p2  == SecondPath(pcs, nt)
             m1  == PathMask(stack, gone, next, p1)
             m2  == PathMask(stack, gone, next, p2)
             s1  == AddPath(stack, 0, p1, m1, Top(stack), n, NullPC)
             k1  == IF Reconverges(Top(stack), p1) THEN 0 ELSE 1
             s2  == AddPath(s1, k1, p2, m2, Top(stack), n, NullPC)
  <1>1. PlainEntry(Top(stack)) /\ Top(stack).mask \in SUBSET L
    BY TopPlain
  <1>2. pcs \subseteq Nat
    BY <1>1 DEF NextPCs
  <1>3. r = CASE n = 0 -> Pop(stack) [] n = 1 -> Pop(s1) [] n > 1 -> Pop(s2)
    BY DEF Update, UpdatePaths
  <1> HIDE DEF m1, m2, p1, p2, k1, n, pcs
  <1>4. CASE pcs = {}
    <2>1. n = 0
      BY <1>4, FS_EmptySet DEF n
    <2> QED
      BY <1>3, <1>4, <2>1 DEF Popped, pcs
  <1>5. ASSUME NEW p \in Nat, pcs = {p}
        PROVE  OnePath(stack, gone, next, r, p)
    <2>1. n = 1
      BY <1>5, FS_Singleton DEF n
    <2>2. p1 = p
      BY <1>5 DEF FirstPath, p1
    <2>3. m1 \in SUBSET L
      BY <1>1 DEF PathMask, m1
    <2>4. s1 = Append(SetTop(stack, Entry(p1, m1, NullPC, NORMAL)), Blank)
      <3>1. n \in Nat /\ p1 \in Nat
        BY <2>1, <2>2
      <3> QED
        BY <1>1, <2>3, <3>1, AddPathPlain
    <2>5. s1 = Append(SetTop(stack, PathEntry(stack, gone, next, p)), Blank)
      BY <2>2, <2>4 DEF PathEntry, m1
    <2>6. SetTop(stack, PathEntry(stack, gone, next, p)) \in Seq(EntrySet(L))
      BY <2>2, <2>3, SetTopFacts DEF PathEntry, Entry, EntrySet, m1
    <2>7. r = Pop(s1)
      BY <1>3, <2>1
    <2> QED
      BY <1>5, <2>5, <2>6, <2>7, PopAppend DEF OnePath, pcs
  <1>6. ASSUME NEW p \in Nat, NEW q \in Nat, p # q, pcs = {p, q}
        PROVE  \E x, y \in Nat : TwoPaths(stack, gone, next, r, x, y)
    <2>1. n = 2
      <3>1. IsFiniteSet({p}) /\ Cardinality({p}) = 1
        BY FS_Singleton
      <3>2. Cardinality({p} \cup {q}) = IF q \in {p} THEN Cardinality({p})
                                                    ELSE Cardinality({p}) + 1
        BY <3>1, FS_AddElement, Zenon
      <3>3. pcs = {p} \cup {q} /\ q \notin {p}
        BY <1>6
      <3> HIDE DEF pcs
      <3>4. Cardinality({p} \cup {q}) = 1 + 1
        BY <3>1, <3>2, <3>3, Zenon
      <3>5. n = 1 + 1
        BY <3>3, <3>4, Zenon DEF n
      <3> HIDE DEF n
      <3> QED
        BY <3>5
    <2>2. p1 \in pcs
      <3>1. \E x \in pcs : \A y \in pcs : x <= y
        BY <1>6
      <3> QED
        BY <3>1 DEF FirstPath, p1
    <2>3. p2 \in pcs /\ p2 # p1
      <3>1. \E x \in pcs : x # p1
        BY <1>6, <2>2
      <3>2. p2 = CHOOSE x \in pcs : x # p1
        BY DEF SecondPath, p1, p2
      <3> QED
        BY <3>1, <3>2
    <2>4. pcs = {p1, p2} /\ p1 \in Nat /\ p2 \in Nat
      BY <1>6, <2>2, <2>3
    <2>5. m1 \in SUBSET L /\ m2 \in SUBSET L
      BY <1>1 DEF PathMask, m1, m2
    <2> DEFINE e1 == Entry(p1, m1, NullPC, NORMAL)
               e2 == Entry(p2, m2, NullPC, NORMAL)
               t1 == SetTop(stack, e1)
               t2 == Append(t1, e2)
               u  == Append(t1, Blank)
    <2>6. s1 = u
      BY <1>1, <2>1, <2>4, <2>5, AddPathPlain
    <2>7. e1 \in EntrySet(L) /\ e2 \in EntrySet(L) /\ Blank \in EntrySet(L)
      BY <2>4, <2>5 DEF Entry, EntrySet, Blank, NullPC, NORMAL
    <2>8. e1 = PathEntry(stack, gone, next, p1) /\ e2 = PathEntry(stack, gone, next, p2)
      BY DEF PathEntry, m1, m2
    <2> HIDE DEF e1
    <2>9. t1 \in Seq(EntrySet(L)) /\ Len(t1) = Len(stack)
      BY <2>7, SetTopFacts
    <2> HIDE DEF t1
    <2>10. u \in Seq(EntrySet(L)) /\ Len(u) > 0 /\ Top(u) = Blank
      BY <2>7, <2>9, AppendFacts
    <2>11. PlainEntry(Top(u))
      BY <2>10 DEF PlainEntry, Blank, Entry
    <2>12. s2 = Append(SetTop(u, e2), Blank)
      <3> HIDE DEF u
      <3> QED
        BY <1>1, <2>1, <2>4, <2>5, <2>6, <2>10, <2>11, AddPathPlain
    <2> HIDE DEF e2
    <2>13. SetTop(u, e2) = t2
      BY <2>7, <2>9, SetTopAppend
    <2>14. t2 \in Seq(EntrySet(L))
      BY <2>7, <2>9, AppendFacts
    <2>15. r = Pop(s2)
      BY <1>3, <2>1
    <2>16. r = t2
      BY <2>12, <2>13, <2>14, <2>15, PopAppend
    <2>17. r = Append(SetTop(stack, PathEntry(stack, gone, next, p1)),
                      PathEntry(stack, gone, next, p2))
      BY <2>8, <2>16 DEF t1
    <2> QED
      BY <2>3, <2>4, <2>17 DEF TwoPaths, pcs
  <1> QED
    <2>1. \/ pcs = {}
          \/ \E p \in Nat : pcs = {p}
          \/ \E p, q \in Nat : p # q /\ pcs = {p, q}
      <3>1. pcs \subseteq {a, b}
        BY DEF pcs
      <3>2. pcs = {} \/ pcs = {a} \/ pcs = {b} \/ (a # b /\ pcs = {a, b})
        BY <3>1
      <3> QED
        BY <1>2, <3>2
    <2> QED
      BY <1>4, <1>5, <1>6, <2>1
-----------------------------------------------------------------------------
(***************************************************************************)
(* A stack that fits the threads of its warp: alive are the lanes that are *)
(* not done, at their program counters and P the addresses of the program. *)
(***************************************************************************)
Covers(stack, alive) == \A l \in alive : \E i \in DOMAIN stack : l \in stack[i].mask

Disjoint(stack) ==
    \A i, j \in DOMAIN stack : i # j => stack[i].mask \cap stack[j].mask = {}

Fits(e, alive, at, P) ==
    /\ PlainEntry(e)
    /\ e.mask # {}
    /\ e.mask \subseteq alive
    /\ e.PC \in P
    /\ \A l \in e.mask : at[l] = e.PC

StackFits(stack, alive, at, P) ==
    /\ \A i \in DOMAIN stack : Fits(stack[i], alive, at, P)
    /\ Covers(stack, alive)
    /\ Disjoint(stack)

(* r is the stack with its top entry replaced by any number of entries     *)
(* that share out the lanes act of the top that are in alive2.             *)
SharesTop(stack, r, act, alive2, at2, P) ==
    /\ Len(r) >= Len(stack) - 1
    /\ \A i \in 1..Len(stack)-1 : r[i] = stack[i]
    /\ \A i \in Len(stack)..Len(r) : Fits(r[i], alive2 \cap act, at2, P)
    /\ \A i, j \in Len(stack)..Len(r) : i # j => r[i].mask \cap r[j].mask = {}
    /\ \A l \in alive2 \cap act : \E i \in Len(stack)..Len(r) : l \in r[i].mask

(* Sharing out the remaining live lanes of the top keeps the fit: the      *)
(* entries below hold other lanes, which the instruction neither moves nor *)
(* ends.                                                                   *)
LEMMA ReplaceTop ==
    ASSUME NEW S, NEW P, NEW stack \in Seq(S), Len(stack) > 0,
           NEW alive, NEW at, StackFits(stack, alive, at, P),
           NEW alive2, NEW at2,
           NEW act, act = Top(stack).mask,
           alive2 \subseteq alive, alive \ act \subseteq alive2,
           \A l \in alive \ act : at2[l] = at[l],
           NEW r \in Seq(S), SharesTop(stack, r, act, alive2, at2, P)
    PROVE  StackFits(r, alive2, at2, P)
  <1> USE DEF SharesTop
  <1> DEFINE k == Len(stack)
  <1>1. /\ k \in Nat /\ k > 0 /\ Len(r) \in Nat /\ DOMAIN r = 1..Len(r)
        /\ DOMAIN stack = 1..k
    OBVIOUS
  <1>2. \A i \in DOMAIN r : i \in 1..k-1 \/ i \in k..Len(r)
    BY <1>1
  <1>3. \A i \in 1..k-1 : /\ r[i] = stack[i]
                         /\ i \in DOMAIN stack /\ i \in DOMAIN r
                         /\ stack[i].mask \cap act = {}
    <2> TAKE i \in 1..k-1
    <2>1. r[i] = stack[i]
      OBVIOUS
    <2>2. i \in DOMAIN stack /\ i \in DOMAIN r /\ k \in DOMAIN stack /\ i # k
      <3>1. Len(r) >= k - 1
        OBVIOUS
      <3> HIDE DEF k, SharesTop
      <3> QED
        BY <1>1, <3>1
    <2>3. stack[i].mask \cap stack[k].mask = {}
      <3> HIDE DEF k
      <3> QED
        BY <2>2 DEF StackFits, Disjoint
    <2> QED
      BY <2>1, <2>2, <2>3 DEF Top
  <1>4. \A i \in k..Len(r) : i \in DOMAIN r
    BY <1>1
  <1> HIDE DEF k
  <1>5. ASSUME NEW i \in DOMAIN r  PROVE Fits(r[i], alive2, at2, P)
    <2>1. CASE i \in 1..k-1
      <3>1. Fits(stack[i], alive, at, P)
        BY <1>3, <2>1 DEF StackFits
      <3>2. stack[i].mask \subseteq alive \ act
        BY <1>3, <2>1, <3>1 DEF Fits
      <3>3. \A l \in stack[i].mask : at2[l] = stack[i].PC
        BY <3>1, <3>2 DEF Fits
      <3>4. Fits(stack[i], alive2, at2, P)
        BY <3>1, <3>2, <3>3 DEF Fits
      <3> QED
        BY <1>3, <2>1, <3>4
    <2>2. CASE i \in k..Len(r)
      BY <2>2 DEF Fits, k
    <2> QED
      BY <1>2, <2>1, <2>2
  <1>6. Covers(r, alive2)
    <2> SUFFICES ASSUME NEW l \in alive2
                 PROVE  \E i \in DOMAIN r : l \in r[i].mask
      BY DEF Covers
    <2>1. CASE l \in act
      BY <1>4, <2>1 DEF k
    <2>2. CASE l \notin act
      <3>1. PICK i \in DOMAIN stack : l \in stack[i].mask
        BY DEF StackFits, Covers
      <3>2. i # k
        BY <2>2, <3>1 DEF Top, k
      <3>3. i \in 1..k-1
        BY <1>1, <3>2
      <3> QED
        BY <1>3, <3>1, <3>3
    <2> QED
      BY <2>1, <2>2
  <1>7. ASSUME NEW i \in DOMAIN r, NEW j \in DOMAIN r, i # j
        PROVE  r[i].mask \cap r[j].mask = {}
    <2>1. \A m \in k..Len(r) : r[m].mask \subseteq act
      BY DEF Fits, k
    <2>2. CASE i \in k..Len(r) /\ j \in k..Len(r)
      BY <1>7, <2>2 DEF k
    <2>3. CASE i \in 1..k-1 /\ j \in 1..k-1
      BY <1>3, <1>7, <2>3 DEF StackFits, Disjoint
    <2>4. CASE i \in 1..k-1 /\ j \in k..Len(r)
      BY <1>3, <2>1, <2>4
    <2>5. CASE i \in k..Len(r) /\ j \in 1..k-1
      BY <1>3, <2>1, <2>5
    <2> QED
      BY <1>2, <2>2, <2>3, <2>4, <2>5
  <1> QED
    BY <1>5, <1>6, <1>7 DEF StackFits, Disjoint

(***************************************************************************)
(* One instruction of a warp: the active lanes move to a or b and the      *)
(* lanes in done end.  Warp::update keeps the stack fitting.               *)
(***************************************************************************)
LEMMA UpdateFits ==
    ASSUME NEW L, NEW P \in SUBSET Nat, NEW stack \in Seq(EntrySet(L)), Len(stack) > 0,
           NEW alive \in SUBSET L, NEW at, StackFits(stack, alive, at, P),
           NEW gone \in SUBSET L, gone \cap alive \subseteq Top(stack).mask,
           NEW next \in [L -> Nat],
           \A l \in alive \ Top(stack).mask : next[l] = at[l],
           NEW a, NEW b, \A l \in Top(stack).mask \ gone : next[l] \in {a, b} \cap P,
           NEW op, op \notin {"CALL", "RET"}, NEW nt \in Nat
    PROVE  LET r == Update(stack, gone, next, NullPC, op, nt)
           IN  r \in Seq(EntrySet(L)) /\ StackFits(r, alive \ gone, next, P)
  <1> DEFINE r == Update(stack, gone, next, NullPC, op, nt)
             act == Top(stack).mask
             k == Len(stack)
             alive2 == alive \ gone
  <1>1. Plain(stack)
    BY DEF StackFits, Fits, Plain
  <1>2. NextPCs(stack, gone, next) \subseteq {a, b}
    BY DEF NextPCs
  <1>3. k \in Nat /\ k > 0 /\ k \in DOMAIN stack /\ act \subseteq alive
    BY DEF StackFits, Fits, Top
  <1>4. act \ gone = alive2 \cap act
    BY <1>3
  <1>5. \A p : PathMask(stack, gone, next, p) = { l \in alive2 \cap act : next[l] = p }
    BY <1>4 DEF PathMask
  <1>6. /\ NextPCs(stack, gone, next) = { next[l] : l \in alive2 \cap act }
        /\ \A l \in alive2 \cap act : next[l] \in NextPCs(stack, gone, next)
    BY <1>4 DEF NextPCs
  <1>7. ASSUME NEW p \in NextPCs(stack, gone, next)
        PROVE  /\ PathEntry(stack, gone, next, p) \in EntrySet(L)
               /\ Fits(PathEntry(stack, gone, next, p), alive2 \cap act, next, P)
               /\ PathEntry(stack, gone, next, p).mask = PathMask(stack, gone, next, p)
    <2>1. p \in P /\ p \in Nat
      BY <1>7 DEF NextPCs
    <2>2. PathMask(stack, gone, next, p) # {} /\ PathMask(stack, gone, next, p) \in SUBSET L
      <3>1. PICK l \in alive2 \cap act : next[l] = p
        BY <1>6, <1>7
      <3>2. l \in PathMask(stack, gone, next, p)
        BY <1>5, <3>1
      <3>3. PathMask(stack, gone, next, p) \subseteq act
        BY <1>5
      <3> QED
        BY <1>3, <3>2, <3>3
    <2> QED
      BY <1>5, <2>1, <2>2 DEF PathEntry, Entry, EntrySet, Fits, PlainEntry, NullPC
  <1>8. /\ alive2 \subseteq alive /\ alive \ act \subseteq alive2
        /\ \A l \in alive \ act : next[l] = at[l]
    OBVIOUS
  <1>9. \/ Popped(stack, NextPCs(stack, gone, next), r)
        \/ \E p \in Nat : OnePath(stack, gone, next, r, p)
        \/ \E p, q \in Nat : TwoPaths(stack, gone, next, r, p, q)
    BY <1>1, <1>2, UpdatePlain
  <1> SUFFICES r \in Seq(EntrySet(L)) /\ StackFits(r, alive2, next, P)
    OBVIOUS
  <1> HIDE DEF r, act, alive2
  <1>10. CASE Popped(stack, NextPCs(stack, gone, next), r)
    <2>1. r = Pop(stack) /\ alive2 \cap act = {}
      BY <1>6, <1>10 DEF Popped
    <2>2. /\ r \in Seq(EntrySet(L)) /\ Len(r) = k - 1
          /\ \A i \in 1..k-1 : r[i] = stack[i]
      BY <2>1, PopFacts
    <2>3. \A i \in k..Len(r) : FALSE
      BY <1>3, <2>2
    <2>4. SharesTop(stack, r, act, alive2, next, P)
      BY <1>3, <2>1, <2>2, <2>3 DEF SharesTop
    <2> QED
      BY <1>3, <1>8, <2>2, <2>4, ReplaceTop DEF act
  <1>11. ASSUME NEW p \in Nat, OnePath(stack, gone, next, r, p)
         PROVE  r \in Seq(EntrySet(L)) /\ StackFits(r, alive2, next, P)
    <2> DEFINE e == PathEntry(stack, gone, next, p)
    <2>1. p \in NextPCs(stack, gone, next) /\ r = SetTop(stack, e)
      BY <1>11 DEF OnePath
    <2>2. e \in EntrySet(L) /\ Fits(e, alive2 \cap act, next, P)
      BY <1>7, <2>1
    <2>3. \A l \in alive2 \cap act : l \in e.mask
      <3>1. e.mask = { l \in alive2 \cap act : next[l] = p }
        BY <1>5, <1>7, <2>1
      <3>2. \A l \in alive2 \cap act : next[l] = p
        BY <1>6, <1>11 DEF OnePath
      <3> QED
        BY <3>1, <3>2
    <2> HIDE DEF e
    <2>4. /\ r \in Seq(EntrySet(L)) /\ Len(r) = k
          /\ \A i \in 1..k-1 : r[i] = stack[i]
          /\ Top(r) = e
      <3>1. e \in EntrySet(L)
        BY <2>2
      <3>2. /\ SetTop(stack, e) \in Seq(EntrySet(L)) /\ Len(SetTop(stack, e)) = k
            /\ \A i \in 1..k-1 : SetTop(stack, e)[i] = stack[i]
            /\ Top(SetTop(stack, e)) = e
        BY <3>1, SetTopFacts
      <3> QED
        BY <2>1, <3>2
    <2>5. \A i \in k..Len(r) : i = k
      BY <1>3, <2>4
    <2>6. k \in k..Len(r) /\ r[k] = e
      BY <1>3, <2>4 DEF Top
    <2>7. SharesTop(stack, r, act, alive2, next, P)
      BY <1>3, <2>2, <2>3, <2>4, <2>5, <2>6 DEF SharesTop
    <2> QED
      BY <1>3, <1>8, <2>4, <2>7, ReplaceTop DEF act
  <1>12. ASSUME NEW p \in Nat, NEW q \in Nat, TwoPaths(stack, gone, next, r, p, q)
         PROVE  r \in Seq(EntrySet(L)) /\ StackFits(r, alive2, next, P)
    <2> DEFINE e == PathEntry(stack, gone, next, p)
               f == PathEntry(stack, gone, next, q)
    <2>1. /\ p \in NextPCs(stack, gone, next) /\ q \in NextPCs(stack, gone, next)
          /\ p # q
          /\ r = Append(SetTop(stack, e), f)
      BY <1>12 DEF TwoPaths
    <2>2. /\ e \in EntrySet(L) /\ Fits(e, alive2 \cap act, next, P)
          /\ f \in EntrySet(L) /\ Fits(f, alive2 \cap act, next, P)
      BY <1>7, <2>1
    <2>3. \A l \in alive2 \cap act : l \in e.mask \/ l \in f.mask
      <3>1. /\ e.mask = { l \in alive2 \cap act : next[l] = p }
            /\ f.mask = { l \in alive2 \cap act : next[l] = q }
        BY <1>5, <1>7, <2>1
      <3>2. \A l \in alive2 \cap act : next[l] = p \/ next[l] = q
        BY <1>6, <1>12 DEF TwoPaths
      <3> QED
        BY <3>1, <3>2
    <2>4. e.mask \cap f.mask = {}
      BY <1>5, <1>7, <2>1
    <2> HIDE DEF e, f
    <2>5. /\ SetTop(stack, e) \in Seq(EntrySet(L)) /\ Len(SetTop(stack, e)) = k
          /\ \A i \in 1..k-1 : SetTop(stack, e)[i] = stack[i]
          /\ Top(SetTop(stack, e)) = e
      <3>1. e \in EntrySet(L) /\ Len(stack) > 0
        BY <2>2
      <3>2. /\ SetTop(stack, e) \in Seq(EntrySet(L)) /\ Len(SetTop(stack, e)) = Len(stack)
            /\ \A i \in 1..Len(stack)-1 : SetTop(stack, e)[i] = stack[i]
            /\ Top(SetTop(stack, e)) = e
        BY <3>1, SetTopFacts, SMTT(30)
      <3> QED
        BY <3>2
    <2>6. /\ r \in Seq(EntrySet(L)) /\ Len(r) = k + 1
          /\ \A i \in 1..k : r[i] = SetTop(stack, e)[i]
          /\ r[k + 1] = f
      BY <2>1, <2>2, <2>5, AppendFacts DEF Top
    <2>7. /\ \A i \in 1..k-1 : r[i] = stack[i]
          /\ r[k] = e
      BY <1>3, <2>5, <2>6 DEF Top
    <2>8. \A i \in k..Len(r) : i = k \/ i = k + 1
      BY <1>3, <2>6
    <2>9. k \in k..Len(r) /\ k + 1 \in k..Len(r)
      BY <1>3, <2>6
    <2>10. /\ \A i \in k..Len(r) : Fits(r[i], alive2 \cap act, next, P)
           /\ \A i, j \in k..Len(r) : i # j => r[i].mask \cap r[j].mask = {}
           /\ \A l \in alive2 \cap act : \E i \in k..Len(r) : l \in r[i].mask
      BY <2>2, <2>3, <2>4, <2>6, <2>7, <2>8, <2>9
    <2>11. SharesTop(stack, r, act, alive2, next, P)
      <3>1. Len(r) >= Len(stack) - 1
        BY <1>3, <2>6
      <3> QED
        BY <2>7, <2>10, <3>1 DEF SharesTop
    <2> QED
      BY <1>3, <1>8, <2>6, <2>11, ReplaceTop DEF act
  <1> QED
    BY <1>9, <1>10, <1>11, <1>12
-----------------------------------------------------------------------------
(* A pass that has seen no live warp so far has left no live warp behind.  *)
PassInv ==
    /\ allDone => \A w \in Warps : w < cur => live[w] = 0
    /\ finished => \A w \in Warps : live[w] = 0

(* The inductive invariant: the stacks fit the live lanes, the counters    *)
(* count them, and the pass over the warps has not lost any.               *)
IInv ==
    /\ TypeOK
    /\ \A w \in Warps : StackFits(stk[w], LiveLanes(w), pc[w], DOMAIN prog)
    /\ LiveCount
    /\ PassInv

(* The warp counts of the constructor and of IsaSim::launch are naturals.  *)
LEMMA WarpCountNat == WarpCount \in Nat /\ BlockWarpCount \in Nat
  BY SizeAssumption DEF WarpCount, BlockWarpCount

(* Every warp has a thread: its first lane is below the thread count.      *)
LEMMA WarpNotEmpty == \A w \in Warps : LanesOf(w) # {}
  <1> SUFFICES ASSUME NEW w \in Warps PROVE LanesOf(w) # {}
    OBVIOUS
  <1> DEFINE a == Threads + WarpSize - 1
  <1>1. a \in Nat /\ WarpSize \in Nat /\ WarpSize > 0 /\ w \in Nat
    BY SizeAssumption DEF Warps
  <1>2. w + 1 <= a \div WarpSize
    BY <1>1, WarpCountNat DEF Warps, WarpCount
  <1>3. (a \div WarpSize) * WarpSize <= a
    <2> HIDE DEF a
    <2> QED
      BY <1>1
  <1>4. (w + 1) * WarpSize <= a
    <2>1. \A m, n, k \in Nat : m <= n => m * k <= n * k
      OBVIOUS
    <2>2. a \div WarpSize \in Nat
      BY WarpCountNat DEF WarpCount
    <2> HIDE DEF a
    <2> QED
      BY <1>1, <1>2, <1>3, <2>1, <2>2
  <1>5. w * WarpSize < Threads
    <2>1. (w + 1) * WarpSize = w * WarpSize + WarpSize
      BY <1>1
    <2>2. w * WarpSize \in Nat
      BY <1>1
    <2> QED
      BY <1>1, <1>4, <2>1, <2>2, SizeAssumption
  <1>6. 0 \in Lanes /\ w * WarpSize + 0 < Threads
    <2>1. w * WarpSize \in Nat
      BY <1>1
    <2> QED
      BY <1>1, <1>5, <2>1 DEF Lanes
  <1> QED
    BY <1>6 DEF LanesOf

(* The sets of lanes are finite, as m_warp_size is a number.               *)
LEMMA LanesFinite ==
    /\ IsFiniteSet(Lanes)
    /\ \A T \in SUBSET Lanes : IsFiniteSet(T) /\ Cardinality(T) \in Nat
  <1>1. IsFiniteSet(Lanes)
    BY SizeAssumption, FS_Interval DEF Lanes
  <1> QED
    BY <1>1, FS_Subset, FS_CardinalityType

(* A block whose threads are all there and whose stacks fit them, before   *)
(* its first pass.                                                         *)
Fresh ==
    /\ prog \in Programs
    /\ stk \in [Warps -> Seq(EntrySet(Lanes))]
    /\ pc \in [Warps -> [Lanes -> Nat]]
    /\ done = [w \in Warps |-> Lanes \ LanesOf(w)]
    /\ status \in [Warps -> SUBSET Lanes]
    /\ live = [w \in Warps |-> Cardinality(LanesOf(w))]
    /\ blocking \in [Warps -> BOOLEAN]
    /\ atBar \in [Warps -> BOOLEAN]
    /\ blockWarps \in Nat
    /\ cur = 0 /\ allDone = TRUE /\ finished = FALSE
    /\ \A w \in Warps : StackFits(stk[w], LanesOf(w), pc[w], DOMAIN prog)

(* Such a block satisfies the invariant (initializeCTA).                   *)
LEMMA FreshInv == Fresh => IInv
  <1> SUFFICES ASSUME Fresh PROVE IInv
    OBVIOUS
  <1> USE DEF Fresh
  <1>1. \A w \in Warps : LanesOf(w) \in SUBSET Lanes
    BY DEF LanesOf
  <1>2. TypeOK
    <2>1. live \in [Warps -> Nat]
      BY <1>1, LanesFinite
    <2>2. cur \in 0..WarpCount
      BY WarpCountNat
    <2> QED
      BY <1>1, <2>1, <2>2 DEF TypeOK
  <1>3. ASSUME NEW w \in Warps
        PROVE  LiveLanes(w) = LanesOf(w)
    BY <1>1 DEF LiveLanes
  <1>4. LiveCount
    BY <1>3 DEF LiveCount
  <1>5. PassInv
    BY WarpCountNat DEF PassInv, Warps
  <1> QED
    BY <1>2, <1>3, <1>4, <1>5 DEF IInv

(* The stack Warp::launch makes fits the lanes of the warp.                *)
LEMMA LaunchFits ==
    ASSUME NEW w \in Warps, NEW P, 0 \in P
    PROVE  /\ Launch(0, LanesOf(w)) \in Seq(EntrySet(Lanes))
           /\ StackFits(Launch(0, LanesOf(w)), LanesOf(w), [l \in Lanes |-> 0], P)
  <1> DEFINE s == Launch(0, LanesOf(w))
             e == Entry(0, LanesOf(w), NullPC, NORMAL)
  <1>1. LanesOf(w) # {} /\ LanesOf(w) \in SUBSET Lanes
    BY WarpNotEmpty DEF LanesOf
  <1>2. e \in EntrySet(Lanes)
    BY <1>1 DEF Entry, EntrySet, NORMAL
  <1>3. s = <<e>>
    BY DEF Launch
  <1>4. e.mask = LanesOf(w) /\ e.PC = 0 /\ PlainEntry(e)
    BY DEF Entry, PlainEntry
  <1> HIDE DEF s, e
  <1>5. s \in Seq(EntrySet(Lanes)) /\ DOMAIN s = {1} /\ s[1] = e
    BY <1>2, <1>3
  <1>6. StackFits(s, LanesOf(w), [l \in Lanes |-> 0], P)
    BY <1>1, <1>4, <1>5 DEF StackFits, Fits, Covers, Disjoint
  <1> QED
    BY <1>5, <1>6 DEF s

(* initializeCTA and createWarp establish the invariant.                   *)
LEMMA InitInv == Init => IInv
  <1> SUFFICES ASSUME Init PROVE Fresh
    BY FreshInv
  <1> USE DEF Init
  <1>1. 0 \in DOMAIN prog
    BY ProgramAssumption DEF WellFormed
  <1>2. /\ stk \in [Warps -> Seq(EntrySet(Lanes))]
        /\ \A w \in Warps : StackFits(stk[w], LanesOf(w), pc[w], DOMAIN prog)
    BY <1>1, LaunchFits
  <1>3. pc \in [Warps -> [Lanes -> Nat]]
    OBVIOUS
  <1>4. status \in [Warps -> SUBSET Lanes]
    OBVIOUS
  <1>5. blocking \in [Warps -> BOOLEAN]
    BY GarbageAssumption
  <1>6. atBar \in [Warps -> BOOLEAN]
    BY GarbageAssumption
  <1>7. blockWarps \in Nat
    BY WarpCountNat
  <1> QED
    BY <1>2, <1>3, <1>4, <1>5, <1>6, <1>7 DEF Fresh
-----------------------------------------------------------------------------
(* What the invariant says of a warp that execute() may run.               *)
LEMMA RunnableWarp ==
    ASSUME IInv, NEW w \in Warps, live[w] > 0
    PROVE  /\ stk[w] \in Seq(EntrySet(Lanes)) /\ Len(stk[w]) > 0
           /\ Active(w) # {} /\ Active(w) \subseteq LiveLanes(w)
           /\ Top(stk[w]).PC \in DOMAIN prog
           /\ \A l \in Active(w) : pc[w][l] = Top(stk[w]).PC
  <1>1. stk[w] \in Seq(EntrySet(Lanes)) /\ LiveLanes(w) \in SUBSET Lanes
    BY DEF IInv, TypeOK, LiveLanes, LanesOf
  <1>2. LiveLanes(w) # {}
    BY FS_EmptySet DEF IInv, LiveCount
  <1>3. StackFits(stk[w], LiveLanes(w), pc[w], DOMAIN prog)
    BY DEF IInv
  <1>4. DOMAIN stk[w] # {}
    BY <1>2, <1>3 DEF StackFits, Covers
  <1>5. Len(stk[w]) > 0 /\ Len(stk[w]) \in DOMAIN stk[w]
    BY <1>1, <1>4
  <1>6. Fits(Top(stk[w]), LiveLanes(w), pc[w], DOMAIN prog)
    BY <1>3, <1>5 DEF StackFits, Top
  <1> QED
    BY <1>1, <1>5, <1>6 DEF Fits, Active

(* An instruction leads its active lanes to at most two places, inside the *)
(* program unless it is T_EXIT (the handlers of InstructionSOPP.cpp).      *)
LEMMA PlacesAt ==
    ASSUME prog \in Programs, NEW w, Top(stk[w]).PC \in DOMAIN prog,
           \A l \in Active(w) : pc[w][l] = Top(stk[w]).PC, NEW cc
    PROVE  LET t == Top(stk[w]).PC
           IN  /\ t \in Nat /\ Inst(w).op \in Ops /\ Inst(w).simm \in Int
               /\ \A l \in Active(w) : NextPC(w, l, cc) \in {t + 1, t + Inst(w).simm} \cap Nat
               /\ Inst(w).op # "T_EXIT" =>
                     \A l \in Active(w) : NextPC(w, l, cc) \in DOMAIN prog
  <1> DEFINE t == Top(stk[w]).PC
  <1>1. t \in DOMAIN prog /\ \A l \in Active(w) : pc[w][l] = t
    OBVIOUS
  <1>2. WellFormed(prog)
    BY ProgramAssumption
  <1>3. /\ t \in Nat /\ DOMAIN prog \subseteq Nat
        /\ Inst(w).op \in Ops /\ Inst(w).simm \in Int
        /\ Inst(w).op # "T_EXIT" => t + 1 \in DOMAIN prog /\ t + Inst(w).simm \in DOMAIN prog
    BY <1>1, <1>2 DEF WellFormed, Inst
  <1> HIDE DEF t
  <1>4. ASSUME NEW l \in Active(w)
        PROVE  /\ NextPC(w, l, cc) \in {t + 1, t + Inst(w).simm}
               /\ NextPC(w, l, cc) \in Nat
               /\ Inst(w).op # "T_EXIT" => NextPC(w, l, cc) \in DOMAIN prog
    <2>1. /\ NextPC(w, l, cc) = t + 1 \/ NextPC(w, l, cc) = t + Inst(w).simm
          /\ Inst(w).op = "T_EXIT" => NextPC(w, l, cc) = t + 1
      BY <1>1 DEF NextPC, Takes
    <2>2. CASE Inst(w).op = "T_EXIT"
      BY <1>3, <2>1, <2>2
    <2>3. CASE Inst(w).op # "T_EXIT"
      BY <1>3, <2>1, <2>3
    <2> QED
      BY <2>1, <2>2, <2>3
  <1> QED
    BY <1>3, <1>4 DEF t

(* So does the instruction of a warp that execute() may run.               *)
LEMMA NextPlaces ==
    ASSUME IInv, NEW w \in Warps, live[w] > 0, NEW cc
    PROVE  LET t == Top(stk[w]).PC
           IN  /\ t \in Nat /\ Inst(w).op \in Ops
               /\ \A l \in Active(w) : NextPC(w, l, cc) \in {t + 1, t + Inst(w).simm} \cap Nat
               /\ Inst(w).op # "T_EXIT" =>
                     \A l \in Active(w) : NextPC(w, l, cc) \in DOMAIN prog
  <1>1. prog \in Programs
    BY DEF IInv, TypeOK
  <1> QED
    BY <1>1, RunnableWarp, PlacesAt

(* executeWarp preserves everything the invariant says of the warp, and    *)
(* leaves the other warps alone.                                           *)
LEMMA ExecuteWarpInv ==
    ASSUME IInv, NEW w \in Warps, live[w] > 0,
           NEW cc \in SUBSET Lanes, ExecuteWarp(w, cc), prog' = prog
    PROVE  /\ stk' \in [Warps -> Seq(EntrySet(Lanes))]
           /\ pc' \in [Warps -> [Lanes -> Nat]]
           /\ done' \in [Warps -> SUBSET Lanes]
           /\ status' \in [Warps -> SUBSET Lanes]
           /\ live' \in [Warps -> Nat]
           /\ blockWarps' \in Nat
           /\ StackFits(stk'[w], LiveLanes(w)', pc'[w], DOMAIN prog)
           /\ live'[w] = Cardinality(LiveLanes(w)')
           /\ \A v \in Warps \ {w} : /\ stk'[v] = stk[v] /\ pc'[v] = pc[v]
                                     /\ done'[v] = done[v] /\ live'[v] = live[v]
           /\ done[w] \subseteq done'[w]
           /\ \A l \in done[w] : pc'[w][l] = pc[w][l]
  <1> DEFINE act == Active(w)
             op  == Inst(w).op
             st  == IF op = "T_EXIT" THEN status[w] \cup act ELSE status[w]
             dn  == done[w] \cup (act \cap st)
             npc == [l \in Lanes |-> IF l \in act THEN NextPC(w, l, cc) ELSE pc[w][l]]
             lv  == live[w] - Cardinality(act \cap dn)
             ex  == IF op = "T_EXIT" THEN Cardinality(act) ELSE 0
             t   == Top(stk[w]).PC
             ll  == LiveLanes(w)
             r   == Update(stk[w], dn, npc, NullPC, op, t + 1)
  <1>1. /\ pc' = [pc EXCEPT ![w] = npc]
        /\ status' = [status EXCEPT ![w] = st]
        /\ done' = [done EXCEPT ![w] = dn]
        /\ live' = [live EXCEPT ![w] = lv]
        /\ blockWarps' = Removed(w, ex, lv)
        /\ stk' = [stk EXCEPT ![w] = r]
    BY DEF ExecuteWarp, StatusAfter, LiveAfter
  <1>2. /\ stk[w] \in Seq(EntrySet(Lanes)) /\ Len(stk[w]) > 0
        /\ act \subseteq ll
        /\ t \in DOMAIN prog
    BY RunnableWarp
  <1>3. /\ t \in Nat /\ op \in Ops
        /\ \A l \in act : NextPC(w, l, cc) \in {t + 1, t + Inst(w).simm} \cap Nat
        /\ op # "T_EXIT" => \A l \in act : NextPC(w, l, cc) \in DOMAIN prog
    BY NextPlaces
  <1>4. /\ ll \in SUBSET Lanes /\ ll \cap done[w] = {}
        /\ done[w] \in SUBSET Lanes /\ status[w] \in SUBSET Lanes
        /\ pc[w] \in [Lanes -> Nat] /\ live[w] = Cardinality(ll)
    BY DEF IInv, TypeOK, LiveCount, LiveLanes, LanesOf
  <1>5. StackFits(stk[w], ll, pc[w], DOMAIN prog)
    BY DEF IInv
  <1>6. TypeOK
    BY DEF IInv
  <1>7. DOMAIN prog \in SUBSET Nat
    BY <1>6, ProgramAssumption DEF TypeOK, WellFormed
  <1>8. LiveLanes(w)' = ll \ dn
    BY <1>1, <1>6 DEF LiveLanes, TypeOK
  <1>9. op \notin {"CALL", "RET"} /\ (op # "T_EXIT" \/ act \subseteq dn)
    BY <1>3 DEF Ops
  <1>10. act = Top(stk[w]).mask
    BY DEF Active
  <1> HIDE DEF act, op, ll, t
  <1>11. act \in SUBSET Lanes /\ st \in SUBSET Lanes /\ dn \in SUBSET Lanes
    BY <1>2, <1>4
  <1>12. npc \in [Lanes -> Nat]
    BY <1>3, <1>4
  <1>13. /\ dn \cap ll \subseteq act
         /\ \A l \in ll \ act : npc[l] = pc[w][l]
         /\ \A l \in act \ dn : npc[l] \in {t + 1, t + Inst(w).simm} \cap DOMAIN prog
    BY <1>3, <1>4, <1>9, <1>11
  <1>14. /\ done[w] \subseteq dn
         /\ \A l \in done[w] : npc[l] = pc[w][l]
    BY <1>2, <1>4
  <1>15. /\ lv \in Nat /\ lv = Cardinality(ll \ dn)
    <2>1. ll \ dn = ll \ (act \cap dn) /\ act \cap dn \in SUBSET ll
      BY <1>2, <1>4
    <2>2. IsFiniteSet(ll)
      BY <1>4, LanesFinite
    <2>3. Cardinality(ll \ (act \cap dn)) = Cardinality(ll) - Cardinality(ll \cap (act \cap dn))
      BY <2>2, FS_Difference
    <2>4. ll \cap (act \cap dn) = act \cap dn
      BY <2>1
    <2>5. Cardinality(ll \ dn) \in Nat
      BY <1>4, LanesFinite
    <2> QED
      BY <1>4, <2>1, <2>3, <2>4, <2>5
  <1>16. ex \in Nat
    BY <1>11, LanesFinite
  <1> HIDE DEF st, dn, npc, lv, ex
  <1>17. r \in Seq(EntrySet(Lanes)) /\ StackFits(r, ll \ dn, npc, DOMAIN prog)
    <2>1. t + 1 \in Nat
      BY <1>3
    <2>2. op \notin {"CALL", "RET"}
      BY <1>3 DEF Ops
    <2> QED
      BY <1>2, <1>4, <1>5, <1>7, <1>10, <1>11, <1>12, <1>13, <2>1, <2>2, UpdateFits
  <1> HIDE DEF r
  <1>18. blockWarps' \in Nat
    BY <1>1, <1>6, <1>15, <1>16, SizeAssumption DEF Removed, TypeOK
  <1>19. /\ stk'[w] = r /\ pc'[w] = npc /\ done'[w] = dn /\ live'[w] = lv
         /\ \A v \in Warps \ {w} : /\ stk'[v] = stk[v] /\ pc'[v] = pc[v]
                                   /\ done'[v] = done[v] /\ live'[v] = live[v]
    BY <1>1, <1>6 DEF TypeOK
  <1>20. /\ stk' \in [Warps -> Seq(EntrySet(Lanes))]
         /\ pc' \in [Warps -> [Lanes -> Nat]]
         /\ done' \in [Warps -> SUBSET Lanes]
         /\ status' \in [Warps -> SUBSET Lanes]
         /\ live' \in [Warps -> Nat]
    BY <1>1, <1>6, <1>11, <1>12, <1>15, <1>17 DEF TypeOK
  <1> QED
    BY <1>8, <1>14, <1>15, <1>17, <1>18, <1>19, <1>20
-----------------------------------------------------------------------------
(* A visit of a warp either leaves it alone or executes one instruction.   *)
LEMMA VisitWarpInv == IInv /\ VisitWarp => IInv'
  <1> SUFFICES ASSUME IInv, VisitWarp PROVE IInv'
    OBVIOUS
  <1>1. /\ TypeOK /\ LiveCount /\ PassInv
        /\ \A w \in Warps : StackFits(stk[w], LiveLanes(w), pc[w], DOMAIN prog)
    BY DEF IInv
  <1>2. /\ cur \in Warps /\ cur \in Nat /\ cur' = cur + 1 /\ cur' \in 0..WarpCount
        /\ ~finished /\ prog' = prog /\ blocking' = blocking /\ atBar' = atBar
        /\ finished' = finished
    BY <1>1, WarpCountNat DEF VisitWarp, TypeOK, Warps
  <1>3. allDone' = (allDone /\ ~(live[cur] > 0))
    BY DEF VisitWarp, AllDoneAfter
  <1>4. allDone' \in BOOLEAN
    BY <1>3
  <1>5. CASE UNCHANGED <<stk, pc, done, status, live, blockWarps>>
    <2>1. TypeOK'
      BY <1>1, <1>2, <1>4, <1>5 DEF TypeOK
    <2>2. \A w \in Warps : LiveLanes(w)' = LiveLanes(w)
      BY <1>5 DEF LiveLanes
    <2>3. \A w \in Warps : StackFits(stk'[w], LiveLanes(w)', pc'[w], DOMAIN prog')
      BY <1>1, <1>2, <1>5, <2>2
    <2>4. LiveCount'
      BY <1>1, <1>5, <2>2 DEF LiveCount
    <2>5. PassInv'
      <3>1. ASSUME allDone', NEW w \in Warps, w < cur'
            PROVE  live'[w] = 0
        <4>1. allDone /\ ~(live[cur] > 0)
          BY <1>3, <3>1
        <4>2. live[cur] = 0
          BY <1>1, <1>2, <4>1 DEF TypeOK
        <4>3. w < cur \/ w = cur
          BY <1>2, <3>1 DEF Warps
        <4> QED
          BY <1>1, <1>5, <4>1, <4>2, <4>3 DEF PassInv
      <3> QED
        BY <1>2, <3>1 DEF PassInv
    <2> QED
      BY <2>1, <2>3, <2>4, <2>5 DEF IInv
  <1>6. ASSUME NEW c \in Warps, c = cur, live[c] > 0, NEW cc \in SUBSET Lanes,
               ExecuteWarp(c, cc)
        PROVE  IInv'
    <2>1. /\ stk' \in [Warps -> Seq(EntrySet(Lanes))]
          /\ pc' \in [Warps -> [Lanes -> Nat]]
          /\ done' \in [Warps -> SUBSET Lanes]
          /\ status' \in [Warps -> SUBSET Lanes]
          /\ live' \in [Warps -> Nat]
          /\ blockWarps' \in Nat
          /\ StackFits(stk'[c], LiveLanes(c)', pc'[c], DOMAIN prog)
          /\ live'[c] = Cardinality(LiveLanes(c)')
          /\ \A v \in Warps \ {c} : /\ stk'[v] = stk[v] /\ pc'[v] = pc[v]
                                    /\ done'[v] = done[v] /\ live'[v] = live[v]
      BY <1>2, <1>6, ExecuteWarpInv
    <2>2. TypeOK'
      BY <1>1, <1>2, <1>4, <2>1 DEF TypeOK
    <2>3. \A v \in Warps \ {c} : LiveLanes(v)' = LiveLanes(v)
      BY <2>1 DEF LiveLanes
    <2>4. ASSUME NEW w \in Warps
          PROVE  /\ StackFits(stk'[w], LiveLanes(w)', pc'[w], DOMAIN prog')
                 /\ live'[w] = Cardinality(LiveLanes(w)')
      <3>1. CASE w = c
        BY <1>2, <2>1, <3>1
      <3>2. CASE w # c
        BY <1>1, <1>2, <2>1, <2>3, <3>2 DEF LiveCount
      <3> QED
        BY <3>1, <3>2
    <2>5. LiveCount'
      BY <2>4 DEF LiveCount
    <2>6. ~allDone' /\ ~finished'
      BY <1>2, <1>3, <1>6
    <2>7. PassInv'
      BY <2>6 DEF PassInv
    <2> QED
      BY <2>2, <2>4, <2>5, <2>7 DEF IInv
  <1>7. \A o : Conditions(o) \subseteq SUBSET Lanes
    BY DEF Conditions
  <1>8. CASE blocking[cur] \/ Warp_at_barrier(cur)
    BY <1>5, <1>8 DEF VisitWarp
  <1>9. CASE ~(blocking[cur] \/ Warp_at_barrier(cur))
    <2>1. live[cur] > 0
      BY <1>9 DEF Warp_at_barrier
    <2>2. PICK c \in Warps : c = cur
      BY <1>2
    <2>3. PICK cc \in Conditions(Inst(c).op) : ExecuteWarp(c, cc)
      BY <1>9, <2>2 DEF VisitWarp
    <2> QED
      BY <1>6, <1>7, <2>1, <2>2, <2>3
  <1> QED
    BY <1>8, <1>9

(* The end of a pass ends the block only when no warp was live.            *)
LEMMA EndPassInv == IInv /\ EndPass => IInv'
  <1> SUFFICES ASSUME IInv, EndPass PROVE IInv'
    OBVIOUS
  <1> USE DEF EndPass
  <1>1. TypeOK /\ LiveCount /\ PassInv
    BY DEF IInv
  <1>2. TypeOK'
    BY <1>1, WarpCountNat DEF TypeOK
  <1>3. \A w \in Warps : LiveLanes(w)' = LiveLanes(w)
    BY DEF LiveLanes
  <1>4. \A w \in Warps : StackFits(stk'[w], LiveLanes(w)', pc'[w], DOMAIN prog')
    BY <1>3 DEF IInv
  <1>5. LiveCount'
    BY <1>1, <1>3 DEF LiveCount
  <1>6. PassInv'
    <2>1. \A w \in Warps : ~(w < 0) /\ w < WarpCount
      BY WarpCountNat DEF Warps
    <2> QED
      BY <1>1, <2>1 DEF PassInv
  <1> QED
    BY <1>2, <1>4, <1>5, <1>6 DEF IInv

(* Every step of execute()'s loop keeps the invariant.                     *)
LEMMA NextInv == IInv /\ [Next]_vars => IInv'
  <1>1. IInv /\ UNCHANGED vars => IInv'
    <2> SUFFICES ASSUME IInv, UNCHANGED vars PROVE IInv'
      OBVIOUS
    <2> USE DEF vars
    <2>1. TypeOK'
      BY DEF IInv, TypeOK
    <2>2. \A w \in Warps : LiveLanes(w)' = LiveLanes(w)
      BY DEF LiveLanes
    <2>3. \A w \in Warps : StackFits(stk'[w], LiveLanes(w)', pc'[w], DOMAIN prog')
      BY <2>2 DEF IInv
    <2>4. LiveCount' /\ PassInv'
      BY <2>2 DEF IInv, LiveCount, PassInv
    <2> QED
      BY <2>1, <2>3, <2>4 DEF IInv
  <1> QED
    BY <1>1, VisitWarpInv, EndPassInv DEF Next, Returned

(* The inductive invariant: every stack fits the live lanes of its warp,   *)
(* the live counters are right and a pass that has found no live warp so   *)
(* far has passed none (execute()'s loop, Warp::update).                   *)
THEOREM Invariance == Spec => []IInv
  BY InitInv, NextInv, PTL DEF Spec

(* A stack that fits shares out the live lanes among its entries, and      *)
(* knows where they are: what get_simt_active_mask and fetch rely on.      *)
LEMMA FitsPartition == IInv => StackPartition /\ StackTracksThreads
  <1>1. IInv => StackPartition
    <2> SUFFICES ASSUME IInv, NEW w \in Warps
                 PROVE  /\ LiveLanes(w) = UNION { stk[w][i].mask : i \in DOMAIN stk[w] }
                        /\ \A i, j \in DOMAIN stk[w] :
                              i # j => stk[w][i].mask \cap stk[w][j].mask = {}
      BY DEF StackPartition
    <2>1. StackFits(stk[w], LiveLanes(w), pc[w], DOMAIN prog)
      BY DEF IInv
    <2> QED
      BY <2>1 DEF StackFits, Covers, Disjoint, Fits
  <1>2. IInv => StackTracksThreads
    BY DEF IInv, StackTracksThreads, StackFits, Fits
  <1> QED
    BY <1>1, <1>2

(* The stack of every warp partitions its live lanes, for every warp size, *)
(* block size and program (from the fit Warp::update keeps).               *)
THEOREM Partition == Spec => []StackPartition
  <1>1. IInv => StackPartition
    BY FitsPartition
  <1> QED
    BY <1>1, Invariance, PTL

(* Each live lane is at the PC of the entry it waits in: updateSIMTStack   *)
(* groups the lanes by the program counters that Execute has left them.    *)
THEOREM Tracking == Spec => []StackTracksThreads
  <1>1. IInv => StackTracksThreads
    BY FitsPartition
  <1> QED
    BY <1>1, Invariance, PTL

(* Every field stays in its range: a program counter never leaves the      *)
(* naturals, the unsigned m_block_warp_count wraps around, and             *)
(* checkExecutionStatusAndUpdate never takes a live counter below zero.    *)
THEOREM Typing == Spec => []TypeOK
  <1>1. IInv => TypeOK
    BY DEF IInv
  <1> QED
    BY <1>1, Invariance, PTL

(* The live counter of a warp is the number of its threads that are not    *)
(* done (checkExecutionStatusAndUpdate).                                   *)
THEOREM Counting == Spec => []LiveCount
  <1>1. IInv => LiveCount
    BY DEF IInv
  <1> QED
    BY <1>1, Invariance, PTL

(* execute() returns only when every thread of the block is done.          *)
THEOREM Completion == Spec => []FinishedDone
  <1>1. IInv => FinishedDone
    <2> SUFFICES ASSUME IInv, finished, NEW w \in Warps PROVE LiveLanes(w) = {}
      BY DEF FinishedDone
    <2>1. live[w] = 0 /\ live[w] = Cardinality(LiveLanes(w))
      BY DEF IInv, PassInv, LiveCount
    <2>2. LiveLanes(w) \in SUBSET Lanes
      BY DEF LiveLanes, LanesOf
    <2>3. IsFiniteSet(LiveLanes(w))
      BY <2>2, LanesFinite
    <2> QED
      BY <2>1, <2>3, FS_EmptySet
  <1> QED
    BY <1>1, Invariance, PTL

(* The lanes of an instruction go to at most two places, so Warp::update   *)
(* meets its assertion.                                                    *)
LEMMA AtMostTwo ==
    ASSUME NEW a, NEW b, NEW S, S \subseteq {a, b}
    PROVE  Cardinality(S) <= 2
  <1>1. IsFiniteSet({a}) /\ Cardinality({a}) = 1
    BY FS_Singleton
  <1>2. /\ IsFiniteSet({a} \cup {b})
        /\ Cardinality({a} \cup {b}) = IF b \in {a} THEN Cardinality({a})
                                                 ELSE Cardinality({a}) + 1
    BY <1>1, FS_AddElement, Zenon
  <1>3. {a} \cup {b} = {a, b}
    OBVIOUS
  <1>4. IsFiniteSet({a, b}) /\ Cardinality({a, b}) \in Nat /\ Cardinality({a, b}) <= 2
    BY <1>1, <1>2, <1>3
  <1>5. Cardinality(S) <= Cardinality({a, b}) /\ IsFiniteSet(S)
    BY <1>4, FS_Subset
  <1>6. Cardinality(S) \in Nat
    BY <1>5, FS_CardinalityType
  <1> QED
    BY <1>4, <1>5, <1>6

(* No program can make ThreadBlock or Warp::update fail an assertion, as   *)
(* long as no instruction has a reconvergence point.                       *)
THEOREM Assertions == Spec => []AssertsHold
  <1>1. IInv => AssertsHold
    <2> SUFFICES ASSUME IInv, NEW w \in Warps, live[w] > 0
                 PROVE  /\ Len(stk[w]) > 0
                        /\ Active(w) # {}
                        /\ Active(w) \cap done[w] = {}
                        /\ Top(stk[w]).PC \in DOMAIN prog
                        /\ \A cc \in Conditions(Inst(w).op) :
                              UpdateAsserts(stk[w], {}, [l \in Lanes |-> NextPC(w, l, cc)],
                                            Inst(w).op, Top(stk[w]).PC)
      BY DEF AssertsHold
    <2>1. /\ Len(stk[w]) > 0 /\ Active(w) # {} /\ Active(w) \subseteq LiveLanes(w)
          /\ Top(stk[w]).PC \in DOMAIN prog
      BY RunnableWarp
    <2>2. Active(w) \cap done[w] = {} /\ Active(w) \subseteq Lanes
      BY <2>1 DEF LiveLanes, LanesOf
    <2>3. ASSUME NEW cc
          PROVE  UpdateAsserts(stk[w], {}, [l \in Lanes |-> NextPC(w, l, cc)],
                               Inst(w).op, Top(stk[w]).PC)
      <3> DEFINE next == [l \in Lanes |-> NextPC(w, l, cc)]
                 pcs  == NextPCs(stk[w], {}, next)
                 t    == Top(stk[w]).PC
      <3>1. /\ Inst(w).op \in Ops
            /\ \A l \in Active(w) : NextPC(w, l, cc) \in {t + 1, t + Inst(w).simm} \cap Nat
        BY NextPlaces
      <3>2. Inst(w).op # "CALL" /\ Inst(w).op # "RET"
        BY <3>1 DEF Ops
      <3>3. pcs \subseteq {t + 1, t + Inst(w).simm}
        BY <2>2, <3>1 DEF NextPCs, Active
      <3>4. Cardinality(pcs) <= 2
        BY <3>3, AtMostTwo
      <3> QED
        BY <2>1, <3>2, <3>4 DEF UpdateAsserts, Active
    <2> QED
      BY <2>1, <2>2, <2>3
  <1> QED
    BY <1>1, Invariance, PTL

(* A step of execute()'s loop runs one instruction of one warp, or moves   *)
(* no thread.                                                              *)
LEMMA StepCases ==
    ASSUME IInv, [Next]_vars
    PROVE  /\ prog' = prog
           /\ \/ UNCHANGED <<stk, pc, done, status>>
              \/ \E c \in Warps, cc \in SUBSET Lanes : live[c] > 0 /\ ExecuteWarp(c, cc)
  <1>1. CASE VisitWarp
    <2>1. prog' = prog /\ cur \in Warps
      BY <1>1, WarpCountNat DEF VisitWarp, IInv, TypeOK, Warps
    <2>2. CASE blocking[cur] \/ Warp_at_barrier(cur)
      BY <1>1, <2>1, <2>2 DEF VisitWarp
    <2>3. CASE ~(blocking[cur] \/ Warp_at_barrier(cur))
      <3>1. live[cur] > 0
        BY <2>3 DEF Warp_at_barrier
      <3>2. PICK c \in Warps : c = cur
        BY <2>1
      <3>3. PICK cc \in Conditions(Inst(c).op) : ExecuteWarp(c, cc)
        BY <1>1, <2>3, <3>2 DEF VisitWarp
      <3>4. cc \in SUBSET Lanes
        BY DEF Conditions
      <3> QED
        BY <2>1, <3>1, <3>2, <3>3, <3>4
    <2> QED
      BY <2>2, <2>3
  <1> QED
    BY <1>1 DEF Next, EndPass, Returned, vars

(* A finished thread never runs again: no later instruction of its warp    *)
(* moves it or brings it back.                                             *)
THEOREM Finality == Spec => DoneIsFinal
  <1> DEFINE Final == \A w \in Warps : \A l \in done[w] :
                          l \in done'[w] /\ pc'[w][l] = pc[w][l]
  <1>1. IInv /\ [Next]_vars => [Final]_vars
    <2> SUFFICES ASSUME IInv, [Next]_vars PROVE Final
      OBVIOUS
    <2>1. CASE UNCHANGED <<stk, pc, done, status>>
      BY <2>1
    <2>2. ASSUME NEW c \in Warps, NEW cc \in SUBSET Lanes, live[c] > 0,
                 ExecuteWarp(c, cc), prog' = prog
          PROVE  Final
      <3>1. /\ \A v \in Warps \ {c} : pc'[v] = pc[v] /\ done'[v] = done[v]
            /\ done[c] \subseteq done'[c]
            /\ \A k \in done[c] : pc'[c][k] = pc[c][k]
        BY <2>2, ExecuteWarpInv
      <3> QED
        BY <3>1
    <2> QED
      BY <2>1, <2>2, StepCases
  <1> QED
    BY <1>1, Invariance, PTL DEF Spec, DoneIsFinal

(* A thread whose m_status is EXIT is done, and has executed T_EXIT.       *)
ExitInv == EndsAtExit /\ \A w \in Warps : status[w] \subseteq done[w]

(* T_EXIT ends the lanes that execute it and leaves them behind it; no     *)
(* other instruction ends a thread whose m_status is not EXIT.             *)
LEMMA ExitStep == IInv /\ ExitInv /\ [Next]_vars => ExitInv'
  <1> SUFFICES ASSUME IInv, ExitInv, [Next]_vars PROVE ExitInv'
    OBVIOUS
  <1>1. CASE UNCHANGED <<stk, pc, done, status>> /\ prog' = prog
    BY <1>1 DEF ExitInv, EndsAtExit
  <1>2. ASSUME NEW c \in Warps, NEW cc \in SUBSET Lanes, live[c] > 0,
               ExecuteWarp(c, cc), prog' = prog
        PROVE  ExitInv'
    <2> DEFINE act == Active(c)
               t   == Top(stk[c]).PC
               Ended(w, q, d) == \A l \in LanesOf(w) \cap d : q[l] > 0 /\ prog[q[l] - 1].op = "T_EXIT"
    <2>1. /\ act \subseteq LiveLanes(c) /\ t \in DOMAIN prog
          /\ \A l \in act : pc[c][l] = t
      BY <1>2, RunnableWarp
    <2>2. act \cap done[c] = {} /\ act \subseteq Lanes
      BY <2>1 DEF LiveLanes, LanesOf
    <2>3. t \in Nat /\ Inst(c) = prog[t]
      BY <2>1, ProgramAssumption DEF IInv, TypeOK, WellFormed, Inst
    <2>4. TypeOK /\ status[c] \subseteq done[c] /\ Ended(c, pc[c], done[c])
      BY DEF IInv, ExitInv, EndsAtExit
    <2>5. /\ \A v \in Warps \ {c} : pc'[v] = pc[v] /\ done'[v] = done[v]
          /\ \A l \in done[c] : pc'[c][l] = pc[c][l]
      BY <1>2, ExecuteWarpInv
    <2>6. /\ status' = [status EXCEPT ![c] = StatusAfter(c)]
          /\ done' = [done EXCEPT ![c] = done[c] \cup (act \cap StatusAfter(c))]
          /\ pc' = [pc EXCEPT ![c] = [l \in Lanes |-> IF l \in act THEN NextPC(c, l, cc) ELSE pc[c][l]]]
      BY <1>2 DEF ExecuteWarp
    <2>7. /\ status'[c] = StatusAfter(c)
          /\ done'[c] = done[c] \cup (act \cap StatusAfter(c))
          /\ \A v \in Warps \ {c} : status'[v] = status[v]
          /\ pc'[c] = [l \in Lanes |-> IF l \in act THEN NextPC(c, l, cc) ELSE pc[c][l]]
      BY <2>4, <2>6 DEF TypeOK
    <2> HIDE DEF act, t
    <2>8. CASE Inst(c).op = "T_EXIT"
      <3>1. StatusAfter(c) = status[c] \cup act
        BY <2>8 DEF StatusAfter, act
      <3>2. done'[c] = done[c] \cup act /\ status'[c] \subseteq done'[c]
        BY <2>4, <2>7, <3>1
      <3>3. \A l \in act : NextPC(c, l, cc) = t + 1
        BY <2>1, <2>8 DEF NextPC, Takes
      <3>4. \A l \in act : pc'[c][l] = t + 1
        BY <2>2, <2>7, <3>3
      <3>5. t + 1 > 0 /\ (t + 1) - 1 = t
        BY <2>3
      <3>6. Ended(c, pc'[c], done'[c])
        <4> SUFFICES ASSUME NEW l \in LanesOf(c) \cap done'[c]
                     PROVE  pc'[c][l] > 0 /\ prog[pc'[c][l] - 1].op = "T_EXIT"
          OBVIOUS
        <4>1. CASE l \in act
          BY <2>3, <2>8, <3>4, <3>5, <4>1
        <4>2. CASE l \in done[c]
          BY <2>4, <2>5, <4>2
        <4> QED
          BY <3>2, <4>1, <4>2
      <3> QED
        BY <1>2, <2>5, <2>7, <3>2, <3>6 DEF ExitInv, EndsAtExit
    <2>9. CASE Inst(c).op # "T_EXIT"
      <3>1. StatusAfter(c) = status[c]
        BY <2>9 DEF StatusAfter
      <3>2. done'[c] = done[c] /\ status'[c] \subseteq done'[c]
        BY <2>2, <2>4, <2>7, <3>1
      <3>3. Ended(c, pc'[c], done'[c])
        BY <2>4, <2>5, <3>2
      <3> QED
        BY <1>2, <2>5, <2>7, <3>2, <3>3 DEF ExitInv, EndsAtExit
    <2> QED
      BY <2>8, <2>9
  <1> QED
    BY <1>1, <1>2, StepCases

(* A thread whose m_status is EXIT and that is not done has yet to execute *)
(* its first instruction.                                                  *)
EndInv ==
    EndsExplained /\ \A w \in Warps : \A l \in LanesOf(w) \cap status[w] : l \in done[w] \/ pc[w][l] = 0

(* An instruction ends the lanes whose m_status is EXIT: all of them at a  *)
(* T_EXIT, and at another one those that were never initialised, which are *)
(* at the first instruction.                                               *)
LEMMA EndStep == IInv /\ EndInv /\ [Next]_vars => EndInv'
  <1> SUFFICES ASSUME IInv, EndInv, [Next]_vars PROVE EndInv'
    OBVIOUS
  <1>1. CASE UNCHANGED <<stk, pc, done, status>> /\ prog' = prog
    BY <1>1 DEF EndInv, EndsExplained
  <1>2. ASSUME NEW c \in Warps, NEW cc \in SUBSET Lanes, live[c] > 0,
               ExecuteWarp(c, cc), prog' = prog
        PROVE  EndInv'
    <2> DEFINE act == Active(c)
               t   == Top(stk[c]).PC
               Ended(q, l) == \/ q[l] > 0 /\ prog[q[l] - 1].op = "T_EXIT"
                              \/ q[l] \in {1, prog[0].simm}
    <2>1. /\ act \subseteq LiveLanes(c) /\ t \in DOMAIN prog
          /\ \A l \in act : pc[c][l] = t
      BY <1>2, RunnableWarp
    <2>2. act \cap done[c] = {} /\ act \subseteq LanesOf(c) /\ act \subseteq Lanes
      BY <2>1 DEF LiveLanes, LanesOf
    <2>3. /\ t \in Nat /\ Inst(c) = prog[t]
          /\ \A l \in act : NextPC(c, l, cc) \in {t + 1, t + Inst(c).simm} /\ Inst(c).simm \in Int
      BY <1>2, <2>1, NextPlaces, ProgramAssumption DEF IInv, TypeOK, WellFormed, Inst
    <2>4. /\ TypeOK
          /\ \A l \in LanesOf(c) \cap done[c] : Ended(pc[c], l)
          /\ \A l \in LanesOf(c) \cap status[c] : l \in done[c] \/ pc[c][l] = 0
      BY DEF IInv, EndInv, EndsExplained
    <2>5. /\ \A v \in Warps \ {c} : pc'[v] = pc[v] /\ done'[v] = done[v]
          /\ \A l \in done[c] : pc'[c][l] = pc[c][l]
      BY <1>2, ExecuteWarpInv
    <2>6. /\ status' = [status EXCEPT ![c] = StatusAfter(c)]
          /\ done' = [done EXCEPT ![c] = done[c] \cup (act \cap StatusAfter(c))]
          /\ pc' = [pc EXCEPT ![c] = [l \in Lanes |-> IF l \in act THEN NextPC(c, l, cc) ELSE pc[c][l]]]
      BY <1>2 DEF ExecuteWarp
    <2>7. /\ status'[c] = StatusAfter(c)
          /\ done'[c] = done[c] \cup (act \cap StatusAfter(c))
          /\ \A v \in Warps \ {c} : status'[v] = status[v]
          /\ \A l \in Lanes : pc'[c][l] = IF l \in act THEN NextPC(c, l, cc) ELSE pc[c][l]
      BY <2>4, <2>6 DEF TypeOK
    <2>8. StatusAfter(c) = IF Inst(c).op = "T_EXIT" THEN status[c] \cup act ELSE status[c]
      BY DEF StatusAfter, act
    <2> HIDE DEF act, t
    <2>9. ASSUME NEW l \in LanesOf(c) \cap done'[c] PROVE Ended(pc'[c], l)
      <3>1. CASE l \in done[c]
        BY <2>4, <2>5, <3>1
      <3>2. CASE l \in act /\ Inst(c).op = "T_EXIT"
        <4>1. NextPC(c, l, cc) = t + 1
          BY <2>1, <3>2 DEF NextPC, Takes
        <4>2. pc'[c][l] = t + 1
          BY <2>2, <2>7, <3>2, <4>1
        <4>3. t + 1 > 0 /\ (t + 1) - 1 = t
          BY <2>3
        <4> QED
          BY <2>3, <3>2, <4>2, <4>3
      <3>3. CASE l \in act /\ Inst(c).op # "T_EXIT" /\ l \notin done[c]
        <4>1. l \in status[c]
          BY <2>7, <2>8, <3>3
        <4>2. t = 0
          BY <2>1, <2>2, <2>4, <3>3, <4>1
        <4>3. NextPC(c, l, cc) \in {1, prog[0].simm}
          BY <2>3, <3>3, <4>2
        <4> QED
          BY <2>2, <2>7, <3>3, <4>3
      <3> QED
        BY <2>7, <3>1, <3>2, <3>3
    <2>10. ASSUME NEW l \in LanesOf(c) \cap status'[c] PROVE l \in done'[c] \/ pc'[c][l] = 0
      <3>1. CASE l \in act
        BY <2>7, <3>1
      <3>2. CASE l \notin act
        <4>1. l \in status[c] /\ l \in Lanes
          BY <2>7, <2>8, <3>2 DEF LanesOf
        <4> QED
          BY <2>4, <2>7, <3>2, <4>1
      <3> QED
        BY <3>1, <3>2
    <2>11. ASSUME NEW v \in Warps \ {c}
           PROVE  /\ \A l \in LanesOf(v) \cap done'[v] : Ended(pc'[v], l)
                  /\ \A l \in LanesOf(v) \cap status'[v] : l \in done'[v] \/ pc'[v][l] = 0
      BY <2>5, <2>7 DEF EndInv, EndsExplained
    <2> QED
      BY <1>2, <2>9, <2>10, <2>11 DEF EndInv, EndsExplained
  <1> QED
    BY <1>1, <1>2, StepCases

(* A thread ends by T_EXIT, in every program and whatever its fields held  *)
(* before: an m_status that happened to read as EXIT can only end it with  *)
(* the first instruction, and no divergence or pass ends another thread.   *)
THEOREM Endings == Spec => []EndsExplained
  <1>1. Init => EndInv
    <2> SUFFICES ASSUME Init PROVE EndInv
      OBVIOUS
    <2>1. \A w \in Warps : LanesOf(w) \cap done[w] = {} /\ LanesOf(w) \subseteq Lanes
      BY DEF Init, LanesOf
    <2>2. \A w \in Warps : \A l \in Lanes : pc[w][l] = 0
      BY DEF Init
    <2> QED
      BY <2>1, <2>2 DEF EndInv, EndsExplained
  <1>2. EndInv => EndsExplained
    BY DEF EndInv
  <1> QED
    BY <1>1, <1>2, EndStep, Invariance, PTL DEF Spec
-----------------------------------------------------------------------------
(* Resumption.                                                             *)

(* A stack of warp w that fits some threads of it, wherever they are.      *)
Shaped(w, s) ==
    /\ s \in Seq(EntrySet(Lanes))
    /\ \E ll \in SUBSET LanesOf(w), at \in [Lanes -> Nat] : StackFits(s, ll, at, DOMAIN prog)

(* A run that takes a checkpoint makes one pass: the warps it has not      *)
(* visited are as createWarp has left them.                                *)
Unvisited(w) ==
    /\ done[w] = Lanes \ LanesOf(w)
    /\ status[w] = {}
    /\ Len(stk[w]) > 0
    /\ \A l \in Active(w) : pc[w][l] = Top(stk[w]).PC
    /\ from[w] # NoFile => stk[w] = from[w] /\ live[w] > 0

(* The stack s is one instruction after the whole stack f.                 *)
OneOn(f, s) ==
    Whole(f) => LET i == prog[Top(f).PC]
                IN  IF i.op = "T_EXIT"
                    THEN s = <<>>
                    ELSE /\ \A k \in DOMAIN s : s[k].PC - Top(f).PC \in {1, i.simm}
                         /\ Covers(s, Lanes) /\ Disjoint(s)

(* A warp that was visited has made one step, unless it was passed over.   *)
Visited(w) == from[w] # NoFile /\ ~blocking[w] /\ ~atBar[w] => OneOn(from[w], stk[w])

(* The file f holds the entries of the stack s from the bottom, or the     *)
(* first of them.                                                          *)
Printed(f, s) ==
    f \in Seq(Lines) /\ Len(f) <= Len(s) /\ \A i \in 1..Len(f) : f[i] = Line(s[i])

CpTypes ==
    /\ prog \in Programs
    /\ blocking \in [Warps -> BOOLEAN] /\ atBar \in [Warps -> BOOLEAN]
    /\ mode \in Modes
    /\ phase \in {"off", "nofile", "assert"} \cup Alive
    /\ cursor \in 0..1 /\ name \in -1..0
    /\ saved \in 0..WarpCount
    /\ phase = "running" => saved = 0
    /\ phase \in {"saving", "writing"} => saved < WarpCount
    /\ files \in [Warps -> Seq(Lines) \cup {NoFile}]
    /\ from \in [Warps -> Seq(EntrySet(Lanes)) \cup {NoFile}]
    /\ runs \in 0..MaxRuns

FilesInv == \A w \in Warps : files[w] # NoFile => Shaped(w, resume(files[w]))

AllWhole == \A w \in Warps : Whole(from[w])

WholeInv == phase = "running" /\ AllWhole => IInv /\ ExitInv

(* From the start of a run that takes a checkpoint until its last file.    *)
Checkpointing == phase \in {"saving", "writing"} \/ (phase = "running" /\ Saves(mode))

SaveInv ==
    Checkpointing =>
        /\ stk \in [Warps -> Seq(EntrySet(Lanes))]
        /\ pc \in [Warps -> [Lanes -> Nat]]
        /\ done \in [Warps -> SUBSET Lanes] /\ status \in [Warps -> SUBSET Lanes]
        /\ DOMAIN live = Warps
        /\ cur \in 0..WarpCount
        /\ \A w \in Warps :
              /\ Shaped(w, stk[w])
              /\ IF phase = "running" /\ w >= cur THEN Unvisited(w) ELSE Visited(w)
        /\ phase = "writing" => Printed(files[saved], stk[saved])

CpIInv == CpTypes /\ FilesInv /\ WholeInv /\ AssertsExplained /\ SaveInv
-----------------------------------------------------------------------------
(* The entry that Warp::resume makes of a line.                            *)
ReadLine(g) == Entry(g.PC, { l \in Lanes : g.bits[l] = 1 }, g.recvg,
                     IF g.type = 0 THEN NORMAL ELSE CALL)

(* Warp::resume reads back the entry that print_checkpoint has written.    *)
LEMMA LineRead ==
    ASSUME NEW e \in EntrySet(Lanes)
    PROVE  Line(e) \in Lines /\ ReadLine(Line(e)) = e
  <1> DEFINE bits == [l \in Lanes |-> IF l \in e.mask THEN 1 ELSE 0]
             type == IF e.type = CALL THEN 1 ELSE 0
  <1>1. /\ e = [PC |-> e.PC, mask |-> e.mask, recvg |-> e.recvg, type |-> e.type]
        /\ e.mask \in SUBSET Lanes /\ e.type \in {NORMAL, CALL}
        /\ e.PC \in Nat \cup {NullPC} /\ e.recvg \in Nat \cup {NullPC}
    BY DEF EntrySet
  <1>2. Line(e) = [bits |-> bits, PC |-> e.PC, recvg |-> e.recvg, type |-> type]
    BY DEF Line
  <1>3. bits \in [Lanes -> 0..1] /\ type \in 0..1
    OBVIOUS
  <1>4. { l \in Lanes : bits[l] = 1 } = e.mask
    BY <1>1
  <1>5. (IF type = 0 THEN NORMAL ELSE CALL) = e.type
    BY <1>1
  <1> HIDE DEF bits, type
  <1>6. Line(e) \in Lines
    BY <1>1, <1>2, <1>3 DEF Lines
  <1>7. ReadLine(Line(e)) = Entry(e.PC, e.mask, e.recvg, e.type)
    BY <1>2, <1>4, <1>5 DEF ReadLine
  <1> QED
    BY <1>1, <1>6, <1>7 DEF Entry

(* print_checkpoint writes the line again that Warp::resume has read.      *)
LEMMA LineWritten ==
    ASSUME NEW g \in Lines
    PROVE  ReadLine(g) \in EntrySet(Lanes) /\ Line(ReadLine(g)) = g
  <1> DEFINE m == { l \in Lanes : g.bits[l] = 1 }
             ty == IF g.type = 0 THEN NORMAL ELSE CALL
  <1>1. /\ g = [bits |-> g.bits, PC |-> g.PC, recvg |-> g.recvg, type |-> g.type]
        /\ g.bits \in [Lanes -> 0..1] /\ g.type \in 0..1
        /\ g.PC \in Nat \cup {NullPC} /\ g.recvg \in Nat \cup {NullPC}
    BY DEF Lines
  <1>2. ReadLine(g) = [PC |-> g.PC, mask |-> m, recvg |-> g.recvg, type |-> ty]
    BY DEF ReadLine, Entry
  <1>3. m \in SUBSET Lanes /\ ty \in {NORMAL, CALL}
    OBVIOUS
  <1>4. [l \in Lanes |-> IF l \in m THEN 1 ELSE 0] = g.bits
    BY <1>1
  <1>5. (IF ty = CALL THEN 1 ELSE 0) = g.type
    BY <1>1 DEF NORMAL, CALL
  <1> HIDE DEF m, ty
  <1>6. ReadLine(g) \in EntrySet(Lanes)
    BY <1>1, <1>2, <1>3 DEF EntrySet
  <1>7. Line(ReadLine(g)) = [bits |-> g.bits, PC |-> g.PC, recvg |-> g.recvg, type |-> g.type]
    BY <1>2, <1>4, <1>5 DEF Line
  <1> QED
    BY <1>1, <1>6, <1>7

(* The entries that were printed survive Warp::resume.                     *)
LEMMA StackRead ==
    ASSUME NEW s \in Seq(EntrySet(Lanes)), NEW f, Printed(f, s)
    PROVE  resume(f) = [i \in 1..Len(f) |-> s[i]]
  <1>1. /\ f \in Seq(Lines) /\ DOMAIN f = 1..Len(f) /\ Len(f) \in Nat /\ Len(s) \in Nat
        /\ \A i \in 1..Len(f) : f[i] = Line(s[i]) /\ s[i] \in EntrySet(Lanes)
    BY DEF Printed
  <1>2. resume(f) = [i \in DOMAIN f |-> ReadLine(f[i])]
    BY DEF resume, ReadLine
  <1>3. \A i \in 1..Len(f) : ReadLine(f[i]) = s[i]
    BY <1>1, LineRead
  <1> QED
    BY <1>1, <1>2, <1>3

(* What Warp::resume makes of a file is a stack.                           *)
LEMMA FileRead ==
    ASSUME NEW f \in Seq(Lines)
    PROVE  resume(f) \in Seq(EntrySet(Lanes)) /\ DOMAIN resume(f) = DOMAIN f
  <1>1. /\ resume(f) = [i \in 1..Len(f) |-> ReadLine(f[i])] /\ Len(f) \in Nat
        /\ \A i \in 1..Len(f) : f[i] \in Lines
    BY DEF resume, ReadLine
  <1> QED
    BY <1>1, LineWritten

(* The entries at the bottom of a stack that fits are a stack that fits    *)
(* the lanes in them: a file that was cut short can be resumed from.       *)
LEMMA PrefixShaped ==
    ASSUME NEW w \in Warps, NEW s, Shaped(w, s), NEW n \in Nat, n <= Len(s)
    PROVE  Shaped(w, [i \in 1..n |-> s[i]])
  <1> DEFINE r == [i \in 1..n |-> s[i]]
             left == { l \in LanesOf(w) : \E i \in 1..n : l \in s[i].mask }
  <1>1. s \in Seq(EntrySet(Lanes))
    BY DEF Shaped
  <1>2. PICK ll \in SUBSET LanesOf(w), at \in [Lanes -> Nat] : StackFits(s, ll, at, DOMAIN prog)
    BY DEF Shaped
  <1>3. /\ r \in Seq(EntrySet(Lanes)) /\ DOMAIN r = 1..n
        /\ \A i \in 1..n : r[i] = s[i] /\ i \in DOMAIN s
    BY <1>1
  <1> HIDE DEF r
  <1>4. ASSUME NEW i \in 1..n PROVE Fits(r[i], left, at, DOMAIN prog)
    <2>1. Fits(s[i], ll, at, DOMAIN prog)
      BY <1>2, <1>3 DEF StackFits
    <2>2. s[i].mask \subseteq left
      BY <2>1 DEF Fits
    <2> QED
      BY <1>3, <2>1, <2>2 DEF Fits
  <1>5. Covers(r, left)
    BY <1>3 DEF Covers
  <1>6. Disjoint(r)
    BY <1>2, <1>3 DEF Disjoint, StackFits
  <1>7. StackFits(r, left, at, DOMAIN prog)
    BY <1>3, <1>4, <1>5, <1>6 DEF StackFits
  <1>8. left \in SUBSET LanesOf(w)
    OBVIOUS
  <1> HIDE DEF left
  <1>9. Shaped(w, r)
    BY <1>2, <1>3, <1>7, <1>8 DEF Shaped
  <1> QED
    BY <1>9 DEF r

-----------------------------------------------------------------------------
(* Warp::update looks at the next program counters of the active lanes     *)
(* that are not done, and at no others.                                    *)
LEMMA UpdateLocal ==
    ASSUME NEW s, NEW gone, NEW n1, NEW n2, NEW recvg, NEW op, NEW nt,
           \A l \in Top(s).mask \ gone : n1[l] = n2[l]
    PROVE  Update(s, gone, n1, recvg, op, nt) = Update(s, gone, n2, recvg, op, nt)
  <1>1. NextPCs(s, gone, n1) = NextPCs(s, gone, n2)
    BY DEF NextPCs
  <1>2. \A p : PathMask(s, gone, n1, p) = PathMask(s, gone, n2, p)
    BY DEF PathMask
  <1>3. UpdateCall(s, gone, n1) = UpdateCall(s, gone, n2)
    BY <1>1, <1>2 DEF UpdateCall
  <1>4. UpdateReturn(s, gone, n1) = UpdateReturn(s, gone, n2)
    BY <1>1 DEF UpdateReturn
  <1>5. UpdatePaths(s, gone, n1, recvg, nt) = UpdatePaths(s, gone, n2, recvg, nt)
    BY <1>1, <1>2 DEF UpdatePaths
  <1> QED
    BY <1>1, <1>3, <1>4, <1>5 DEF Update

(* One instruction of a warp as createWarp has left it, whichever stack it *)
(* goes on from: the new stack fits the lanes that are left, and from a    *)
(* whole stack it is the one after a single instruction.                   *)
LEMMA ShapedStep ==
    ASSUME prog \in Programs, NEW w \in Warps,
           stk \in [Warps -> Seq(EntrySet(Lanes))], pc \in [Warps -> [Lanes -> Nat]],
           done \in [Warps -> SUBSET Lanes], status \in [Warps -> SUBSET Lanes],
           DOMAIN live = Warps, Shaped(w, stk[w]), Unvisited(w), Runnable(w),
           NEW cc, ExecuteWarp(w, cc)
    PROVE  /\ stk' \in [Warps -> Seq(EntrySet(Lanes))]
           /\ pc' \in [Warps -> [Lanes -> Nat]]
           /\ done' \in [Warps -> SUBSET Lanes] /\ status' \in [Warps -> SUBSET Lanes]
           /\ Shaped(w, stk'[w])
           /\ from[w] # NoFile => OneOn(from[w], stk'[w])
           /\ DOMAIN live' = Warps
           /\ \A v \in Warps \ {w} : /\ stk'[v] = stk[v] /\ pc'[v] = pc[v] /\ live'[v] = live[v]
                                     /\ done'[v] = done[v] /\ status'[v] = status[v]
  <1> DEFINE act == Active(w)
             op  == Inst(w).op
             st  == IF op = "T_EXIT" THEN status[w] \cup act ELSE status[w]
             dn  == done[w] \cup (act \cap st)
             npc == [l \in Lanes |-> IF l \in act THEN NextPC(w, l, cc) ELSE pc[w][l]]
             t   == Top(stk[w]).PC
             r   == Update(stk[w], dn, npc, NullPC, op, t + 1)
  <1>1. /\ pc' = [pc EXCEPT ![w] = npc]
        /\ status' = [status EXCEPT ![w] = st]
        /\ done' = [done EXCEPT ![w] = dn]
        /\ stk' = [stk EXCEPT ![w] = r]
        /\ live' = [live EXCEPT ![w] = LiveAfter(w, dn)]
    BY DEF ExecuteWarp, StatusAfter
  <1>2. /\ Len(stk[w]) > 0 /\ t \in DOMAIN prog /\ act = Top(stk[w]).mask
        /\ \A l \in act : pc[w][l] = t
        /\ done[w] = Lanes \ LanesOf(w) /\ status[w] = {}
        /\ from[w] # NoFile => stk[w] = from[w]
    BY DEF Runnable, Unvisited, Active
  <1>3. /\ t \in Nat /\ op \in Ops /\ Inst(w).simm \in Int
        /\ \A l \in act : NextPC(w, l, cc) \in {t + 1, t + Inst(w).simm} \cap Nat
        /\ op # "T_EXIT" => \A l \in act : NextPC(w, l, cc) \in DOMAIN prog
    BY <1>2, PlacesAt
  <1>4. Inst(w) = prog[t]
    BY DEF Inst
  <1>5. PICK ll \in SUBSET LanesOf(w), at \in [Lanes -> Nat] :
            StackFits(stk[w], ll, at, DOMAIN prog)
    BY DEF Shaped
  <1>6. /\ stk[w] \in Seq(EntrySet(Lanes)) /\ pc[w] \in [Lanes -> Nat]
        /\ ll \in SUBSET Lanes /\ DOMAIN prog \in SUBSET Nat /\ LanesOf(w) \in SUBSET Lanes
    BY ProgramAssumption DEF LanesOf, WellFormed
  <1> HIDE DEF t, act, op
  <1>7. act \subseteq ll
    <2>1. Len(stk[w]) \in DOMAIN stk[w]
      BY <1>2, <1>6
    <2>2. Fits(Top(stk[w]), ll, at, DOMAIN prog)
      BY <1>5, <2>1 DEF StackFits, Top
    <2> QED
      BY <1>2, <2>2 DEF Fits
  <1>8. st \in SUBSET Lanes /\ dn \in SUBSET Lanes /\ dn \cap ll \subseteq act
    BY <1>2, <1>6, <1>7
  <1>9. op = "T_EXIT" => act \subseteq dn
    OBVIOUS
  <1>10. npc \in [Lanes -> Nat]
    BY <1>3, <1>6
  <1> DEFINE next == [l \in Lanes |-> IF l \in act THEN NextPC(w, l, cc) ELSE at[l]]
  <1>11. /\ next \in [Lanes -> Nat]
         /\ \A l \in ll \ act : next[l] = at[l]
         /\ \A l \in act : next[l] = npc[l] /\ next[l] \in {t + 1, t + Inst(w).simm}
         /\ \A l \in act \ dn : next[l] \in {t + 1, t + Inst(w).simm} \cap DOMAIN prog
    BY <1>3, <1>6, <1>7, <1>9
  <1> HIDE DEF st, dn, npc, next
  <1>12. r = Update(stk[w], dn, next, NullPC, op, t + 1)
    <2>1. \A l \in Top(stk[w]).mask \ dn : npc[l] = next[l]
      BY <1>2, <1>11
    <2> QED
      BY <2>1, UpdateLocal
  <1>13. r \in Seq(EntrySet(Lanes)) /\ StackFits(r, ll \ dn, next, DOMAIN prog)
    <2>1. t + 1 \in Nat /\ op \notin {"CALL", "RET"}
      BY <1>3 DEF Ops
    <2> DEFINE u == Update(stk[w], dn, next, NullPC, op, t + 1)
    <2>2. /\ dn \cap ll \subseteq Top(stk[w]).mask
          /\ \A l \in ll \ Top(stk[w]).mask : next[l] = at[l]
          /\ \A l \in Top(stk[w]).mask \ dn : next[l] \in {t + 1, t + Inst(w).simm} \cap DOMAIN prog
      BY <1>2, <1>8, <1>11
    <2>3. /\ dn \in SUBSET Lanes /\ next \in [Lanes -> Nat] /\ Len(stk[w]) > 0
          /\ StackFits(stk[w], ll, at, DOMAIN prog)
      BY <1>2, <1>5, <1>8, <1>11
    <2>4. u \in Seq(EntrySet(Lanes)) /\ StackFits(u, ll \ dn, next, DOMAIN prog)
      BY <1>6, <2>1, <2>2, <2>3, UpdateFits
    <2> QED
      BY <1>12, <2>4
  <1> HIDE DEF r
  <1>14. Shaped(w, r)
    <2>1. ll \ dn \in SUBSET LanesOf(w)
      OBVIOUS
    <2> QED
      BY <1>11, <1>13, <2>1 DEF Shaped
  <1>15. ASSUME from[w] # NoFile PROVE OneOn(from[w], r)
    <2> SUFFICES ASSUME Whole(from[w])
                 PROVE  IF prog[Top(from[w]).PC].op = "T_EXIT"
                        THEN r = <<>>
                        ELSE /\ \A k \in DOMAIN r :
                                   r[k].PC - Top(from[w]).PC \in {1, prog[Top(from[w]).PC].simm}
                             /\ Covers(r, Lanes) /\ Disjoint(r)
      BY DEF OneOn
    <2>1. act = Lanes /\ Top(from[w]).PC = t
      BY <1>2, <1>15 DEF Whole, t
    <2>2. ASSUME NEW k \in DOMAIN r
          PROVE  \E l \in act \ dn : r[k].PC = next[l]
      <3>1. Fits(r[k], ll \ dn, next, DOMAIN prog)
        BY <1>13 DEF StackFits
      <3>2. PICK l \in r[k].mask : TRUE
        BY <3>1 DEF Fits
      <3> QED
        BY <1>6, <2>1, <3>1, <3>2 DEF Fits
    <2>3. CASE op = "T_EXIT"
      <3>1. DOMAIN r = {}
        BY <1>9, <2>2, <2>3
      <3>2. r = <<>>
        BY <1>13, <3>1
      <3> QED
        BY <1>4, <2>1, <2>3, <3>2 DEF op
    <2>4. CASE op # "T_EXIT"
      <3>1. ASSUME NEW k \in DOMAIN r PROVE r[k].PC - t \in {1, Inst(w).simm}
        <4>1. r[k].PC = t + 1 \/ r[k].PC = t + Inst(w).simm
          BY <1>11, <2>2
        <4> QED
          BY <1>3, <4>1
      <3>2. LanesOf(w) = Lanes /\ ll = Lanes
        BY <1>6, <1>7, <2>1
      <3>3. dn = {}
        BY <1>2, <2>4, <3>2 DEF dn, st
      <3>4. Covers(r, Lanes) /\ Disjoint(r)
        BY <1>13, <3>2, <3>3 DEF StackFits
      <3> QED
        BY <1>4, <2>1, <2>4, <3>1, <3>4 DEF op
    <2> QED
      BY <2>3, <2>4
  <1>16. /\ stk'[w] = r /\ DOMAIN live' = Warps
         /\ \A v \in Warps \ {w} : /\ stk'[v] = stk[v] /\ pc'[v] = pc[v] /\ live'[v] = live[v]
                                   /\ done'[v] = done[v] /\ status'[v] = status[v]
    BY <1>1
  <1>17. /\ stk' \in [Warps -> Seq(EntrySet(Lanes))]
         /\ pc' \in [Warps -> [Lanes -> Nat]]
         /\ done' \in [Warps -> SUBSET Lanes] /\ status' \in [Warps -> SUBSET Lanes]
    BY <1>1, <1>8, <1>10, <1>13
  <1> QED
    BY <1>14, <1>15, <1>16, <1>17

-----------------------------------------------------------------------------
(* There is a warp to visit: the constructor rounds the warp count up.     *)
LEMMA SomeWarp == WarpCount \in Nat /\ WarpCount > 0 /\ 0 \in Warps
  <1>1. \A m, n \in Nat \ {0} : (m + n - 1) \div n > 0
    OBVIOUS
  <1>2. WarpCount \in Nat /\ WarpCount > 0
    BY <1>1, WarpCountNat, SizeAssumption DEF WarpCount
  <1> QED
    BY <1>2 DEF Warps

(* Before the first process there is nothing to resume from.               *)
LEMMA CpInitInv == CpInit => CpIInv
  <1> SUFFICES ASSUME CpInit PROVE CpIInv
    OBVIOUS
  <1> USE DEF CpInit
  <1>1. prog \in Programs /\ blocking \in [Warps -> BOOLEAN] /\ atBar \in [Warps -> BOOLEAN]
    BY GarbageAssumption DEF Init
  <1>2. CpTypes
    BY <1>1, SomeWarp, CheckpointAssumption DEF CpTypes
  <1>3. FilesInv
    BY DEF FilesInv
  <1>4. WholeInv /\ AssertsExplained /\ SaveInv
    BY DEF WholeInv, AssertsExplained, SaveInv, Checkpointing
  <1> QED
    BY <1>2, <1>3, <1>4 DEF CpIInv

(* What is known of the files holds until one is written.                  *)
LEMMA FilesKept ==
    ASSUME FilesInv, files' = files, prog' = prog
    PROVE  FilesInv'
  BY DEF FilesInv, Shaped

(* What is known of the stacks holds while neither they nor the file that  *)
(* is being written change.                                                *)
LEMMA SaveKept ==
    ASSUME SaveInv,
           UNCHANGED <<prog, stk, pc, done, status, live, cur, blocking, atBar>>,
           UNCHANGED <<mode, phase, saved, files, from>>
    PROVE  SaveInv'
  <1>1. ASSUME NEW w \in Warps
        PROVE  /\ Shaped(w, stk[w]) => Shaped(w, stk[w])'
               /\ Unvisited(w) => Unvisited(w)'
               /\ Visited(w) => Visited(w)'
    BY DEF Shaped, Unvisited, Active, Visited, OneOn, Covers, Disjoint
  <1>2. Checkpointing' = Checkpointing
    BY DEF Checkpointing
  <1>3. Printed(files[saved], stk[saved]) => Printed(files[saved], stk[saved])'
    BY DEF Printed
  <1> QED
    BY <1>1, <1>2, <1>3 DEF SaveInv

(* A step of execute()'s loop, or none, keeps the invariants of the block. *)
LEMMA BlockStep == IInv /\ ExitInv /\ [Next]_vars => IInv' /\ ExitInv'
  BY NextInv, ExitStep

(* The end of a process, in whichever way, leaves the files as they are    *)
(* (Kill, a failed assertion, and the return from execute()).              *)
LEMMA EndsInv ==
    ASSUME CpIInv, prog' = prog, UNCHANGED <<blocking, atBar, mode, cursor, saved, files, from, runs>>,
           phase' = "off", name' \in -1..0
    PROVE  CpIInv'
  <1>1. CpTypes'
    BY DEF CpIInv, CpTypes
  <1>2. FilesInv'
    BY FilesKept DEF CpIInv
  <1>3. WholeInv' /\ AssertsExplained' /\ SaveInv'
    BY DEF WholeInv, AssertsExplained, SaveInv, Checkpointing
  <1> QED
    BY <1>1, <1>2, <1>3 DEF CpIInv

(* A launched block is fresh, also in a later state.                       *)
LEMMA FreshNext == Fresh' => IInv'
  BY FreshInv, PTL

(* A warp with a thread in every lane has threads to count.                *)
LEMMA FullWarp == ASSUME NEW w, LanesOf(w) = Lanes PROVE Cardinality(LanesOf(w)) > 0
  BY SizeAssumption, FS_Interval DEF Lanes

(* A file that createWarp can resume from is a stack of the warp, with all *)
(* of its lanes there.                                                     *)
LEMMA ResumeFits ==
    ASSUME CpTypes, FilesInv, NEW w \in Warps, CanResume(w)
    PROVE  LET s == resume(files[w])
               at == [l \in Lanes |-> ResumePC(s)]
           IN  /\ s \in Seq(EntrySet(Lanes)) /\ Len(s) > 0 /\ s # NoFile
               /\ Shaped(w, s)
               /\ ResumePC(s) \in DOMAIN prog
               /\ Whole(s) => StackFits(s, LanesOf(w), at, DOMAIN prog)
  <1> DEFINE s == resume(files[w])
             t == Top(s).PC
             at == [l \in Lanes |-> ResumePC(s)]
  <1>1. files[w] \in Seq(Lines) /\ Len(files[w]) > 0 /\ LanesOf(w) = Lanes
    BY DEF CpTypes, CanResume
  <1>2. s \in Seq(EntrySet(Lanes)) /\ s # NoFile
    BY <1>1, FileRead, NoFileAssumption
  <1>3. Len(s) > 0
    BY <1>1, <1>2 DEF resume
  <1>4. Shaped(w, s)
    BY <1>1, NoFileAssumption DEF FilesInv
  <1>5. ResumePC(s) = t
    BY DEF ResumePC
  <1> HIDE DEF s
  <1>6. PICK ll \in SUBSET LanesOf(w), pl \in [Lanes -> Nat] : StackFits(s, ll, pl, DOMAIN prog)
    BY <1>4 DEF Shaped
  <1>7. Fits(Top(s), ll, pl, DOMAIN prog)
    <2>1. Len(s) \in DOMAIN s
      BY <1>2, <1>3
    <2> QED
      BY <1>6, <2>1 DEF StackFits, Top
  <1>8. ASSUME Whole(s) PROVE StackFits(s, LanesOf(w), at, DOMAIN prog)
    <2>1. Top(s).mask = Lanes /\ ll = Lanes
      BY <1>1, <1>2, <1>7, <1>8 DEF Whole, Fits
    <2>2. \A l \in Lanes : pl[l] = at[l]
      BY <1>5, <1>7, <2>1 DEF Fits
    <2>3. \A i \in DOMAIN s : Fits(s[i], Lanes, at, DOMAIN prog)
      BY <1>6, <2>1, <2>2 DEF StackFits, Fits
    <2> QED
      BY <1>1, <1>6, <2>1, <2>3 DEF StackFits
  <1> QED
    BY <1>2, <1>3, <1>4, <1>5, <1>7, <1>8 DEF s, Fits

-----------------------------------------------------------------------------
(* A process that starts puts every warp on a stack that fits it, the one  *)
(* that launch makes or the one that resume reads (initializeCTA).         *)
LEMMA StartInv ==
    ASSUME CpIInv, NEW m \in Modes, Start(m)
    PROVE  CpIInv'
  <1> DEFINE lost == Resumes(m) /\ \E w \in Warps : ~CanResume(w)
             back == [w \in Warps |-> IF Resumes(m) THEN resume(files[w]) ELSE NoFile]
  <1>1. CpTypes /\ FilesInv /\ prog' = prog /\ files' = files
    BY DEF CpIInv, Start
  <1>2. /\ runs' \in 0..MaxRuns /\ mode' = m /\ cursor' = 0 /\ name' = 0 /\ saved' = 0
        /\ phase' = IF lost THEN "nofile" ELSE "running"
        /\ from' = IF lost THEN [w \in Warps |-> NoFile] ELSE back
        /\ stk' = [w \in Warps |-> IF Resumes(m) /\ ~lost THEN back[w]
                                                         ELSE Launch(0, LanesOf(w))]
        /\ pc' = [w \in Warps |-> [l \in Lanes |->
                     IF Resumes(m) /\ ~lost THEN ResumePC(back[w]) ELSE 0]]
        /\ done' = [w \in Warps |-> Lanes \ LanesOf(w)]
        /\ live' = [w \in Warps |-> Cardinality(LanesOf(w))]
        /\ blockWarps' = BlockWarpCount
        /\ cur' = 0 /\ allDone' = TRUE /\ finished' = FALSE
        /\ status' = [w \in Warps |-> {}]
        /\ blocking' = blocking /\ atBar' = atBar
    BY <1>1, CheckpointAssumption DEF Start, CpTypes
  <1> HIDE DEF lost
  <1>3. FilesInv'
    BY <1>1, FilesKept
  <1>4. DOMAIN prog \subseteq Nat /\ 0 \in DOMAIN prog
    BY <1>1, ProgramAssumption DEF CpTypes, WellFormed
  <1>5. CASE lost
    <2>1. CpTypes'
      BY <1>1, <1>2, <1>5, SomeWarp DEF CpTypes
    <2>2. WholeInv' /\ AssertsExplained' /\ SaveInv'
      BY <1>2, <1>5 DEF WholeInv, AssertsExplained, SaveInv, Checkpointing
    <2> QED
      BY <1>3, <2>1, <2>2 DEF CpIInv
  <1>6. CASE ~lost
    <2>1. ASSUME NEW w \in Warps
          PROVE  /\ stk'[w] \in Seq(EntrySet(Lanes)) /\ Len(stk'[w]) > 0
                 /\ Shaped(w, stk'[w])
                 /\ pc'[w] = [l \in Lanes |-> Top(stk'[w]).PC]
                 /\ Top(stk'[w]).PC \in Nat
                 /\ from'[w] \in Seq(EntrySet(Lanes)) \cup {NoFile}
                 /\ from'[w] # NoFile => stk'[w] = from'[w] /\ live'[w] > 0
                 /\ Whole(from'[w]) => StackFits(stk'[w], LanesOf(w), pc'[w], DOMAIN prog)
      <3>1. CASE Resumes(m)
        <4>1. CanResume(w)
          BY <1>6, <3>1 DEF lost
        <4> DEFINE s == resume(files[w])
        <4>2. /\ s \in Seq(EntrySet(Lanes)) /\ Len(s) > 0 /\ s # NoFile /\ files[w] # NoFile
              /\ Shaped(w, s)
              /\ ResumePC(s) \in DOMAIN prog
              /\ Whole(s) => StackFits(s, LanesOf(w), [l \in Lanes |-> ResumePC(s)], DOMAIN prog)
          BY <1>1, <4>1, ResumeFits DEF CanResume
        <4>3. /\ stk'[w] = s /\ from'[w] = s /\ pc'[w] = [l \in Lanes |-> ResumePC(s)]
          BY <1>2, <1>6, <3>1
        <4>4. ResumePC(s) = Top(s).PC
          BY DEF ResumePC
        <4> HIDE DEF s
        <4>5. Top(stk'[w]).PC \in Nat
          BY <1>4, <4>2, <4>3, <4>4
        <4>6. pc'[w] = [l \in Lanes |-> Top(stk'[w]).PC]
          BY <4>3, <4>4
        <4>7. live'[w] > 0
          BY <1>2, <4>1, FullWarp DEF CanResume
        <4> QED
          BY <4>2, <4>3, <4>5, <4>6, <4>7 DEF s
      <3>2. CASE ~Resumes(m)
        <4> DEFINE s == Launch(0, LanesOf(w))
                   at == [l \in Lanes |-> 0]
        <4>1. stk'[w] = s /\ from'[w] = NoFile /\ pc'[w] = at
          BY <1>2, <1>6, <3>2
        <4>2. s \in Seq(EntrySet(Lanes)) /\ StackFits(s, LanesOf(w), at, DOMAIN prog)
          BY <1>4, LaunchFits
        <4>3. Len(s) > 0 /\ Top(s).PC = 0
          BY DEF Launch, Entry, Top
        <4> HIDE DEF s
        <4>4. Shaped(w, s)
          <5>1. at \in [Lanes -> Nat] /\ LanesOf(w) \in SUBSET LanesOf(w)
            OBVIOUS
          <5> HIDE DEF at
          <5> QED
            BY <4>2, <5>1 DEF Shaped
        <4> QED
          BY <4>1, <4>2, <4>3, <4>4
      <3> QED
        BY <3>1, <3>2
    <2>2. /\ stk' \in [Warps -> Seq(EntrySet(Lanes))]
          /\ pc' \in [Warps -> [Lanes -> Nat]]
          /\ done' \in [Warps -> SUBSET Lanes] /\ status' \in [Warps -> SUBSET Lanes]
          /\ from' \in [Warps -> Seq(EntrySet(Lanes)) \cup {NoFile}]
      <3>1. pc' = [w \in Warps |-> pc'[w]] /\ stk' = [w \in Warps |-> stk'[w]]
        BY <1>2
      <3>2. from' = [w \in Warps |-> from'[w]]
        BY <1>2, <1>6
      <3>3. \A w \in Warps : pc'[w] \in [Lanes -> Nat]
        BY <2>1
      <3>4. done' \in [Warps -> SUBSET Lanes] /\ status' \in [Warps -> SUBSET Lanes]
        BY <1>2
      <3> QED
        BY <2>1, <3>1, <3>2, <3>3, <3>4
    <2>3. CpTypes'
      BY <1>1, <1>2, <1>6, <2>2, SomeWarp DEF CpTypes, Alive
    <2>4. WholeInv'
      <3> SUFFICES ASSUME AllWhole' PROVE IInv' /\ ExitInv'
        BY DEF WholeInv
      <3>1. \A w \in Warps : StackFits(stk'[w], LanesOf(w), pc'[w], DOMAIN prog)
        BY <2>1 DEF AllWhole
      <3>2. Fresh'
        BY <1>1, <1>2, <2>2, <3>1, WarpCountNat DEF Fresh, CpTypes
      <3>3. \A w \in Warps : LanesOf(w) \cap done'[w] = {} /\ status'[w] = {}
        BY <1>2
      <3>4. ExitInv'
        BY <3>3 DEF ExitInv, EndsAtExit
      <3> QED
        BY <3>2, <3>4, FreshNext
    <2>5. AssertsExplained'
      BY <1>2, <1>6 DEF AssertsExplained
    <2>6. ASSUME NEW w \in Warps
          PROVE  /\ Shaped(w, stk[w])'
                 /\ Unvisited(w)'
      <3>1. Shaped(w, stk[w])'
        BY <1>1, <2>1 DEF Shaped
      <3>2. Active(w)' \subseteq Lanes
        <4>1. Top(stk'[w]) \in EntrySet(Lanes)
          BY <2>1 DEF Top
        <4> QED
          BY <4>1 DEF Active, EntrySet
      <3>3. \A l \in Active(w)' : pc'[w][l] = Top(stk'[w]).PC
        BY <2>1, <3>2
      <3>4. done'[w] = Lanes \ LanesOf(w) /\ status'[w] = {}
        BY <1>2
      <3>5. Unvisited(w)'
        BY <2>1, <3>3, <3>4 DEF Unvisited
      <3> QED
        BY <3>1, <3>5
    <2>7. SaveInv'
      <3>1. cur' \in 0..WarpCount /\ (\A w \in Warps : w >= cur') /\ DOMAIN live' = Warps
        BY <1>2, SomeWarp DEF Warps
      <3>2. phase' = "running"
        BY <1>2, <1>6
      <3> QED
        BY <2>2, <2>6, <3>1, <3>2 DEF SaveInv
    <2> QED
      BY <1>3, <2>3, <2>4, <2>5, <2>7 DEF CpIInv
  <1> QED
    BY <1>5, <1>6

(* The launcher's thread moves the kernel's cursor under a running block   *)
(* and touches nothing else of it (increment_cta_id).                      *)
LEMMA MoveCursorInv == ASSUME CpIInv, MoveCursor PROVE CpIInv'
  <1>1. /\ CpTypes /\ FilesInv /\ WholeInv /\ AssertsExplained /\ SaveInv
        /\ UNCHANGED <<vars, mode, phase, name, saved, files, from, runs>> /\ cursor' = 1
    BY DEF CpIInv, MoveCursor
  <1>2. UNCHANGED <<prog, stk, pc, done, status, live, cur, blocking, atBar>>
    BY <1>1 DEF vars
  <1>3. CpTypes' /\ FilesInv'
    BY <1>1, <1>2, FilesKept DEF CpTypes
  <1>4. WholeInv'
    BY <1>1, BlockStep DEF WholeInv, AllWhole
  <1>5. AssertsExplained'
    BY <1>1 DEF AssertsExplained
  <1>6. SaveInv'
    BY <1>1, <1>2, SaveKept
  <1> QED
    BY <1>3, <1>4, <1>5, <1>6 DEF CpIInv

(* One warp of a pass, in any run: from whole stacks it is the visit that  *)
(* Invariance is about, and in a run that takes a checkpoint it is the     *)
(* only instruction of the warp (execute(), executeWarp).                  *)
LEMMA VisitInv == ASSUME CpIInv, Visit PROVE CpIInv'
  <1>1. /\ CpTypes /\ FilesInv /\ WholeInv /\ AssertsExplained /\ SaveInv
        /\ phase = "running" /\ VisitWarp /\ UNCHANGED cpVars
        /\ (Skipped(cur) \/ Runnable(cur))
    BY DEF CpIInv, Visit
  <1>2. UNCHANGED <<mode, phase, cursor, name, saved, files, from, runs>>
    BY <1>1 DEF cpVars
  <1>3. UNCHANGED <<prog, blocking, atBar>> /\ cur' = cur + 1 /\ cur < WarpCount
    BY <1>1 DEF VisitWarp
  <1>4. CpTypes' /\ FilesInv' /\ AssertsExplained'
    BY <1>1, <1>2, <1>3, FilesKept DEF CpTypes, AssertsExplained
  <1>5. WholeInv'
    <2> SUFFICES ASSUME AllWhole' PROVE IInv' /\ ExitInv'
      BY DEF WholeInv
    <2>1. AllWhole
      BY <1>2 DEF AllWhole
    <2> QED
      BY <1>1, <2>1, BlockStep DEF WholeInv, Next
  <1>6. SaveInv'
    <2> SUFFICES ASSUME Checkpointing'
                 PROVE  /\ stk' \in [Warps -> Seq(EntrySet(Lanes))]
                        /\ pc' \in [Warps -> [Lanes -> Nat]]
                        /\ done' \in [Warps -> SUBSET Lanes] /\ status' \in [Warps -> SUBSET Lanes]
                        /\ DOMAIN live' = Warps
                        /\ cur' \in 0..WarpCount
                        /\ \A w \in Warps :
                              /\ Shaped(w, stk[w])'
                              /\ IF w >= cur' THEN Unvisited(w)' ELSE Visited(w)'
      BY <1>1, <1>2 DEF SaveInv
    <2>1. Checkpointing
      BY <1>2 DEF Checkpointing
    <2>2. /\ stk \in [Warps -> Seq(EntrySet(Lanes))]
          /\ pc \in [Warps -> [Lanes -> Nat]]
          /\ done \in [Warps -> SUBSET Lanes] /\ status \in [Warps -> SUBSET Lanes]
          /\ DOMAIN live = Warps
          /\ cur \in 0..WarpCount
          /\ \A w \in Warps :
                /\ Shaped(w, stk[w])
                /\ IF w >= cur THEN Unvisited(w) ELSE Visited(w)
      BY <1>1, <2>1 DEF SaveInv
    <2>3. /\ cur \in Warps /\ cur \in Nat /\ cur' \in 0..WarpCount
          /\ \A w \in Warps : w # cur => (w >= cur' <=> w >= cur)
          /\ cur >= cur /\ ~(cur >= cur')
      BY <1>3, <2>2, SomeWarp DEF Warps
    <2>4. ASSUME NEW w \in Warps, w # cur,
                 stk'[w] = stk[w], pc'[w] = pc[w], live'[w] = live[w],
                 done'[w] = done[w], status'[w] = status[w]
          PROVE  /\ Shaped(w, stk[w])'
                 /\ IF w >= cur' THEN Unvisited(w)' ELSE Visited(w)'
      <3>1. Shaped(w, stk[w])'
        BY <1>3, <2>2, <2>4 DEF Shaped
      <3>2. Unvisited(w) => Unvisited(w)'
        BY <1>2, <2>4 DEF Unvisited, Active
      <3>3. Visited(w) => Visited(w)'
        BY <1>2, <1>3, <2>4 DEF Visited, OneOn, Covers, Disjoint
      <3> QED
        BY <2>2, <2>3, <2>4, <3>1, <3>2, <3>3
    <2>5. ASSUME NEW c \in Warps, c = cur, Runnable(c), NEW cc, ExecuteWarp(c, cc)
          PROVE  /\ stk' \in [Warps -> Seq(EntrySet(Lanes))]
                 /\ pc' \in [Warps -> [Lanes -> Nat]]
                 /\ done' \in [Warps -> SUBSET Lanes] /\ status' \in [Warps -> SUBSET Lanes]
                 /\ DOMAIN live' = Warps
                 /\ \A w \in Warps :
                       /\ Shaped(w, stk[w])'
                       /\ IF w >= cur' THEN Unvisited(w)' ELSE Visited(w)'
      <3>1. prog \in Programs /\ Shaped(c, stk[c]) /\ Unvisited(c)
        BY <1>1, <2>2, <2>3, <2>5 DEF CpTypes
      <3>2. /\ stk' \in [Warps -> Seq(EntrySet(Lanes))]
            /\ pc' \in [Warps -> [Lanes -> Nat]]
            /\ done' \in [Warps -> SUBSET Lanes] /\ status' \in [Warps -> SUBSET Lanes]
            /\ DOMAIN live' = Warps
            /\ Shaped(c, stk'[c])
            /\ from[c] # NoFile => OneOn(from[c], stk'[c])
            /\ \A v \in Warps \ {c} : /\ stk'[v] = stk[v] /\ pc'[v] = pc[v] /\ live'[v] = live[v]
                                      /\ done'[v] = done[v] /\ status'[v] = status[v]
        BY <2>2, <2>5, <3>1, ShapedStep
      <3>3. Shaped(c, stk[c])' /\ Visited(c)'
        <4>1. Shaped(c, stk[c])'
          BY <1>3, <3>2 DEF Shaped
        <4>2. OneOn(from[c], stk'[c]) => OneOn(from[c], stk[c])'
          BY <1>2, <1>3 DEF OneOn, Covers, Disjoint
        <4> QED
          BY <1>2, <3>2, <4>1, <4>2 DEF Visited
      <3> QED
        BY <2>3, <2>4, <2>5, <3>2, <3>3
    <2>6. CASE Skipped(cur)
      <3>1. UNCHANGED <<stk, pc, done, status, live>>
        BY <1>1, <2>6 DEF VisitWarp, Skipped
      <3>2. PICK c \in Warps : c = cur
        BY <2>3
      <3>3. Shaped(c, stk[c])'
        BY <1>3, <2>2, <3>1 DEF Shaped
      <3>4. Visited(c)'
        <4>1. Unvisited(c)
          BY <2>2, <2>3, <3>2
        <4>2. blocking[c] \/ atBar[c] \/ ~(live[c] > 0)
          BY <2>6, <3>2 DEF Skipped, Warp_at_barrier
        <4> QED
          BY <1>2, <1>3, <4>1, <4>2 DEF Unvisited, Visited
      <3> QED
        BY <2>2, <2>3, <2>4, <3>1, <3>2, <3>3, <3>4
    <2>7. CASE ~Skipped(cur)
      <3>1. PICK c \in Warps : c = cur
        BY <2>3
      <3>2. PICK cc \in Conditions(Inst(c).op) : ExecuteWarp(c, cc)
        BY <1>1, <2>7, <3>1 DEF VisitWarp, Skipped
      <3> QED
        BY <1>1, <2>3, <2>5, <2>7, <3>1, <3>2
    <2> QED
      BY <2>6, <2>7
  <1> QED
    BY <1>4, <1>5, <1>6 DEF CpIInv

(* An assertion of executeWarp fails only on a stack that was resumed from *)
(* and is not whole: otherwise the invariant of the block excludes it.     *)
LEMMA VisitFailsInv == ASSUME CpIInv, VisitFails PROVE CpIInv'
  <1>1. /\ CpTypes /\ FilesInv /\ WholeInv
        /\ phase = "running" /\ cur < WarpCount /\ ~Skipped(cur) /\ ~Runnable(cur)
        /\ phase' = "assert"
        /\ UNCHANGED <<vars, mode, cursor, name, saved, files, from, runs>>
    BY DEF CpIInv, VisitFails
  <1>2. UNCHANGED <<prog, blocking, atBar>>
    BY <1>1 DEF vars
  <1>3. CpTypes' /\ FilesInv'
    BY <1>1, <1>2, FilesKept DEF CpTypes
  <1>4. WholeInv' /\ SaveInv'
    BY <1>1 DEF WholeInv, SaveInv, Checkpointing
  <1>5. ~AllWhole
    <2> SUFFICES ASSUME AllWhole PROVE FALSE
      OBVIOUS
    <2>1. IInv
      BY <1>1 DEF WholeInv
    <2>2. cur \in Warps
      BY <1>1, <2>1, SomeWarp DEF IInv, TypeOK, Warps
    <2>3. live[cur] > 0
      BY <1>1 DEF Skipped, Warp_at_barrier
    <2>4. PICK c \in Warps : c = cur
      BY <2>2
    <2>5. /\ Len(stk[c]) > 0 /\ Active(c) # {} /\ Active(c) \subseteq LiveLanes(c)
          /\ Top(stk[c]).PC \in DOMAIN prog
      BY <2>1, <2>3, <2>4, RunnableWarp
    <2>6. Runnable(c)
      BY <2>5 DEF Runnable, LiveLanes
    <2> QED
      BY <1>1, <2>4, <2>6
  <1>6. AssertsExplained'
    BY <1>1, <1>5 DEF AssertsExplained, AllWhole
  <1> QED
    BY <1>3, <1>4, <1>6 DEF CpIInv

(* The end of a pass starts the next one or ends the process.              *)
LEMMA PassStepInv == ASSUME CpIInv, Pass PROVE CpIInv'
  <1>1. /\ CpTypes /\ FilesInv /\ WholeInv /\ EndPass /\ phase = "running" /\ ~Saves(mode)
        /\ phase' = IF finished' THEN "off" ELSE "running"
        /\ UNCHANGED <<mode, cursor, name, saved, files, from, runs>>
    BY DEF CpIInv, Pass
  <1>2. UNCHANGED <<prog, blocking, atBar>>
    BY <1>1 DEF EndPass
  <1>3. CpTypes' /\ FilesInv'
    BY <1>1, <1>2, FilesKept DEF CpTypes
  <1>4. WholeInv'
    BY <1>1, BlockStep DEF WholeInv, AllWhole, Next
  <1>5. AssertsExplained' /\ SaveInv'
    BY <1>1 DEF AssertsExplained, SaveInv, Checkpointing, Saves
  <1> QED
    BY <1>3, <1>4, <1>5 DEF CpIInv

(* The loop that ends every thread before the files are written leaves the *)
(* stacks as they are, or ends the process.                                *)
LEMMA BeginSaveInv == ASSUME CpIInv, BeginSave PROVE CpIInv'
  <1>1. /\ CpTypes /\ FilesInv /\ SaveInv /\ phase = "running" /\ Saves(mode)
        /\ name' = cursor - 1
        /\ cur = WarpCount
        /\ UNCHANGED <<prog, stk, pc, status, live, blocking, atBar, cur,
                       mode, cursor, saved, files, from, runs>>
    BY DEF CpIInv, BeginSave, FileNumber
  <1>2. name' \in -1..0
    BY <1>1 DEF CpTypes
  <1>3. CASE phase' = "saving" /\ done' = [w \in Warps |-> Lanes]
    <2>1. CpTypes' /\ FilesInv'
      BY <1>1, <1>2, <1>3, FilesKept, SomeWarp DEF CpTypes
    <2>2. WholeInv' /\ AssertsExplained'
      BY <1>3 DEF WholeInv, AssertsExplained
    <2>3. /\ stk \in [Warps -> Seq(EntrySet(Lanes))]
          /\ pc \in [Warps -> [Lanes -> Nat]]
          /\ status \in [Warps -> SUBSET Lanes]
          /\ DOMAIN live = Warps
          /\ cur \in 0..WarpCount
          /\ \A w \in Warps : Shaped(w, stk[w]) /\ Visited(w)
      <3>1. \A w \in Warps : ~(w >= cur)
        BY <1>1, SomeWarp DEF Warps
      <3> QED
        BY <1>1, <3>1 DEF SaveInv, Checkpointing
    <2>4. done' \in [Warps -> SUBSET Lanes]
      BY <1>3
    <2>5. ASSUME NEW w \in Warps
          PROVE  /\ Shaped(w, stk[w])'
                 /\ Visited(w)'
      BY <1>1, <2>3 DEF Shaped, Visited, OneOn, Covers, Disjoint
    <2>6. SaveInv'
      BY <1>1, <1>3, <2>3, <2>4, <2>5 DEF SaveInv
    <2> QED
      BY <2>1, <2>2, <2>6 DEF CpIInv
  <1>4. CASE phase' = "off"
    BY <1>1, <1>2, <1>4, EndsInv
  <1> QED
    BY <1>3, <1>4 DEF BeginSave

(* While the files are written the stacks stay as the pass has left them.  *)
LEMMA StacksKept ==
    ASSUME CpIInv, phase \in {"saving", "writing"},
           UNCHANGED <<vars, mode, cursor, name, from, runs>>
    PROVE  /\ stk' \in [Warps -> Seq(EntrySet(Lanes))]
           /\ pc' \in [Warps -> [Lanes -> Nat]]
           /\ done' \in [Warps -> SUBSET Lanes] /\ status' \in [Warps -> SUBSET Lanes]
           /\ DOMAIN live' = Warps
           /\ cur' \in 0..WarpCount
           /\ \A w \in Warps : Shaped(w, stk[w])' /\ Visited(w)'
           /\ UNCHANGED <<prog, blocking, atBar>>
           /\ stk' = stk
  <1>1. UNCHANGED <<prog, stk, pc, done, status, live, cur, blocking, atBar>>
    BY DEF vars
  <1>2. /\ stk \in [Warps -> Seq(EntrySet(Lanes))]
        /\ pc \in [Warps -> [Lanes -> Nat]]
        /\ done \in [Warps -> SUBSET Lanes] /\ status \in [Warps -> SUBSET Lanes]
        /\ DOMAIN live = Warps
        /\ cur \in 0..WarpCount
        /\ \A w \in Warps : Shaped(w, stk[w]) /\ Visited(w)
    BY DEF CpIInv, SaveInv, Checkpointing
  <1>3. ASSUME NEW w \in Warps PROVE Shaped(w, stk[w])' /\ Visited(w)'
    BY <1>1, <1>2 DEF Shaped, Visited, OneOn, Covers, Disjoint
  <1> QED
    BY <1>1, <1>2, <1>3

(* A file that is empty or holds the first entries of its warp's stack is  *)
(* one that a run may be resumed from, or that it fails to resume from:    *)
(* fopen and each turn of print_checkpoint leave such a file, and the ones *)
(* of the other warps as they are.                                         *)
LEMMA WriteInv ==
    ASSUME CpIInv, phase \in {"saving", "writing"}, phase' = "writing",
           NEW f, Printed(f, stk[saved]),
           files' = [files EXCEPT ![saved] = f],
           UNCHANGED <<vars, mode, cursor, name, saved, from, runs>>
    PROVE  CpIInv'
  <1>1. /\ CpTypes /\ FilesInv
        /\ UNCHANGED <<vars, mode, cursor, name, saved, from, runs>>
    BY DEF CpIInv
  <1>2. saved \in Warps
    BY <1>1, SomeWarp DEF CpTypes, Warps
  <1>3. /\ stk' \in [Warps -> Seq(EntrySet(Lanes))] /\ stk' = stk
        /\ pc' \in [Warps -> [Lanes -> Nat]]
        /\ done' \in [Warps -> SUBSET Lanes] /\ status' \in [Warps -> SUBSET Lanes]
        /\ DOMAIN live' = Warps
        /\ cur' \in 0..WarpCount
        /\ \A w \in Warps : Shaped(w, stk[w])' /\ Visited(w)'
        /\ UNCHANGED <<prog, blocking, atBar>>
    BY StacksKept
  <1>4. PICK c \in Warps : c = saved
    BY <1>2
  <1>5. /\ files' \in [Warps -> Seq(Lines) \cup {NoFile}]
        /\ \A w \in Warps \ {c} : files'[w] = files[w]
        /\ files'[c] = f
    BY <1>1, <1>4 DEF CpTypes, Printed
  <1>6. CpTypes'
    BY <1>1, <1>2, <1>3, <1>5 DEF CpTypes, Alive
  <1>7. FilesInv'
    <2> SUFFICES ASSUME NEW w \in Warps, files'[w] # NoFile
                 PROVE  Shaped(w, resume(files[w]))'
      BY DEF FilesInv
    <2>1. Shaped(w, resume(files'[w]))
      <3>1. CASE w # c
        BY <1>1, <1>5, <3>1 DEF FilesInv
      <3>2. CASE w = c
        <4>1. Shaped(c, stk[c]) /\ stk[c] \in Seq(EntrySet(Lanes))
          BY <1>3 DEF Shaped
        <4>2. Len(f) \in Nat /\ Len(f) <= Len(stk[c])
          BY <1>4 DEF Printed
        <4>3. resume(f) = [i \in 1..Len(f) |-> stk[c][i]]
          BY <1>4, <4>1, StackRead
        <4> QED
          BY <1>5, <3>2, <4>1, <4>2, <4>3, PrefixShaped
      <3> QED
        BY <3>1, <3>2
    <2> QED
      BY <1>3, <2>1 DEF Shaped, resume
  <1>8. WholeInv' /\ AssertsExplained'
    BY DEF WholeInv, AssertsExplained
  <1>9. SaveInv'
    <2>1. Printed(files[saved], stk[saved])'
      BY <1>1, <1>3, <1>4, <1>5 DEF Printed
    <2> QED
      BY <1>3, <2>1 DEF SaveInv
  <1> QED
    BY <1>6, <1>7, <1>8, <1>9 DEF CpIInv

(* fopen empties the file.                                                 *)
LEMMA OpenFileInv == ASSUME CpIInv, OpenFile PROVE CpIInv'
  <1>1. /\ CpTypes /\ SaveInv /\ phase = "saving" /\ phase' = "writing"
        /\ files' = [files EXCEPT ![saved] = <<>>]
        /\ UNCHANGED <<vars, mode, cursor, name, saved, from, runs>>
    BY DEF CpIInv, OpenFile
  <1>2. stk[saved] \in Seq(EntrySet(Lanes))
    BY <1>1, SomeWarp DEF CpTypes, SaveInv, Checkpointing, Warps
  <1>3. Printed(<<>>, stk[saved])
    BY <1>2 DEF Printed
  <1> QED
    BY <1>1, <1>3, WriteInv

(* A turn of print_checkpoint adds the line of the next entry.             *)
LEMMA PrintEntryInv == ASSUME CpIInv, PrintEntry PROVE CpIInv'
  <1> DEFINE f == files[saved]
             s == stk[saved]
             g == Append(f, Line(s[Len(f) + 1]))
  <1>1. /\ CpTypes /\ SaveInv /\ phase = "writing" /\ phase' = "writing"
        /\ Len(f) < Len(s)
        /\ UNCHANGED <<vars, mode, cursor, name, saved, from, runs>>
    BY DEF CpIInv, PrintEntry
  <1>2. saved \in Warps
    BY <1>1, SomeWarp DEF CpTypes, Warps
  <1>3. files' = [files EXCEPT ![saved] = g]
    BY <1>1, <1>2 DEF PrintEntry, CpTypes
  <1>4. Printed(f, s) /\ s \in Seq(EntrySet(Lanes))
    BY <1>1, <1>2 DEF SaveInv, Checkpointing
  <1>5. Len(f) \in Nat /\ f \in Seq(Lines) /\ Len(s) \in Nat
    BY <1>4 DEF Printed
  <1>6. s[Len(f) + 1] \in EntrySet(Lanes)
    BY <1>1, <1>4, <1>5
  <1>7. Line(s[Len(f) + 1]) \in Lines
    BY <1>6, LineRead
  <1>8. Printed(g, s)
    <2> HIDE DEF f, s
    <2>1. /\ g \in Seq(Lines) /\ Len(g) = Len(f) + 1
          /\ \A i \in 1..Len(f) : g[i] = f[i]
          /\ g[Len(f) + 1] = Line(s[Len(f) + 1])
      BY <1>5, <1>7
    <2>2. \A i \in 1..Len(f) : f[i] = Line(s[i])
      BY <1>4 DEF Printed
    <2> HIDE DEF g
    <2> QED
      BY <1>1, <1>5, <2>1, <2>2 DEF Printed
  <1> HIDE DEF f, s, g
  <1> QED
    BY <1>1, <1>3, <1>8, WriteInv DEF s

(* The loop goes on to the next warp and leaves the files as they are.     *)
LEMMA NextFileInv ==
    ASSUME CpIInv, phase \in {"saving", "writing"}, NextFile,
           UNCHANGED <<vars, mode, cursor, name, files, from, runs>>
    PROVE  CpIInv'
  <1>1. /\ CpTypes /\ FilesInv /\ saved' = saved + 1
        /\ phase' = IF saved' = WarpCount THEN "off" ELSE "saving"
        /\ UNCHANGED <<vars, mode, cursor, name, files, from, runs>>
    BY DEF CpIInv, NextFile
  <1>2. /\ stk' \in [Warps -> Seq(EntrySet(Lanes))]
        /\ pc' \in [Warps -> [Lanes -> Nat]]
        /\ done' \in [Warps -> SUBSET Lanes] /\ status' \in [Warps -> SUBSET Lanes]
        /\ DOMAIN live' = Warps
        /\ cur' \in 0..WarpCount
        /\ \A w \in Warps : Shaped(w, stk[w])' /\ Visited(w)'
        /\ UNCHANGED <<prog, blocking, atBar>>
    BY StacksKept
  <1>3. saved' \in 0..WarpCount /\ (saved' # WarpCount => saved' < WarpCount)
    BY <1>1, SomeWarp DEF CpTypes
  <1>4. CpTypes' /\ FilesInv'
    BY <1>1, <1>2, <1>3, FilesKept DEF CpTypes, Alive
  <1>5. WholeInv' /\ AssertsExplained' /\ SaveInv'
    BY <1>1, <1>2 DEF WholeInv, AssertsExplained, SaveInv
  <1> QED
    BY <1>4, <1>5 DEF CpIInv

(* Every step, of the worker, the launcher or the world, keeps it.         *)
LEMMA CpNextInv == CpIInv /\ [CpNext]_allVars => CpIInv'
  <1> SUFFICES ASSUME CpIInv, [CpNext]_allVars PROVE CpIInv'
    OBVIOUS
  <1>1. CASE Kill
    <2>1. name' \in -1..0
      BY <1>1 DEF Kill, CpIInv, CpTypes
    <2> QED
      BY <1>1, <2>1, EndsInv DEF Kill, vars
  <1>2. CASE Restart
    <2>1. name' \in -1..0
      BY <1>2 DEF Restart, CpIInv, CpTypes
    <2> QED
      BY <1>2, <2>1, EndsInv DEF Restart, vars
  <1>3. CASE UNCHANGED allVars
    <2>1. /\ CpTypes /\ FilesInv /\ WholeInv /\ AssertsExplained /\ SaveInv
          /\ UNCHANGED vars
          /\ UNCHANGED <<mode, phase, cursor, name, saved, files, from, runs>>
      BY <1>3 DEF CpIInv, allVars, cpVars
    <2>2. UNCHANGED <<prog, stk, pc, done, status, live, cur, blocking, atBar>>
      BY <2>1 DEF vars
    <2>3. CpTypes' /\ FilesInv' /\ AssertsExplained'
      BY <2>1, <2>2, FilesKept DEF CpTypes, AssertsExplained
    <2>4. WholeInv'
      BY <2>1, BlockStep DEF WholeInv, AllWhole
    <2>5. SaveInv'
      BY <2>1, <2>2, SaveKept
    <2> QED
      BY <2>3, <2>4, <2>5 DEF CpIInv
  <1> QED
    BY <1>1, <1>2, <1>3, StartInv, MoveCursorInv, VisitInv, VisitFailsInv, PassStepInv,
       BeginSaveInv, OpenFileInv, PrintEntryInv, NextFileInv
    DEF CpNext, Worker, Over, CloseFile, SaveElsewhere
-----------------------------------------------------------------------------
(* Across any number of processes that run, take checkpoints, resume and   *)
(* are killed: every file holds a stack that fits its warp or the bottom   *)
(* of one, a run from whole stacks keeps the block's invariant, and a run  *)
(* that takes a checkpoint is one instruction after the one it has read.   *)
THEOREM CpInvariance == CpSpec => []CpIInv
  BY CpInitInv, CpNextInv, PTL DEF CpSpec

(* What a resumed run may rely on: the lanes and program counters that     *)
(* createWarp gives to a warp resumed from a whole stack are consistent,   *)
(* and stay so; a failed assertion comes from a stack that was not whole.  *)
THEOREM Resumption == CpSpec => []ResumeSound
  <1>1. CpIInv => ResumeSound
    <2> SUFFICES ASSUME CpIInv PROVE ResumeSound
      OBVIOUS
    <2>1. CpTypes /\ WholeInv /\ AssertsExplained
      BY DEF CpIInv
    <2>2. CpTypeOK
      <3>1. ASSUME NEW w \in Warps, files[w] # NoFile
            PROVE  /\ DOMAIN files[w] = 1..Len(files[w])
                   /\ \A i \in DOMAIN files[w] : files[w][i] \in Lines
        <4>1. files[w] \in Seq(Lines)
          BY <2>1, <3>1 DEF CpTypes
        <4> QED
          BY <4>1
      <3> QED
        BY <2>1, <3>1 DEF CpTypes, CpTypeOK
    <2>3. phase = "running" /\ (\A w \in Warps : Whole(from[w])) => IInv /\ ExitInv
      BY <2>1 DEF WholeInv, AllWhole
    <2>4. ResumesWhole
      BY <2>3, FitsPartition DEF ResumesWhole, IInv
    <2>5. ResumedEndsAtExit
      BY <2>3 DEF ResumedEndsAtExit, ExitInv
    <2> QED
      BY <2>1, <2>2, <2>4, <2>5 DEF ResumeSound
  <1> QED
    BY <1>1, CpInvariance, PTL

(* A file that a resumed run has closed is exactly one instruction after   *)
(* the whole stack it has read and holds every lane once, in every program *)
(* and however the processes before it have ended (resume, one pass, fopen,*)
(* print_checkpoint and fclose).                                           *)
THEOREM OneInstruction == CpSpec => OneInstructionOn
  <1> DEFINE Written(w) ==
         LET f == files[w]
             t == Top(from[w]).PC
         IN  IF prog[t].op = "T_EXIT"
             THEN f = <<>>
             ELSE /\ \A k \in DOMAIN f : f[k].PC - t \in {1, prog[t].simm}
                  /\ \A l \in Lanes : \E k \in DOMAIN f :
                        \A j \in DOMAIN f : f[j].bits[l] = 1 <=> j = k
             Advance ==
         \A w \in Warps :
            /\ phase = "writing" /\ w = saved /\ saved' = saved + 1
            /\ from[w] # NoFile /\ Whole(from[w])
            /\ ~blocking[w] /\ ~atBar[w]
            => Written(w)
  <1>1. CpIInv /\ [CpNext]_allVars => [Advance]_allVars
    <2> SUFFICES ASSUME CpIInv, [CpNext]_allVars,
                        NEW w \in Warps, phase = "writing", w = saved, saved' = saved + 1,
                        from[w] # NoFile, Whole(from[w]), ~blocking[w], ~atBar[w]
                 PROVE  Written(w)
      OBVIOUS
    <2> DEFINE f == files[w]
               s == stk[w]
               t == Top(from[w]).PC
    <2>1. CpTypes /\ SaveInv
      BY DEF CpIInv
    <2>2. CloseFile
      <3>1. saved' # saved
        BY <2>1 DEF CpTypes
      <3> QED
        BY <3>1 DEF CpNext, Worker, Start, Visit, VisitFails, Pass, BeginSave, OpenFile,
                    PrintEntry, SaveElsewhere, MoveCursor, Kill, Restart, Over, cpVars, allVars
    <2>3. Len(f) = Len(s)
      BY <2>2 DEF CloseFile
    <2>4. s \in Seq(EntrySet(Lanes)) /\ Printed(f, s) /\ OneOn(from[w], s)
      BY <2>1 DEF SaveInv, Checkpointing, Visited
    <2> HIDE DEF f, s
    <2>5. /\ f \in Seq(Lines) /\ DOMAIN f = DOMAIN s
          /\ \A k \in DOMAIN f : f[k] = Line(s[k]) /\ s[k] \in EntrySet(Lanes)
      BY <2>3, <2>4 DEF Printed
    <2>6. ASSUME NEW k \in DOMAIN f, NEW l \in Lanes
          PROVE  f[k].PC = s[k].PC /\ (f[k].bits[l] = 1 <=> l \in s[k].mask)
      BY <2>5 DEF Line
    <2>7. CASE prog[t].op = "T_EXIT"
      <3>1. s = <<>>
        BY <2>4, <2>7 DEF OneOn
      <3>2. Len(f) = 0
        BY <2>3, <3>1
      <3>3. \A g \in Seq(Lines) : Len(g) = 0 => g = <<>>
        OBVIOUS
      <3>4. f = <<>>
        BY <2>5, <3>2, <3>3
      <3> QED
        BY <2>7, <3>4 DEF f
    <2>8. CASE prog[t].op # "T_EXIT"
      <3>1. /\ \A k \in DOMAIN s : s[k].PC - t \in {1, prog[t].simm}
            /\ Covers(s, Lanes) /\ Disjoint(s)
        BY <2>4, <2>8 DEF OneOn
      <3>2. ASSUME NEW k \in DOMAIN f PROVE f[k].PC - t \in {1, prog[t].simm}
        <4>1. f[k].PC = s[k].PC
          BY <2>5 DEF Line
        <4> QED
          BY <2>5, <3>1, <4>1
      <3>3. ASSUME NEW l \in Lanes
            PROVE  \E k \in DOMAIN f : \A j \in DOMAIN f : f[j].bits[l] = 1 <=> j = k
        <4>1. PICK k \in DOMAIN f : l \in s[k].mask
          BY <2>5, <3>1 DEF Covers
        <4>2. \A j \in DOMAIN f : l \in s[j].mask => j = k
          BY <2>5, <3>1, <4>1 DEF Disjoint
        <4> QED
          BY <2>6, <4>1, <4>2
      <3> QED
        BY <2>8, <3>2, <3>3 DEF f
    <2> QED
      BY <2>7, <2>8
  <1> QED
    BY <1>1, CpInvariance, PTL DEF CpSpec, OneInstructionOn
=============================================================================
