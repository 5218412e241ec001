----------------------------- MODULE SimtStack -----------------------------
(***************************************************************************)
(* The SIMT (post-dominator) stack of one warp: class Warp of              *)
(* src/model/Warp.cpp.  A stack is a sequence whose last element is the    *)
(* top.  Masks are sets of lanes, program counters are naturals, and       *)
(* NullPC stands for (addr_t)-1.                                           *)
(***************************************************************************)
EXTENDS Integers, Sequences, FiniteSets

NullPC == -1

NORMAL == "NORMAL"
CALL   == "CALL"

(* A stack entry, the entries over the lanes L, and the entry that         *)
(* SimtStack_entry() constructs.                                           *)
Entry(pc, mask, recvg, type) ==
    [PC |-> pc, mask |-> mask, recvg |-> recvg, type |-> type]

EntrySet(L) == [PC : Nat \cup {NullPC}, mask : SUBSET L,
                recvg : Nat \cup {NullPC}, type : {NORMAL, CALL}]

Blank == Entry(NullPC, {}, NullPC, NORMAL)

Top(stk) == stk[Len(stk)]

(* Mutant: the entry that the loop pushed ahead is left on the stack.      *)
PopNone(stk) == stk

Pop(stk) == [i \in 1..Len(stk)-1 |-> stk[i]]
SetTop(stk, e) == [stk EXCEPT ![Len(stk)] = e]

(* Warp::launch                                                            *)
Launch(pc, mask) == << Entry(pc, mask, NullPC, NORMAL) >>

(***************************************************************************)
(* Warp::update, first loop: the active lanes that are not done, grouped   *)
(* by the program counter they go to.                                      *)
(***************************************************************************)
NextPCs(stk, done, next) == { next[l] : l \in Top(stk).mask \ done }

(* Mutants: done lanes stay in the masks; lanes follow every path.         *)
PathMaskAll(stk, done, next, pc) == { l \in Top(stk).mask : next[l] = pc }
PathMaskAny(stk, done, next, pc) == Top(stk).mask \ done

PathMask(stk, done, next, pc) == { l \in Top(stk).mask \ done : next[l] = pc }

(* The second loop takes the fall-through path first, then the others in   *)
(* the order of std::map, which is that of the addresses.                  *)
FirstPath(pcs, notTaken) ==
    IF notTaken \in pcs THEN notTaken
                        ELSE CHOOSE p \in pcs : \A q \in pcs : p <= q

SecondPath(pcs, notTaken) ==
    CHOOSE p \in pcs : p # FirstPath(pcs, notTaken)

(* A path that goes to the reconvergence point of the top entry is         *)
(* discarded: its lanes wait in the entry below.  A call frame is exempt.  *)
Reconverges(top, pc) == pc = top.recvg /\ top.type # CALL

(***************************************************************************)
(* One iteration of the second loop, for the path of the lanes m that go   *)
(* to pc: stk is the stack so far, kept the number of earlier paths that   *)
(* were not discarded, top the top entry before the instruction, n the     *)
(* number of paths and recvg the instruction's reconvergence point.  The   *)
(* first path kept of a divergent branch (warp_diverged is still false)    *)
(* turns the top into the reconvergence entry.                             *)
(***************************************************************************)
AddPath(stk, kept, pc, m, top, n, recvg) ==
    LET base == IF n > 1 /\ kept = 0 /\ recvg # top.recvg
                THEN Append(SetTop(stk, [Top(stk) EXCEPT !.PC = recvg]), Blank)
                ELSE stk
        path == Entry(pc, m, IF n > 1 THEN recvg ELSE top.recvg, Top(base).type)
    IN  IF Reconverges(top, pc) THEN stk
        ELSE IF n > 1 /\ pc = recvg THEN base
        ELSE Append(SetTop(base, path), Blank)

(* The branch and fall-through handling of Warp::update.                   *)
UpdatePaths(stk, done, next, recvg, notTaken) ==
    LET pcs == NextPCs(stk, done, next)
        n   == Cardinality(pcs)
        p1  == FirstPath(pcs, notTaken)
        p2  == SecondPath(pcs, notTaken)
        s1  == AddPath(stk, 0, p1, PathMask(stk, done, next, p1), Top(stk), n, recvg)
        k1  == IF Reconverges(Top(stk), p1) THEN 0 ELSE 1
        s2  == AddPath(s1, k1, p2, PathMask(stk, done, next, p2), Top(stk), n, recvg)
    IN  CASE n = 0 -> Pop(stk)
          [] n = 1 -> Pop(s1)
          [] n > 1 -> Pop(s2)

(* The call and return cases of Warp::update, taken when a lane is left.   *)
UpdateCall(stk, done, next) ==
    LET pc == FirstPath(NextPCs(stk, done, next), NullPC)
    IN  Append(stk, Entry(pc, PathMask(stk, done, next, pc), NullPC, CALL))

UpdateReturn(stk, done, next) ==
    LET pc    == FirstPath(NextPCs(stk, done, next), NullPC)
        below == SetTop(Pop(stk), [Top(Pop(stk)) EXCEPT !.PC = pc])
    IN  IF pc = Top(below).recvg /\ Top(below).type # CALL THEN Pop(below) ELSE below

(***************************************************************************)
(* Warp::update.  op is "CALL", "RET" or anything else.                    *)
(***************************************************************************)
Update(stk, done, next, recvg, op, notTaken) ==
    IF op = "CALL" /\ NextPCs(stk, done, next) # {}
    THEN UpdateCall(stk, done, next)
    ELSE IF op = "RET" /\ Top(stk).type = CALL /\ NextPCs(stk, done, next) # {}
    THEN UpdateReturn(stk, done, next)
    ELSE UpdatePaths(stk, done, next, recvg, notTaken)

(* What the assertions of Warp::update demand of its input.                *)
UpdateAsserts(stk, done, next, op, instPC) ==
    /\ Len(stk) > 0
    /\ Top(stk).PC = instPC
    /\ Top(stk).mask # {}
    /\ Cardinality(NextPCs(stk, done, next)) <= 2
    /\ op = "CALL" => Cardinality(NextPCs(stk, done, next)) <= 1
    /\ op = "RET" /\ Top(stk).type = CALL
          => Cardinality(NextPCs(stk, done, next)) <= 1 /\ Len(stk) > 1
=============================================================================
