---------------------------- MODULE ThreadBlock ----------------------------
(***************************************************************************)
(* The execution of one CTA: class ThreadBlock with the Warp, WarpState,   *)
(* ThreadItem and BlockState objects it drives (src/model/ThreadBlock.cpp, *)
(* Warp.cpp, WarpState.cpp, ThreadItem.cpp, BlockState.cpp) and the        *)
(* control instructions of src/isa/InstructionSOPP.cpp and S_SWAPPC_B64 of *)
(* InstructionSOP1.cpp.  Checkpointing is off.                             *)
(*                                                                         *)
(* A program is a function from 0..n-1 to instructions [op, simm]; an      *)
(* instruction takes one program-counter unit.  Condition registers are    *)
(* data: at a conditional branch the collected condition operand is any    *)
(* set of lanes.                                                           *)
(***************************************************************************)
EXTENDS SimtStack

CONSTANTS
    WarpSize,        \* m_warp_size
    Threads,         \* threads_per_cta()
    Programs,        \* the programs that may be launched
    OperandsRead,    \* g_debug_exec > 1: operands are collected and written back
    BlockingGarbage, \* what the never initialised m_is_blocking may hold
    AtBarGarbage,    \* what a read past the end of m_warp_at_bar may find
    StatusGarbage,   \* whether a never initialised m_status may read as EXIT
    UIntMod          \* 2^(width of m_block_warp_count)

Ops == {"NOP", "S_NOP", "S_BRANCH", "T_CBRANCH_TCCZ", "T_CBRANCH_TCCNZ",
        "S_CBRANCH_SCCZ", "S_CBRANCH_SCCNZ", "S_BARRIER", "S_SWAPPC", "T_EXIT"}

(* Every way out of an instruction other than T_EXIT stays in the program. *)
WellFormed(p) ==
    /\ 0 \in DOMAIN p
    /\ DOMAIN p \subseteq Nat
    /\ \A i \in DOMAIN p :
          /\ p[i].op \in Ops
          /\ p[i].simm \in Int
          /\ p[i].op # "T_EXIT" => i + 1 \in DOMAIN p /\ i + p[i].simm \in DOMAIN p

ASSUME SizeAssumption ==
    /\ WarpSize \in Nat \ {0}
    /\ Threads \in Nat \ {0}
    /\ UIntMod \in Nat \ {0}

ASSUME ProgramAssumption == \A p \in Programs : WellFormed(p)

ASSUME GarbageAssumption ==
    /\ OperandsRead \in BOOLEAN
    /\ BlockingGarbage \subseteq BOOLEAN
    /\ AtBarGarbage \subseteq BOOLEAN
    /\ StatusGarbage \subseteq BOOLEAN

(* m_warp_count is rounded up by the constructor; block_warp_count, the    *)
(* length of m_warp_at_bar, is passed rounded down by IsaSim::launch.      *)
WarpCount == (Threads + WarpSize - 1) \div WarpSize
BlockWarpCount == Threads \div WarpSize

Warps == 0..WarpCount-1
Lanes == 0..WarpSize-1

(* The lanes of a warp that hold a thread.                                 *)
LanesOf(w) == { l \in Lanes : w * WarpSize + l < Threads }

VARIABLES
    prog,       \* the program, fixed
    stk,        \* stk[w]: m_Warp[w]->m_stack
    pc,         \* pc[w][l]: m_PC of the thread in lane l of warp w
    done,       \* done[w]: lanes whose thread is_done()
    status,     \* status[w]: lanes whose m_status is EXIT
    live,       \* m_warp_live_thread
    blocking,   \* m_is_blocking
    atBar,      \* m_warp_at_bar, as read
    blockWarps, \* m_block_warp_count
    cur,        \* next position in the pass over the warps
    allDone,    \* all_done of the pass
    finished    \* execute() has returned

vars == <<prog, stk, pc, done, status, live, blocking, atBar, blockWarps,
          cur, allDone, finished>>

(***************************************************************************)
(* BlockState::init, the constructor, initializeCTA and createWarp.        *)
(***************************************************************************)
Init ==
    /\ prog \in Programs
    /\ stk = [w \in Warps |-> Launch(0, LanesOf(w))]
    /\ pc = [w \in Warps |-> [l \in Lanes |-> 0]]
    /\ done = [w \in Warps |-> Lanes \ LanesOf(w)]
    /\ status \in [Warps -> IF TRUE \in StatusGarbage
                            THEN (IF FALSE \in StatusGarbage THEN SUBSET Lanes ELSE {Lanes})
                            ELSE {{}}]
    /\ live = [w \in Warps |-> Cardinality(LanesOf(w))]
    /\ blocking \in [Warps -> BlockingGarbage]
    /\ atBar \in { b \in [Warps -> AtBarGarbage \cup {FALSE}] :
                     \A w \in Warps : IF w < BlockWarpCount THEN ~b[w]
                                                            ELSE b[w] \in AtBarGarbage }
    /\ blockWarps = BlockWarpCount
    /\ cur = 0
    /\ allDone = TRUE
    /\ finished = FALSE

(* The instruction at the top of a warp's stack, and its active lanes.     *)
Inst(w) == prog[Top(stk[w]).PC]
Active(w) == Top(stk[w]).mask

(* A warp instruction is executed by the first active lane alone.          *)
IsWarpOp(op) == op \in {"S_NOP", "S_BRANCH", "S_CBRANCH_SCCZ", "S_CBRANCH_SCCNZ",
                        "S_BARRIER", "S_SWAPPC"}

Leading(w, l) == \A k \in Active(w) : l <= k

(* The lanes that take a conditional branch on the collected condition cc. *)
Takes(w, l, op, cc) ==
    \/ op = "S_BRANCH"
    \/ op = "T_CBRANCH_TCCZ"  /\ l \notin cc
    \/ op = "T_CBRANCH_TCCNZ" /\ l \in cc
    \/ op = "S_CBRANCH_SCCZ"  /\ Leading(w, l) /\ l \notin cc
    \/ op = "S_CBRANCH_SCCNZ" /\ Leading(w, l) /\ l \in cc

(* The program counter an active lane is left with by ThreadItem::Execute: *)
(* update_pc makes m_NPC the program counter, which also overwrites the    *)
(* target S_SWAPPC_B64 stores with setWarpPC.                              *)
NextPC(w, l, cc) ==
    IF Takes(w, l, Inst(w).op, cc) THEN pc[w][l] + Inst(w).simm ELSE pc[w][l] + 1

(* Without OperandCollect the condition operand keeps its initial zero.    *)
Conditions(op) ==
    IF op \in {"T_CBRANCH_TCCZ", "T_CBRANCH_TCCNZ", "S_CBRANCH_SCCZ", "S_CBRANCH_SCCNZ"}
       /\ OperandsRead
    THEN SUBSET Lanes ELSE {{}}

(* Mutant: the last live lane of a warp counts for nothing.                *)
Warp_at_barrier_late(w) == atBar[w] \/ ~(live[w] > 1)

Warp_at_barrier(w) == atBar[w] \/ ~(live[w] > 0)

(* removeWarp is called by setFinished for every lane that exits, and once *)
(* more by execute() when the warp has no live thread left.  The mutant    *)
(* lets the unsigned counter go below zero.                                *)
RemovedSigned(w, exits, liveLeft) ==
    blockWarps - exits - IF liveLeft = 0 THEN 1 ELSE 0

Removed(w, exits, liveLeft) ==
    (blockWarps - exits - IF liveLeft = 0 THEN 1 ELSE 0) % UIntMod

(* T_EXIT sets m_status of each lane that executes it.  The mutant ends    *)
(* the whole warp.                                                         *)
StatusAfterExitAll(w) == IF Inst(w).op = "T_EXIT" THEN Lanes ELSE status[w]

StatusAfter(w) == IF Inst(w).op = "T_EXIT" THEN status[w] \cup Active(w) ELSE status[w]

(* checkExecutionStatusAndUpdate takes each active lane that is done off   *)
(* the count of live threads.  The mutant counts an instruction once.      *)
LiveAfterOnce(w, dn) == live[w] - IF Active(w) \cap dn = {} THEN 0 ELSE 1

LiveAfter(w, dn) == live[w] - Cardinality(Active(w) \cap dn)

(***************************************************************************)
(* executeWarp: fetch, execute on every active lane, update the stack.     *)
(***************************************************************************)
ExecuteWarp(w, cc) ==
    LET act   == Active(w)
        op    == Inst(w).op
        st    == StatusAfter(w)
        dn    == done[w] \cup (act \cap st)
        npc   == [l \in Lanes |-> IF l \in act THEN NextPC(w, l, cc) ELSE pc[w][l]]
        lv    == LiveAfter(w, dn)
    IN  /\ pc' = [pc EXCEPT ![w] = npc]
        /\ status' = [status EXCEPT ![w] = st]
        /\ done' = [done EXCEPT ![w] = dn]
        /\ live' = [live EXCEPT ![w] = lv]
        /\ blockWarps' = Removed(w, IF op = "T_EXIT" THEN Cardinality(act) ELSE 0, lv)
        /\ stk' = [stk EXCEPT ![w] =
                     Update(stk[w], dn, npc, NullPC, op, Top(stk[w]).PC + 1)]

(* all_done of the pass after a warp.  The mutant forgets earlier warps.   *)
AllDoneLast(w) == ~(live[w] > 0)

AllDoneAfter(w) == allDone /\ ~(live[w] > 0)

(* One warp of a pass of execute()'s loop.                                 *)
VisitWarp ==
    /\ ~finished
    /\ cur < WarpCount
    /\ allDone' = AllDoneAfter(cur)
    /\ cur' = cur + 1
    /\ IF blocking[cur] \/ Warp_at_barrier(cur)
       THEN UNCHANGED <<stk, pc, done, status, live, blockWarps>>
       ELSE \E cc \in Conditions(Inst(cur).op) : ExecuteWarp(cur, cc)
    /\ UNCHANGED <<prog, blocking, atBar, finished>>

(* The end of a pass: stop when no warp was live, else start over.         *)
EndPass ==
    /\ ~finished
    /\ cur = WarpCount
    /\ finished' = allDone
    /\ cur' = 0
    /\ allDone' = TRUE
    /\ UNCHANGED <<prog, stk, pc, done, status, live, blocking, atBar, blockWarps>>

Returned == finished /\ UNCHANGED vars

Next == VisitWarp \/ EndPass \/ Returned

Spec == Init /\ [][Next]_vars

(* The loop runs on one worker thread that nothing blocks.                 *)
FairSpec == Spec /\ WF_vars(VisitWarp \/ EndPass)
-----------------------------------------------------------------------------
LiveLanes(w) == LanesOf(w) \ done[w]

TypeOK ==
    /\ prog \in Programs
    /\ stk \in [Warps -> Seq(EntrySet(Lanes))]
    /\ pc \in [Warps -> [Lanes -> Nat]]
    /\ done \in [Warps -> SUBSET Lanes]
    /\ status \in [Warps -> SUBSET Lanes]
    /\ live \in [Warps -> Nat]
    /\ blocking \in [Warps -> BOOLEAN]
    /\ atBar \in [Warps -> BOOLEAN]
    /\ blockWarps \in Nat
    /\ cur \in 0..WarpCount
    /\ allDone \in BOOLEAN
    /\ finished \in BOOLEAN

(* The stack of a warp partitions its live lanes, whatever the divergence: *)
(* every live lane is in exactly one entry, and no lane that is done is    *)
(* left in any (Warp::update drops completed threads from the masks).      *)
StackPartition ==
    \A w \in Warps :
        /\ LiveLanes(w) = UNION { stk[w][i].mask : i \in DOMAIN stk[w] }
        /\ \A i, j \in DOMAIN stk[w] : i # j => stk[w][i].mask \cap stk[w][j].mask = {}

(* An entry's PC is the program counter of each lane that waits in it, so  *)
(* that a path resumed after a divergence goes on where its threads are.   *)
StackTracksThreads ==
    \A w \in Warps : \A i \in DOMAIN stk[w] : \A l \in stk[w][i].mask :
        pc[w][l] = stk[w][i].PC

(* A warp that execute() may run meets the assertions on its way: the      *)
(* stack is not empty, the active mask is not empty, no active thread is   *)
(* done, and its next program counters form at most two paths.             *)
AssertsHold ==
    \A w \in Warps :
        live[w] > 0 =>
            /\ Len(stk[w]) > 0
            /\ Active(w) # {}
            /\ Active(w) \cap done[w] = {}
            /\ Top(stk[w]).PC \in DOMAIN prog
            /\ \A cc \in Conditions(Inst(w).op) :
                  UpdateAsserts(stk[w], {}, [l \in Lanes |-> NextPC(w, l, cc)],
                                Inst(w).op, Top(stk[w]).PC)

(* m_warp_live_thread counts the threads of the warp that are not done, so *)
(* that the pass that finds all counters zero ends the block rightly.      *)
LiveCount == \A w \in Warps : live[w] = Cardinality(LiveLanes(w))

(* execute() returns only when every thread of the block is done.          *)
FinishedDone == finished => \A w \in Warps : LiveLanes(w) = {}

(* Every block is executed to completion (ThreadBlock.h: "executes all     *)
(* warps till completion").                                                *)
Completes == <>finished

(* What remains of it when the fields that are never initialised hold      *)
(* anything, and the program has no backward branch: a warp that they do   *)
(* not hold back runs to its end beside one that is skipped for ever, and  *)
(* execute() returns when none is held back.                               *)
UnheldCompletes ==
    (\A a \in DOMAIN prog : prog[a].simm > 0) =>
        /\ \A w \in Warps : ~blocking[w] /\ ~atBar[w] => <>(LiveLanes(w) = {})
        /\ (\A w \in Warps : ~blocking[w] /\ ~atBar[w]) => <>finished

(* Every thread that ends has executed T_EXIT: the program counter it is   *)
(* left with is the one after a T_EXIT.                                    *)
EndsAtExit ==
    \A w \in Warps : \A l \in LanesOf(w) \cap done[w] :
        pc[w][l] > 0 /\ prog[pc[w][l] - 1].op = "T_EXIT"

(* Whatever the fields that are never initialised hold: a thread that ends *)
(* has executed T_EXIT, or its m_status read as EXIT from the start and it *)
(* has ended with the first instruction, never later.                      *)
EndsExplained ==
    \A w \in Warps : \A l \in LanesOf(w) \cap done[w] :
        \/ pc[w][l] > 0 /\ prog[pc[w][l] - 1].op = "T_EXIT"
        \/ pc[w][l] \in {1, prog[0].simm}

(* A thread that is done stays done and never moves again.                 *)
DoneIsFinal ==
    [][\A w \in Warps : \A l \in done[w] : l \in done'[w] /\ pc'[w][l] = pc[w][l]]_vars

(* A scalar instruction moves the whole warp: active lanes stay together.  *)
ScalarUniform ==
    [][\A w \in Warps :
          pc'[w] # pc[w] /\ IsWarpOp(Inst(w).op) =>
              \A k, l \in Active(w) : pc'[w][k] = pc'[w][l]]_vars

(* S_SWAPPC_B64 jumps to its operand.                                      *)
SwapJumps ==
    [][\A w \in Warps :
          pc'[w] # pc[w] /\ Inst(w).op = "S_SWAPPC" =>
              \A l \in Active(w) : pc'[w][l] = pc[w][l] + Inst(w).simm]_vars

(* No warp leaves S_BARRIER while another warp with live threads has not   *)
(* reached it (for programs without backward branches).                    *)
BarrierHolds ==
    [][\A w \in Warps :
          pc'[w] # pc[w] /\ Inst(w).op = "S_BARRIER" =>
              \A v \in Warps : \A l \in LiveLanes(v) : pc[v][l] >= Top(stk[w]).PC]_vars
=============================================================================
