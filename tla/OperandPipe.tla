---------------------------- MODULE OperandPipe ----------------------------
(***************************************************************************)
(* How an instruction reads and writes the registers of a warp:            *)
(* ThreadBlock::executeInstruction (src/model/ThreadBlock.cpp), class      *)
(* Operand and Instruction::OperandCollect and WriteBack                   *)
(* (src/isa/inc/Instruction.h), with operand collection switched on        *)
(* (g_debug_exec > 1).  The instruction objects, and with them the values  *)
(* of their operands, are shared by the warps of the block: getInstruction *)
(* decodes each program counter once.                                      *)
(*                                                                         *)
(* The program is any sequence of the instructions Insts, of T_CBRANCH_TCC *)
(* and of T_EXIT.  A branch splits the active lanes and leaves two paths   *)
(* on the stack, the exit of a path uncovers the other (module SimtStack); *)
(* which path is on top depends on the program counters and is open here.  *)
(***************************************************************************)
EXTENDS Integers, Sequences

CONSTANTS
    Warps,
    Lanes,
    Regs,      \* vector registers
    MaxVal,    \* register values are 0..MaxVal
    Insts      \* the vector instructions of the program

Values == 0..MaxVal

(* V_MOV_B32 writes a vector register, a V_CMP writes the bits of its      *)
(* lanes in the TCC register.                                              *)
InstSet == [op : {"V_MOV_B32", "V_CMP_LT_I32"}, src0 : Regs, src1 : Regs, dst : Regs]

ASSUME PipeAssumption == MaxVal \in Nat /\ Insts \subseteq InstSet

VARIABLES
    vreg,   \* vreg[w][r][l]: m_vreg
    tcc,    \* tcc[w]: the lanes whose bit is set in the TCC register
    mask,   \* mask[w]: m_active_mask of the WarpState
    stk,    \* stk[w]: the masks of the SIMT stack
    dstTcc, \* dstTcc[i]: value_ of the TCC destination of instruction i
    last    \* the instruction just executed, the warp and what it found

vars == <<vreg, tcc, mask, stk, dstTcc, last>>

None == [op |-> "none"]

(* m_vreg and m_sreg are not initialised; m_active_mask is empty.          *)
Init ==
    /\ vreg \in [Warps -> [Regs -> [Lanes -> Values]]]
    /\ tcc \in [Warps -> SUBSET Lanes]
    /\ mask = [w \in Warps |-> {}]
    /\ stk = [w \in Warps |-> <<Lanes>>]
    /\ dstTcc = [i \in Insts |-> {}]
    /\ last = None

Active(w) == stk[w][Len(stk[w])]

(* Operand::readReg of a vector source: a lane that is not in m_active_mask *)
(* is left at the zero of the fresh vector_value.                           *)
ReadReg(w, r, m) == [l \in Lanes |-> IF l \in m THEN vreg[w][r][l] ELSE 0]

(* OperandCollect runs before setActiveMask: it sees the mask of the       *)
(* previous instruction of the warp.                                       *)
(* The mutant clears the mask between instructions.                        *)
CollectMaskEmpty(w) == {}

CollectMask(w) == mask[w]

(* The TCC destination is read as well, before setBitmask changes its bits. *)
(* The mutant keeps the value of the instruction's previous execution.      *)
CollectTccStale(w, i) == dstTcc[i]

CollectTcc(w, i) == tcc[w]

(* WriteBack writes the vector destination of the lanes in the new mask.   *)
WriteReg(w, r, value, m) ==
    [vreg EXCEPT ![w][r] = [l \in Lanes |-> IF l \in m THEN value[l] ELSE @[l]]]

(* executeInstruction for a vector instruction.                            *)
ExecuteVector(w, i) ==
    LET act == Active(w)
        s0  == ReadReg(w, i.src0, CollectMask(w))
        s1  == ReadReg(w, i.src1, CollectMask(w))
        bits == (CollectTcc(w, i) \ act) \cup { l \in act : s0[l] < s1[l] }
    IN  /\ stk[w] # <<>>
        /\ mask' = [mask EXCEPT ![w] = act]
        /\ last' = [op |-> i.op, warp |-> w, inst |-> i, lanes |-> act, seen |-> mask[w],
                    s0 |-> vreg[w][i.src0], s1 |-> vreg[w][i.src1]]
        /\ IF i.op = "V_MOV_B32"
           THEN vreg' = WriteReg(w, i.dst, s0, act) /\ UNCHANGED <<tcc, dstTcc>>
           ELSE /\ dstTcc' = [dstTcc EXCEPT ![i] = bits]
                /\ tcc' = [tcc EXCEPT ![w] = bits]
                /\ UNCHANGED vreg
        /\ UNCHANGED stk

(* T_CBRANCH_TCCZ and TCCNZ: the TCC operand is a scalar, read whole.      *)
Branch(w) ==
    /\ stk[w] # <<>>
    /\ mask' = [mask EXCEPT ![w] = Active(w)]
    /\ LET set   == Active(w) \cap tcc[w]
           clear == Active(w) \ tcc[w]
           below == [i \in 1..Len(stk[w])-1 |-> stk[w][i]]
       IN  IF set = {} \/ clear = {}
           THEN UNCHANGED stk
           ELSE \E order \in {<<set, clear>>, <<clear, set>>} :
                    stk' = [stk EXCEPT ![w] = below \o order]
    /\ last' = None
    /\ UNCHANGED <<vreg, tcc, dstTcc>>

(* T_EXIT ends the active lanes and uncovers the path below.               *)
Exit(w) ==
    /\ stk[w] # <<>>
    /\ mask' = [mask EXCEPT ![w] = Active(w)]
    /\ stk' = [stk EXCEPT ![w] = [i \in 1..Len(stk[w])-1 |-> stk[w][i]]]
    /\ last' = None
    /\ UNCHANGED <<vreg, tcc, dstTcc>>

Next == \E w \in Warps : Branch(w) \/ Exit(w) \/ \E i \in Insts : ExecuteVector(w, i)

Spec == Init /\ [][Next]_vars
-----------------------------------------------------------------------------
Bit(w, l) == l \in tcc[w]

TypeOK ==
    /\ vreg \in [Warps -> [Regs -> [Lanes -> Values]]]
    /\ tcc \in [Warps -> SUBSET Lanes]
    /\ mask \in [Warps -> SUBSET Lanes]
    /\ stk \in [Warps -> Seq(SUBSET Lanes)]
    /\ dstTcc \in [Insts -> SUBSET Lanes]

(* What a lane computed in the last instruction: the value of its          *)
(* destination, against the values its sources had.                        *)
Computed(l) ==
    IF last.op = "V_MOV_B32"
    THEN vreg[last.warp][last.inst.dst][l] = last.s0[l]
    ELSE Bit(last.warp, l) <=> last.s0[l] < last.s1[l]

(* Registers of a lane that does not take part in an instruction keep      *)
(* their values, whatever the other paths of the warp, and the other warps *)
(* that share the instruction object, do ("target TCC need to read to for  *)
(* later bitmask operation").                                              *)
BystandersKept ==
    [][\A w \in Warps : \A l \in Lanes :
          last'.op # "none" /\ (last'.warp # w \/ l \notin Active(w)) =>
              /\ \A r \in Regs : vreg'[w][r][l] = vreg[w][r][l]
              /\ (l \in tcc'[w]) = (l \in tcc[w])]_vars

(* A lane that was active in the warp's previous instruction too computes  *)
(* its result from its own sources, even when a destination is a source.   *)
StayingLanesRight ==
    /\ TypeOK
    /\ last.op # "none" => \A l \in last.lanes \cap last.seen : Computed(l)

(* Every active lane computes its result from its own sources ("D.u =      *)
(* S0.u").                                                                 *)
ActiveLanesRight ==
    last.op # "none" => \A l \in last.lanes : Computed(l)
=============================================================================
