------------------------ MODULE OperandPipe_proofs ------------------------
(***************************************************************************)
(* The operands of an instruction, for every set of warps, lanes,          *)
(* registers and instructions, and every interleaving of the warps that    *)
(* share the instruction objects.  Then the registers behind them: the     *)
(* scalar registers of RegFile keep the promise of Registers for every     *)
(* size of the file and of the constant window, whatever is written.       *)
(***************************************************************************)
EXTENDS OperandPipe, RegFile, TLAPS

(* The lanes of the path on top of the stack.                              *)
LEMMA ActiveType ==
    ASSUME TypeOK, NEW w \in Warps, stk[w] # <<>>
    PROVE  Active(w) \in SUBSET Lanes
  <1>1. stk[w] \in Seq(SUBSET Lanes) /\ stk[w] # <<>>
    BY DEF TypeOK
  <1>2. Len(stk[w]) \in 1..Len(stk[w])
    BY <1>1
  <1> QED
    BY <1>1, <1>2 DEF Active

(* A vector source read through any mask is a value of every lane.         *)
LEMMA ReadType ==
    ASSUME TypeOK, NEW w \in Warps, NEW r \in Regs, NEW m
    PROVE  ReadReg(w, r, m) \in [Lanes -> Values]
  <1>1. 0 \in Values
    BY PipeAssumption DEF Values
  <1>2. vreg[w][r] \in [Lanes -> Values]
    BY DEF TypeOK
  <1> QED
    BY <1>1, <1>2 DEF ReadReg

(* WriteBack changes one register of one warp, in the lanes of the mask.   *)
LEMMA WriteFacts ==
    ASSUME TypeOK, NEW w \in Warps, NEW r \in Regs, NEW value \in [Lanes -> Values], NEW m,
           vreg' = WriteReg(w, r, value, m)
    PROVE  /\ vreg' \in [Warps -> [Regs -> [Lanes -> Values]]]
           /\ \A v \in Warps, q \in Regs : v # w \/ q # r => vreg'[v][q] = vreg[v][q]
           /\ \A l \in Lanes : vreg'[w][r][l] = IF l \in m THEN value[l] ELSE vreg[w][r][l]
  <1> DEFINE new == [l \in Lanes |-> IF l \in m THEN value[l] ELSE vreg[w][r][l]]
  <1>1. vreg \in [Warps -> [Regs -> [Lanes -> Values]]] /\ vreg[w] \in [Regs -> [Lanes -> Values]]
    BY DEF TypeOK
  <1>2. new \in [Lanes -> Values]
    BY <1>1
  <1>3. vreg' = [vreg EXCEPT ![w] = [vreg[w] EXCEPT ![r] = new]]
    BY <1>1 DEF WriteReg
  <1>4. \A l \in Lanes : new[l] = IF l \in m THEN value[l] ELSE vreg[w][r][l]
    OBVIOUS
  <1> HIDE DEF new
  <1>5. vreg'[w] = [vreg[w] EXCEPT ![r] = new] /\ vreg'[w][r] = new
    BY <1>1, <1>3
  <1>6. [vreg[w] EXCEPT ![r] = new] \in [Regs -> [Lanes -> Values]]
    BY <1>1, <1>2
  <1>7. vreg' \in [Warps -> [Regs -> [Lanes -> Values]]]
    BY <1>1, <1>3, <1>6
  <1>8. \A v \in Warps, q \in Regs : v # w \/ q # r => vreg'[v][q] = vreg[v][q]
    BY <1>1, <1>3, <1>5
  <1> QED
    BY <1>4, <1>5, <1>7, <1>8

(* The bits WriteBack stores in TCC.                                       *)
CompareBits(w, i) ==
    (CollectTcc(w, i) \ Active(w))
      \cup { l \in Active(w) : ReadReg(w, i.src0, CollectMask(w))[l] < ReadReg(w, i.src1, CollectMask(w))[l] }

(* executeInstruction of a V_MOV_B32 or a V_CMP, one at a time.            *)
LEMMA VectorFacts ==
    ASSUME NEW w \in Warps, NEW i \in Insts, ExecuteVector(w, i)
    PROVE  /\ i \in InstSet /\ stk[w] # <<>>
           /\ mask' = [mask EXCEPT ![w] = Active(w)] /\ stk' = stk
           /\ last' = [op |-> i.op, warp |-> w, inst |-> i, lanes |-> Active(w), seen |-> mask[w],
                       s0 |-> vreg[w][i.src0], s1 |-> vreg[w][i.src1]]
           /\ i.op = "V_MOV_B32" =>
                 /\ vreg' = WriteReg(w, i.dst, ReadReg(w, i.src0, mask[w]), Active(w))
                 /\ tcc' = tcc /\ dstTcc' = dstTcc
           /\ i.op # "V_MOV_B32" =>
                 /\ dstTcc' = [dstTcc EXCEPT ![i] = CompareBits(w, i)]
                 /\ tcc' = [tcc EXCEPT ![w] = CompareBits(w, i)]
                 /\ vreg' = vreg
  BY PipeAssumption DEF ExecuteVector, CompareBits, CollectMask

(* Every step keeps the types.                                             *)
LEMMA TypeStep == TypeOK /\ [Next]_vars => TypeOK'
  <1> SUFFICES ASSUME TypeOK, [Next]_vars PROVE TypeOK'
    OBVIOUS
  <1>1. CASE UNCHANGED vars
    BY <1>1 DEF vars, TypeOK
  <1>2. ASSUME NEW w \in Warps, NEW i \in Insts, ExecuteVector(w, i) PROVE TypeOK'
    <2>1. i \in InstSet /\ i.src0 \in Regs /\ i.dst \in Regs
      BY PipeAssumption DEF InstSet
    <2>2. Active(w) \in SUBSET Lanes
      BY <1>2, ActiveType, VectorFacts
    <2>3. mask' \in [Warps -> SUBSET Lanes] /\ stk' \in [Warps -> Seq(SUBSET Lanes)]
      BY <1>2, <2>2, VectorFacts DEF TypeOK
    <2>4. CASE i.op = "V_MOV_B32"
      <3>1. ReadReg(w, i.src0, mask[w]) \in [Lanes -> Values]
        BY <2>1, ReadType
      <3>2. vreg' \in [Warps -> [Regs -> [Lanes -> Values]]]
        BY <1>2, <2>1, <2>4, <3>1, VectorFacts, WriteFacts
      <3> QED
        BY <1>2, <2>3, <2>4, <3>2, VectorFacts DEF TypeOK
    <2>5. CASE i.op # "V_MOV_B32"
      <3>1. CompareBits(w, i) \in SUBSET Lanes
        BY <2>2 DEF CompareBits, CollectTcc, TypeOK
      <3>2. /\ dstTcc' = [dstTcc EXCEPT ![i] = CompareBits(w, i)]
            /\ tcc' = [tcc EXCEPT ![w] = CompareBits(w, i)]
            /\ vreg' = vreg
        BY <1>2, <2>5, VectorFacts
      <3> HIDE DEF CompareBits
      <3>3. dstTcc' \in [Insts -> SUBSET Lanes] /\ tcc' \in [Warps -> SUBSET Lanes]
        BY <3>1, <3>2 DEF TypeOK
      <3>4. vreg' \in [Warps -> [Regs -> [Lanes -> Values]]]
        BY <3>2 DEF TypeOK
      <3> QED
        BY <2>3, <3>3, <3>4 DEF TypeOK
    <2> QED
      BY <2>4, <2>5
  <1>3. ASSUME NEW w \in Warps, Branch(w) \/ Exit(w) PROVE TypeOK'
    <2> DEFINE s == stk[w]
               below == [i \in 1..Len(s)-1 |-> s[i]]
    <2>1. s \in Seq(SUBSET Lanes) /\ s # <<>> /\ stk \in [Warps -> Seq(SUBSET Lanes)]
      BY <1>3 DEF Branch, Exit, TypeOK
    <2>2. below \in Seq(SUBSET Lanes)
      <3>1. Len(s) - 1 \in Nat /\ \A i \in 1..Len(s)-1 : s[i] \in SUBSET Lanes
        BY <2>1
      <3> QED
        BY <3>1
    <2>3. Active(w) \in SUBSET Lanes
      BY <2>1, ActiveType
    <2>4. stk' \in [Warps -> Seq(SUBSET Lanes)]
      <3>1. CASE stk' = stk
        BY <2>1, <3>1
      <3>2. CASE stk' = [stk EXCEPT ![w] = below]
        <4> HIDE DEF below
        <4> QED
          BY <2>1, <2>2, <3>2
      <3>3. ASSUME NEW a \in SUBSET Lanes, NEW b \in SUBSET Lanes,
                   stk' = [stk EXCEPT ![w] = below \o <<a, b>>]
            PROVE  stk' \in [Warps -> Seq(SUBSET Lanes)]
        <4> HIDE DEF below
        <4>1. below \o <<a, b>> \in Seq(SUBSET Lanes)
          BY <2>2
        <4> QED
          BY <2>1, <3>3, <4>1
      <3>4. \/ stk' = stk \/ stk' = [stk EXCEPT ![w] = below]
            \/ \E a, b \in SUBSET Lanes : stk' = [stk EXCEPT ![w] = below \o <<a, b>>]
        <4>1. CASE Exit(w)
          BY <4>1 DEF Exit
        <4>2. CASE Branch(w)
          <5>1. Active(w) \cap tcc[w] \in SUBSET Lanes /\ Active(w) \ tcc[w] \in SUBSET Lanes
            BY <2>3
          <5>2. \/ stk' = stk
                \/ stk' = [stk EXCEPT ![w] = below \o <<Active(w) \cap tcc[w], Active(w) \ tcc[w]>>]
                \/ stk' = [stk EXCEPT ![w] = below \o <<Active(w) \ tcc[w], Active(w) \cap tcc[w]>>]
            BY <4>2 DEF Branch
          <5> HIDE DEF below
          <5> QED
            BY <5>1, <5>2
        <4> QED
          BY <1>3, <4>1, <4>2
      <3> QED
        BY <3>1, <3>2, <3>3, <3>4
    <2>5. mask' \in [Warps -> SUBSET Lanes] /\ UNCHANGED <<vreg, tcc, dstTcc>>
      BY <1>3, <2>3 DEF Branch, Exit, TypeOK
    <2> QED
      BY <2>4, <2>5 DEF TypeOK
  <1> QED
    BY <1>1, <1>2, <1>3 DEF Next

(* The state the warps start in.                                           *)
LEMMA TypeInit == Init => TypeOK
  <1> SUFFICES ASSUME Init PROVE TypeOK
    OBVIOUS
  <1>1. <<Lanes>> \in Seq(SUBSET Lanes)
    OBVIOUS
  <1> QED
    BY <1>1 DEF Init, TypeOK

(* A lane that was active in the warp's previous instruction computes its  *)
(* result from its own sources (OperandCollect before setActiveMask,       *)
(* WriteBack after it), also when the destination is one of the sources.   *)
THEOREM StayingLanes == Spec => []StayingLanesRight
  <1>1. Init => StayingLanesRight
    BY TypeInit DEF Init, None, StayingLanesRight
  <1>2. StayingLanesRight /\ [Next]_vars => StayingLanesRight'
    <2> SUFFICES ASSUME StayingLanesRight, [Next]_vars PROVE StayingLanesRight'
      OBVIOUS
    <2>1. TypeOK /\ TypeOK'
      BY TypeStep DEF StayingLanesRight
    <2>2. CASE UNCHANGED vars
      BY <2>1, <2>2 DEF StayingLanesRight, Computed, Bit, vars
    <2>3. ASSUME NEW w \in Warps, Branch(w) \/ Exit(w) PROVE StayingLanesRight'
      <3>1. last'.op = "none"
        BY <2>3 DEF Branch, Exit, None
      <3> QED
        BY <2>1, <3>1 DEF StayingLanesRight
    <2>4. ASSUME NEW w \in Warps, NEW i \in Insts, ExecuteVector(w, i) PROVE StayingLanesRight'
      <3>1. /\ i.src0 \in Regs /\ i.src1 \in Regs /\ i.dst \in Regs
            /\ i.op \in {"V_MOV_B32", "V_CMP_LT_I32"}
        BY PipeAssumption DEF InstSet
      <3>2. /\ last'.op = i.op /\ last'.warp = w /\ last'.inst = i /\ last'.lanes = Active(w)
            /\ last'.seen = mask[w] /\ last'.s0 = vreg[w][i.src0] /\ last'.s1 = vreg[w][i.src1]
        BY <2>4, VectorFacts
      <3>3. Active(w) \in SUBSET Lanes
        BY <2>1, <2>4, ActiveType, VectorFacts
      <3> SUFFICES ASSUME NEW l \in Active(w) \cap mask[w] PROVE Computed(l)'
        BY <2>1, <3>2 DEF StayingLanesRight
      <3>4. /\ l \in Lanes /\ l \in Active(w) /\ l \in mask[w]
            /\ ReadReg(w, i.src0, mask[w])[l] = vreg[w][i.src0][l]
            /\ ReadReg(w, i.src1, mask[w])[l] = vreg[w][i.src1][l]
        BY <3>3 DEF ReadReg
      <3>5. CASE i.op = "V_MOV_B32"
        <4>1. ReadReg(w, i.src0, mask[w]) \in [Lanes -> Values]
          BY <2>1, <3>1, ReadType
        <4>2. vreg'[w][i.dst][l] = ReadReg(w, i.src0, mask[w])[l]
          BY <2>1, <2>4, <3>1, <3>4, <3>5, <4>1, VectorFacts, WriteFacts
        <4> QED
          BY <3>2, <3>4, <3>5, <4>2 DEF Computed
      <3>6. CASE i.op # "V_MOV_B32"
        <4>1. tcc'[w] = CompareBits(w, i)
          BY <2>1, <2>4, <3>6, VectorFacts DEF TypeOK
        <4>2. l \in CompareBits(w, i) <=> vreg[w][i.src0][l] < vreg[w][i.src1][l]
          BY <3>4 DEF CompareBits, CollectMask
        <4> QED
          BY <3>2, <3>6, <4>1, <4>2 DEF Computed, Bit
      <3> QED
        BY <3>5, <3>6
    <2> QED
      BY <2>2, <2>3, <2>4 DEF Next
  <1> QED
    BY <1>1, <1>2, PTL DEF Spec

(* WriteBack and setBitmask leave the registers and the TCC bits of every  *)
(* other lane and of every other warp alone.                               *)
THEOREM Bystanders == Spec => BystandersKept
  <1> DEFINE Kept(w, l) ==
          last'.op # "none" /\ (last'.warp # w \/ l \notin Active(w)) =>
              /\ \A r \in Regs : vreg'[w][r][l] = vreg[w][r][l]
              /\ (l \in tcc'[w]) = (l \in tcc[w])
  <1>1. TypeOK /\ [Next]_vars => [\A w \in Warps : \A l \in Lanes : Kept(w, l)]_vars
    <2> SUFFICES ASSUME TypeOK, Next, NEW v \in Warps, NEW l \in Lanes,
                        last'.op # "none", last'.warp # v \/ l \notin Active(v)
                 PROVE  /\ \A r \in Regs : vreg'[v][r][l] = vreg[v][r][l]
                        /\ (l \in tcc'[v]) = (l \in tcc[v])
      OBVIOUS
    <2>1. PICK w \in Warps, i \in Insts : ExecuteVector(w, i)
      BY DEF Next, Branch, Exit, None
    <2>2. i.src0 \in Regs /\ i.dst \in Regs /\ last'.warp = w
      BY <2>1, VectorFacts, PipeAssumption DEF InstSet
    <2>3. CASE i.op = "V_MOV_B32"
      <3>1. ReadReg(w, i.src0, mask[w]) \in [Lanes -> Values]
        BY <2>2, ReadType
      <3>2. tcc' = tcc /\ vreg' = WriteReg(w, i.dst, ReadReg(w, i.src0, mask[w]), Active(w))
        BY <2>1, <2>3, VectorFacts
      <3>3. /\ \A u \in Warps, q \in Regs : u # w \/ q # i.dst => vreg'[u][q] = vreg[u][q]
            /\ l \notin Active(w) => vreg'[w][i.dst][l] = vreg[w][i.dst][l]
        BY <2>2, <3>1, <3>2, WriteFacts
      <3> QED
        BY <2>2, <3>2, <3>3
    <2>4. CASE i.op # "V_MOV_B32"
      <3>1. vreg' = vreg /\ tcc' = [tcc EXCEPT ![w] = CompareBits(w, i)]
        BY <2>1, <2>4, VectorFacts
      <3>2. l \notin Active(w) => (l \in CompareBits(w, i) <=> l \in tcc[w])
        BY DEF CompareBits, CollectTcc
      <3>3. l \in tcc'[v] <=> l \in tcc[v]
        BY <2>2, <3>1, <3>2 DEF TypeOK
      <3> QED
        BY <3>1, <3>3
    <2> QED
      BY <2>3, <2>4
  <1> QED
    BY <1>1, TypeInit, TypeStep, PTL DEF Spec, BystandersKept
-----------------------------------------------------------------------------
(* The number under which getSreg reads a cell of m_sreg.                  *)
Number(cell) == IF cell < Reserved THEN cell ELSE cell + ConstNum

(* A cell that setSreg writes is read under one number, above or below the *)
(* window.                                                                 *)
LEMMA NumberType ==
    ASSUME NEW r \in Written, Slot(r) < Cells
    PROVE  /\ r \in Index
           /\ Slot(r) \in 0..Cells-1
           /\ Number(Slot(r)) \in Index \ Constant
  <1>1. r \in Index /\ Cells \in Nat /\ Reserved \in Nat /\ ConstNum \in Nat
    BY RegAssumption
  <1>2. Slot(r) \in 0..Cells-1
    BY <1>1 DEF Slot, Index
  <1>3. Number(Slot(r)) \in Index \ Constant
    BY <1>1, <1>2 DEF Number, Index, Constant
  <1> QED
    BY <1>1, <1>2, <1>3

(* Every reachable state is well typed: getSreg reads inside m_sreg and    *)
(* the constant buffer.                                                    *)
LEMMA ViewType ==
    ASSUME RegTypeOK
    PROVE  View \in [Index -> Contents]
  <1>1. SUFFICES ASSUME NEW r \in Index PROVE getSreg(r) \in Contents
    BY DEF View
  <1>2. CASE r < Reserved
    BY <1>2, RegAssumption DEF getSreg, Index, RegTypeOK
  <1>3. CASE ~(r < Reserved) /\ r < Reserved + ConstNum
    BY <1>3, RegAssumption DEF getSreg, Index, RegTypeOK
  <1>4. CASE ~(r < Reserved) /\ ~(r < Reserved + ConstNum)
    BY <1>4, RegAssumption DEF getSreg, Index, RegTypeOK
  <1>5. QED BY <1>2, <1>3, <1>4

(* setSreg changes the number of the cell it writes, and no other.         *)
LEMMA SetStep ==
    ASSUME RegTypeOK, NEW r \in Written, NEW v \in Contents, setSreg(r, v)
    PROVE  /\ RegTypeOK'
           /\ View' = [View EXCEPT ![Number(Slot(r))] = v]
  <1> DEFINE cell == Slot(r)
  <1>1. /\ cell \in 0..Cells-1 /\ Number(cell) \in Index
        /\ sreg' = [sreg EXCEPT ![cell] = v] /\ constBuffer' = constBuffer
        /\ sreg \in [0..Cells-1 -> Contents]
        /\ Reserved \in Nat /\ ConstNum \in Nat /\ Cells \in Nat /\ Reserved <= Cells
    BY NumberType, RegAssumption DEF setSreg, RegTypeOK
  <1>2. RegTypeOK'
    BY <1>1 DEF RegTypeOK
  <1> HIDE DEF cell
  <1>3. ASSUME NEW q \in Index
        PROVE  getSreg(q)' = IF q = Number(cell) THEN v ELSE getSreg(q)
    <2>1. q \in Int /\ 0 <= q /\ q < Cells + ConstNum
      BY <1>1 DEF Index
    <2>2. CASE q < Reserved
      <3>1. q \in 0..Cells-1 /\ (q = cell <=> q = Number(cell))
        BY <1>1, <2>1, <2>2 DEF Number
      <3>2. getSreg(q) = sreg[q] /\ getSreg(q)' = sreg'[q]
        BY <2>2 DEF getSreg
      <3> QED
        BY <1>1, <3>1, <3>2
    <2>3. CASE ~(q < Reserved) /\ q < Reserved + ConstNum
      <3>1. q # Number(cell)
        BY <1>1, <2>1, <2>3 DEF Number
      <3>2. getSreg(q) = constBuffer[q - Reserved] /\ getSreg(q)' = constBuffer'[q - Reserved]
        BY <2>3 DEF getSreg
      <3> QED
        BY <1>1, <3>1, <3>2
    <2>4. CASE ~(q < Reserved) /\ ~(q < Reserved + ConstNum)
      <3>1. q - ConstNum \in 0..Cells-1 /\ (q - ConstNum = cell <=> q = Number(cell))
        BY <1>1, <2>1, <2>4 DEF Number
      <3>2. getSreg(q) = sreg[q - ConstNum] /\ getSreg(q)' = sreg'[q - ConstNum]
        BY <2>4 DEF getSreg
      <3> QED
        BY <1>1, <3>1, <3>2
    <2> QED
      BY <2>2, <2>3, <2>4
  <1>4. View' = [q \in Index |-> getSreg(q)']
    BY DEF View
  <1>5. View' = [View EXCEPT ![Number(cell)] = v]
    BY <1>1, <1>3, <1>4 DEF View
  <1> QED
    BY <1>2, <1>5 DEF cell

(* Every step of the file is a write of one register of Registers.         *)
LEMMA RegNextStep ==
    ASSUME RegTypeOK, RegNext
    PROVE  RegTypeOK' /\ Abstract!RNext
  <1>1. PICK r \in Written, v \in Contents : setSreg(r, v)
    <2>1. PICK r \in Written :
             \/ \E v \in Contents : setSreg(r, v)
             \/ \E b \in BOOLEAN, lane \in Bits : setBitmaskSreg(r, b, lane)
      BY DEF RegNext
    <2>2. CASE \E b \in BOOLEAN, lane \in Bits : setBitmaskSreg(r, b, lane)
      <3>1. PICK b \in BOOLEAN, lane \in Bits : setBitmaskSreg(r, b, lane)
        BY <2>2
      <3>2. getSreg(r) \in SUBSET Bits
        BY RegAssumption, ViewType DEF View, Contents
      <3>3. (IF b THEN getSreg(r) \cup {lane} ELSE getSreg(r) \ {lane}) \in Contents
        BY <3>2 DEF Contents
      <3>4. QED BY <3>1, <3>3 DEF setBitmaskSreg
    <2>3. QED BY <2>1, <2>2
  <1>2. RegTypeOK' /\ View' = [View EXCEPT ![Number(Slot(r))] = v]
    BY <1>1, SetStep
  <1>3. Number(Slot(r)) \in Index \ Constant
    BY <1>1, NumberType DEF setSreg
  <1>4. Abstract!Write(Number(Slot(r)), v)
    BY <1>2, <1>3 DEF Abstract!Write
  <1>5. QED BY <1>2, <1>3, <1>4 DEF Abstract!RNext

(* getSreg, setSreg and setBitmaskSreg implement a file of independent     *)
(* registers with read only constants, for every window, every file size   *)
(* and every choice of the numbers that are written: whatever number a     *)
(* program names, one register at most changes and no constant does.       *)
THEOREM Refinement == RegSpec => ImplementsRegisters
  <1>1. RegInit => RegTypeOK
    BY DEF RegInit, RegTypeOK
  <1>2. RegTypeOK /\ [RegNext]_RegVars => RegTypeOK'
    <2>1. CASE RegNext
      BY <2>1, RegNextStep
    <2>2. CASE UNCHANGED RegVars
      BY <2>2 DEF RegVars, RegTypeOK
    <2>3. QED BY <2>1, <2>2
  <1>3. RegInit => Abstract!RInit
    BY <1>1, ViewType DEF Abstract!RInit
  <1>4. RegTypeOK /\ [RegNext]_RegVars => [Abstract!RNext]_View
    <2>1. ASSUME RegTypeOK, UNCHANGED RegVars PROVE View' = View
      BY <2>1 DEF RegVars, View, getSreg
    <2>2. QED BY <2>1, RegNextStep
  <1>5. QED BY <1>1, <1>2, <1>3, <1>4, PTL DEF RegSpec, ImplementsRegisters, Abstract!RSpec
=============================================================================
