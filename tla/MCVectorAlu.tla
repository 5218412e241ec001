---------------------------- MODULE MCVectorAlu ----------------------------
(***************************************************************************)
(* Programs and registers for the runs of VectorAlu: three lanes, of which *)
(* the last is inactive, three vector registers, so that pairs overlap,    *)
(* and three scalar registers besides VCC, TCC and EXEC.                   *)
(***************************************************************************)
EXTENDS VectorAlu

V(n) == [kind |-> "v", n |-> n]
Imm(n) == [kind |-> "imm", n |-> n]
Scalar(n) == [kind |-> "s", n |-> n]

(* Operands in registers 0, 1 and 2; a pair is written to registers 1, 2.  *)
Ins(op) == [op |-> op, x |-> 0, src |-> IF op \in {"V_LSHL_B64", "V_ASHR_I64"} THEN V(2) ELSE V(1),
            y |-> IF op = "V_LSHR_B64" THEN 2 ELSE 1, z |-> 2, mods |-> {}, sd |-> Tcc,
            d |-> IF op \in WideDst \cup {"V_LSHR_B64"} THEN 1 ELSE 2]
Cmp(op) == [Ins(op) EXCEPT !.d = Tcc]
Cmp3(op, m) == [Ins(op) EXCEPT !.mods = m]

Run(collects, codes, where) ==
    {[collect |-> collects, active |-> {0, 1}, code |-> c, from |-> where] : c \in codes}

(* The words that lie behind the value of an immediate.                    *)
Leftover == [l \in Lanes |-> Wrap(6 * l + 9)]

(* Lane 0 has every pair of words, the other lanes others; or the scalar   *)
(* registers have every two or three words.                                *)
LaneContents ==
    {[v |-> (0 :> (0 :> a @@ 1 :> Wrap(3 * b + 1) @@ 2 :> 7)) @@ (1 :> (0 :> b @@ 1 :> a @@ 2 :> 8))
              @@ (2 :> (0 :> Wrap(a + b) @@ 1 :> Wrap(a + 9) @@ 2 :> 6)),
      s |-> [r \in 0..MaxS |-> IF r = 0 THEN Wrap(a + 11) ELSE 5]] : a \in Word, b \in Word}

WordContents(as, bs, cs) ==
    {[v |-> [r \in 0..MaxV |-> [l \in Lanes |-> 9]],
      s |-> [r \in 0..MaxS |-> CASE r = 0 -> a [] r = 1 -> b [] r = 2 -> c [] OTHER -> 10]] :
        a \in as, b \in bs, c \in cs}

AllContents ==
    "lanes" :> LaneContents @@ "two" :> WordContents(Word, Word, {5})
      @@ "three" :> WordContents(Word, Word, Word) @@ "one" :> WordContents({3}, {14}, {5})

AllPrograms ==
    Run(TRUE,
        {<<Ins(op)>> : op \in VOP1Ops \cup VOP2Ops \cup CarryOps \cup {"V_MADLO_I32_I32"}}
          \cup {<<Cmp(op)>> : op \in VOPCOps \cup {"V_CMP_EQ_U32"}}
          \cup {<<[Ins(op) EXCEPT !.src = o]>> :
                   op \in {"V_MOV_B32", "V_ADD_I64"}, o \in {Imm(3), Scalar(0)}}
          \cup {<<Ins("V_ADDCO_U32"), [Ins("V_ADDC_U32") EXCEPT !.z = Vcc, !.d = 0]>>,
                <<Ins("V_SUB_U32"), Ins("V_CNDMASK_B32")>>,
                <<Ins("V_MULLO_I32"), [Ins("V_MULHI_I32") EXCEPT !.d = 0]>>,
                <<Ins("V_MULLO_I32"), [Ins("V_MULHI_U32") EXCEPT !.d = 0]>>,
                <<Ins("V_CHOP_B16_B32"), [Ins("V_SEXT_I32_I16") EXCEPT !.src = V(2)]>>,
                <<Ins("V_FFBH_U32")>>, <<Ins("V_AND_B32"), Ins("V_MED3_I32")>>}, "lanes")
      \cup Run(FALSE, {<<Ins(op)>> : op \in Arithmetic3AOps \cup {"V_LSHR_B64"}}, "three")
      \cup Run(FALSE, {<<Cmp3(op, m)>> : op \in Signed3AOps, m \in SUBSET ({"abs", "neg"} \X {0, 1})}
                   \cup {<<Ins(op)>> : op \in Unsigned3AOps}
                   \cup {<<Ins("V_CMP_GT_I32_VOP3A"),
                           [Ins("V_CNDMASK_B32_VOP3A") EXCEPT !.x = 1, !.y = 0]>>}, "two")
      \cup Run(FALSE, {<<Cmp3("V_MED3_I32", {<<"clamp", 0>>})>>, <<Ins("V_MOV_B32")>>,
                   <<Cmp("V_CMP_LT_U32")>>, <<Ins("V_CSEL_B32")>>,
                   <<Cmp3("V_CNDMASK_B32_VOP3A", {<<"neg", 0>>, <<"neg", 1>>})>>}, "one")
      \cup Run(TRUE, {<<Ins("V_MULLO_U32")>>}, "one")

(* Single programs for the defects.                                        *)
SubProgram == Run(TRUE, {<<Ins("V_SUB_I32")>>}, "lanes")
Add64Program == Run(TRUE, {<<Ins("V_ADD_I64")>>}, "lanes")
MulloProgram == Run(TRUE, {<<Ins("V_MULLO_U32")>>}, "one")
FieldProgram == Run(FALSE, {<<Ins("V_BFE_I32")>>}, "three")
MulhiProgram == Run(TRUE, {<<Ins("V_MULHI_I32")>>}, "lanes")
EqualProgram == Run(TRUE, {<<Cmp("V_CMP_EQ_U32")>>}, "lanes")
DirectProgram == Run(TRUE, {<<Ins("V_MED3_I32")>>}, "lanes")

(* The destination of the comparison is its first source.                  *)
AliasProgram == Run(FALSE, {<<[Ins("V_CMP_EQ_I32_VOP3A") EXCEPT !.d = 0]>>}, "two")
=============================================================================
