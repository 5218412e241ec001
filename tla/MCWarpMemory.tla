---------------------------- MODULE MCWarpMemory ----------------------------
(***************************************************************************)
(* Programs for the runs of WarpMemory: two blocks of two lanes, registers *)
(* of eight bits, seven vector and eighteen scalar ones.                   *)
(***************************************************************************)
EXTENDS WarpMemory, TLC

Ins(op, base, data) ==
    [op |-> op, base |-> base, scalar |-> FALSE, offset |-> 0, offset1 |-> 0, data |-> data,
     rsrc |-> 1, soffset |-> 3, idxen |-> FALSE, offen |-> FALSE, bits |-> {}]

(* Both blocks run a code of the same shape, from registers of their own.  *)
Base ==
    [kind |-> "none", code |-> [b \in Blocks |-> <<>>], active |-> [b \in Blocks |-> Lanes],
     v |-> [b \in Blocks |-> [r \in 0..MaxV |-> [l \in Lanes |-> 0]]],
     s |-> [b \in Blocks |-> [r \in 0..MaxS |-> 0]], mem |-> <<>>,
     cta |-> [b \in Blocks |-> [x |-> b, y |-> 2, z |-> 3]],
     word |-> [b \in Blocks |-> 0], datum |-> 0]
Both(kind, code) == [Base EXCEPT !.kind = kind, !.code = [b \in Blocks |-> code]]

(* Registers given by their number, the lane and the block.                *)
With(p, Value(_, _, _)) ==
    [p EXCEPT !.v = [b \in Blocks |-> [r \in 0..MaxV |-> [l \in Lanes |-> Wrap(Value(r, l, b))]]]]

(* Registers 0 to 3: the two places of the descriptor in the shared memory *)
(* and its first two words, a base and a stride.                           *)
Descriptor(base, stride, r, l, b) ==
    CASE r = 0 -> 0 [] r = 1 -> base + 4 * b [] r = 2 -> 4 [] r = 3 -> stride * Byte^2
Setup == <<Ins("D_WRITE_B32", 0, 1), Ins("D_WRITE_B32", 2, 3)>>

Atomic(bits) == [Ins("V_BUFFER_ATOMIC_ADD", 6, 4) EXCEPT !.bits = bits]
Adds ==
    {[With(Both("adds", Append(Setup, Atomic(bits))),
           LAMBDA r, l, b : IF r < 4 THEN Descriptor(96, 0, r, l, b) ELSE x + 100 * l + b)
        EXCEPT !.word = [b \in Blocks |-> 96 + 4 * b], !.mem = 96 :> 3 @@ 100 :> 2] :
        bits \in {{}, {"glc"}}, x \in {1, 90, 200}}
Race ==
    {[p EXCEPT !.kind = "race", !.word = [b \in Blocks |-> 96],
               !.v = [b \in Blocks |-> [@[b] EXCEPT ![1] = [l \in Lanes |-> 96]]]] : p \in Adds}

(* A store and a load through one descriptor; with idxen and offen the     *)
(* index is in register 5 and the offset in register 6.                    *)
BufferPair(st, ld, ix, off, bits, stride, x) ==
    With(Both("buffer", Setup \o <<[Ins(st, 5, 4) EXCEPT !.idxen = ix, !.offen = off, !.bits = bits],
                                    [Ins(ld, 5, 4) EXCEPT !.idxen = ix, !.offen = off]>>),
         LAMBDA r, l, b : CASE r < 4 -> Descriptor(96, stride, r, l, 2 * b)
                            [] r = 4 -> x + 3 * l + b [] r = 5 -> 1 [] r = 6 -> 2 + l)
Buffers ==
    {BufferPair("V_BUFFER_STORE_SBYTE", "V_BUFFER_LOAD_SBYTE", ix, off, bits, 1, x) :
        ix \in BOOLEAN, off \in BOOLEAN, bits \in {{}, {"glc"}}, x \in {0, 2}}
      \cup {BufferPair("V_BUFFER_STORE_DWORD", "V_BUFFER_LOAD_SBYTE", ix, off, {}, 3, 250) :
               ix \in BOOLEAN, off \in BOOLEAN}
Dwords ==
    {BufferPair("V_BUFFER_STORE_DWORD", "V_BUFFER_LOAD_DWORD", TRUE, TRUE, {}, 3, 250)}

(* The second store and the load have from one to four bytes.              *)
Loads ==
    {With(Both("loads", <<[Ins("V_STORE_U32", 0, 3) EXCEPT !.offset = 8],
                          [Ins(st, 0, 4) EXCEPT !.offset = 8],
                          [Ins(ld, 0, 5) EXCEPT !.offset = 8]>>),
          LAMBDA r, l, b : CASE r = 0 -> 96 + 8 * b + 4 * l [] r = 1 -> 0
                             [] r = 3 -> 27 + 7 * l + b [] r = 4 -> x + b [] OTHER -> 255) :
        st \in StoreOps, ld \in LoadOps, x \in {228, 141}}

(* The base is the pair of registers 2 and 3 and holds 96; memory differs  *)
(* from word to word.                                                      *)
Scalars ==
    {[Both("scalar", <<[Ins(op, 1, d) EXCEPT !.bits = {"imm"}, !.offset = 1]>>)
        EXCEPT !.s = [b \in Blocks |-> [r \in 0..MaxS |-> IF r = 2 THEN 96 ELSE 17 * (r % 2) * b]],
               !.mem = [a \in 100..163 |-> (a \div 3) % 4]] :
        op \in SLSOps, d \in {0, 2}}

Shareds ==
    {With(Both("shared", <<Ins(wr, 0, 1), Ins(rd, 0, 2)>>),
          LAMBDA r, l, b : CASE r = 0 -> 8 + 4 * l [] r = 1 -> x + 64 * l + b [] OTHER -> 255) :
        wr \in WriteOps, rd \in ReadOps, x \in {1, 10, 171}}
      \cup {With(Both("none", <<Ins("D_WRITE_B32", 0, 1), Ins("D_WRITE2_B32", 0, 1),
                                [Ins("D_READ2_B32", 0, 2) EXCEPT !.offset1 = 1]>>),
                 LAMBDA r, l, b : 4 * r + l)}

(* Block 0 stores the datum and then the flag; block 1 loads both.         *)
Messages ==
    {[With(Both("message", <<[Ins("V_STORE_U32", 0, 2) EXCEPT !.offset = 4],
                             Ins("V_STORE_U32", 0, 3)>>),
           LAMBDA r, l, b : CASE r = 0 -> 96 + 8 * l [] r = 2 -> 77 [] r = 3 -> 1 [] OTHER -> 0)
        EXCEPT !.code[1] = <<[Ins(ld, 0, 4) EXCEPT !.scalar = sc]>>, !.datum = 77,
               !.s[1][0] = 96] :
        ld \in {"V_LOAD_U64"}, sc \in BOOLEAN}
      \cup {With(Both("none", <<Ins(ld, 0, 2)>>), LAMBDA r, l, b : IF r = 0 THEN 96 ELSE up) :
               ld \in {"V_LOAD_U32X4", "V_LOAD_U32"}, up \in {0, 8}}

Flats ==
    {With(Both("flat", <<Ins("V_CVTA_SHARED_TO_FLAT", 0, 1)>>),
          LAMBDA r, l, b : IF r = 0 THEN 4 * x + 3 * l ELSE 16 * x + 4 * (r - 3) + 2 * l + b) :
        x \in 0..7}

(* What ends the process.                                                  *)
Aborts ==
    {With(Both("none", <<i>>), LAMBDA r, l, b : 97) :
        i \in {Ins("S_LOAD_DWORD", 1, 0), [Ins("S_LOAD_DWORD", 0, 0) EXCEPT !.bits = {"imm"}],
               Ins("V_LOAD_U64", 0, 2), Ins("V_STORE_U64", 0, 2),
               [Ins("V_BUFFER_LOAD_SBYTE", 0, 2) EXCEPT !.idxen = TRUE],
               [Ins("V_BUFFER_LOAD_DWORD", 0, 2) EXCEPT !.bits = {"glc"}],
               [Ins("V_BUFFER_ATOMIC_ADD", 0, 2) EXCEPT !.bits = {"tfe"}],
               [Ins("D_READ_I8", 0, 2) EXCEPT !.offset1 = 1],
               [Ins("D_READ2_B32", 0, 2) EXCEPT !.bits = {"gds"}],
               Ins("D_READ2_B32", 0, 2), Ins("V_CVTA_SHARED_TO_FLAT", 0, 2)}}

AllPrograms ==
    Adds \cup Buffers \cup Dwords \cup Loads \cup Scalars \cup Shareds \cup Messages \cup Flats \cup Aborts

(* For the defects: a pointer above the first 2^W addresses; the indices   *)
(* of the block; a flat address that is loaded from.                       *)
Pointers ==
    {[p EXCEPT !.kind = "pointer", !.s = [b \in Blocks |-> [@[b] EXCEPT ![3] = 1]],
               !.mem = @ @@ [a \in 356..360 |-> 3]] : p \in {q \in Scalars : q.code[0][1].data = 0}}
Indices == {[Base EXCEPT !.kind = "index"]}
FlatLoads ==
    {With(Both("flat load", <<Ins("D_WRITE_B32", 0, 4), Ins("V_CVTA_SHARED_TO_FLAT", 0, 1),
                              Ins("V_LOAD_U32", 1, 3)>>),
          LAMBDA r, l, b : 4 * l + r)}
=============================================================================
