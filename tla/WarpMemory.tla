----------------------------- MODULE WarpMemory -----------------------------
(***************************************************************************)
(* The memory instructions: src/isa/InstructionSLS.cpp, VLS.cpp, VMUBUF.cpp*)
(* and DLS.cpp, and V_CVTA_SHARED_TO_FLAT.  Blocks run on different        *)
(* workers, here with one warp each; a block has its own shared memory,    *)
(* and all blocks use the global memory without a lock.  A step of a block *)
(* is one call of the global memory, with what its handler does up to the  *)
(* next: a handler of several accesses may be interrupted between them.    *)
(*                                                                         *)
(* A register has W bits and four bytes; a memory is a sparse map from     *)
(* addresses to bytes (libcuda::memory_space, outside the repository),     *)
(* whose single accesses are taken as atomic.                              *)
(*                                                                         *)
(* The operands are collected and written back (g_debug_exec > 1).  The    *)
(* counter m_smem_read_counter and the flag vector_memory_global_coherency *)
(* are written and never read, and are left out.                           *)
(***************************************************************************)
EXTENDS Words, AddressSpace, Sequences, FiniteSetsExt

CONSTANTS
    Blocks, NLanes,
    MaxV, MaxS,         \* the registers are 0..MaxV and 0..MaxS
    IndexBits,          \* the block indices that kernel_ctrl asks for
    Programs            \* what the blocks run, and from which registers

Lanes == 0..NLanes-1
Byte == 2^(W \div 4)
TopAddr == 2^W * 2^W - 1        \* (uint64_t) -1

ASSUME MemoryAssumption ==
    /\ W % 4 = 0 /\ NLanes \in 1..W /\ IndexBits \subseteq {"x", "y", "z"}
    /\ MaxV \in Nat /\ MaxS \in Nat
    /\ NSM > 0 /\ GLOBAL_HEAP_START <= TopAddr

(* What exponentiation is on the powers of a byte.                         *)
ASSUME BytePowerAssumption ==
    Byte^0 = 1 /\ \A n \in 0..5 : Byte^n \in Nat /\ Byte^(n+1) = Byte * Byte^n

(* n bytes of a memory, in little-endian order; n is at most six.          *)
ByteAt(m, a) == IF a \in DOMAIN m THEN m[a] ELSE 0
Get(m, a, n) ==
    LET Part(j) == IF j < n THEN ByteAt(m, a + j) * Byte^j ELSE 0
    IN  Part(0) + Part(1) + Part(2) + Part(3) + Part(4) + Part(5)

Put(m, a, n, x) ==
    [b \in DOMAIN m \cup a..a+n-1 |->
        IF b \in a..a+n-1 THEN (x \div Byte^(b-a)) % Byte ELSE m[b]]

(* The value of n bytes as a signed word.                                  *)
Extend(x, n) == LET low == x % Byte^n
                IN  IF 2 * low >= Byte^n THEN Wrap(low - Byte^n) ELSE low
-----------------------------------------------------------------------------
(* The bytes or words that an instruction accesses.                        *)
SLSOps == {"S_LOAD_DWORD", "S_LOAD_DWORDX2", "S_LOAD_DWORDX4", "S_LOAD_DWORDX8",
           "S_LOAD_DWORDX16"}
SLSWords(op) == CASE op = "S_LOAD_DWORD" -> 1 [] op = "S_LOAD_DWORDX2" -> 2
                  [] op = "S_LOAD_DWORDX4" -> 4 [] op = "S_LOAD_DWORDX8" -> 8
                  [] op = "S_LOAD_DWORDX16" -> 16
LoadOps == {"V_LOAD_U8", "V_LOAD_U16", "V_LOAD_U32"}
LoadBytes(op) == CASE op = "V_LOAD_U8" -> 1 [] op = "V_LOAD_U16" -> 2 [] op = "V_LOAD_U32" -> 4
LoadXOps == {"V_LOAD_U64", "V_LOAD_U32X4"}
LoadWords(op) == IF op = "V_LOAD_U64" THEN 2 ELSE 4
StoreOps == {"V_STORE_U8", "V_STORE_U16", "V_STORE_U32"}
StoreBytes(op) ==
    CASE op = "V_STORE_U8" -> 1 [] op = "V_STORE_U16" -> 2 [] op = "V_STORE_U32" -> 4
BufferLoads == {"V_BUFFER_LOAD_SBYTE", "V_BUFFER_LOAD_DWORD"}
BufferStores == {"V_BUFFER_STORE_SBYTE", "V_BUFFER_STORE_DWORD"}
BufferOps == BufferLoads \cup BufferStores \cup {"V_BUFFER_ATOMIC_ADD"}
BufferBytes(op) == IF op \in {"V_BUFFER_LOAD_SBYTE", "V_BUFFER_STORE_SBYTE"} THEN 1 ELSE 4
VLSOps == LoadOps \cup LoadXOps \cup StoreOps \cup {"V_STORE_U64"}
GlobalOps == SLSOps \cup VLSOps \cup BufferOps
-----------------------------------------------------------------------------
(* The programs: the registers that an instruction names exist, and all of *)
(* them hold words at the start.                                           *)
RegistersExist(i) ==
    LET words == IF i.op \in SLSOps THEN SLSWords(i.op) ELSE LoadWords(i.op)
    IN  /\ i.offset \in Nat /\ i.offset1 \in Nat /\ i.base \in Nat /\ i.data \in Nat
        /\ i.op \in SLSOps => {2 * i.base, 2 * i.base + 1, i.data + words - 1} \subseteq 0..MaxS
        /\ i.op \in VLSOps =>
              {i.base, i.base + 1} \subseteq IF i.scalar THEN 0..MaxS ELSE 0..MaxV
        /\ i.op \in LoadXOps => i.data + words - 1 \in 0..MaxV
        /\ i.op \in BufferOps =>
              /\ {4 * i.rsrc, 4 * i.rsrc + 1, i.soffset} \subseteq 0..MaxS
              /\ (i.idxen => i.base \in 0..MaxV)
              /\ (i.offen => i.base + Flag(i.idxen) \in 0..MaxV)
        /\ i.op \notin GlobalOps => i.base \in 0..MaxV
        /\ i.op \notin SLSOps => i.data \in 0..MaxV
        /\ i.op \in {"D_READ2_B32", "V_CVTA_SHARED_TO_FLAT"} => i.data + 1 \in 0..MaxV

ASSUME ProgramAssumption ==
    \A p \in Programs :
        /\ \A b \in Blocks :
              /\ Len(p.code[b]) \in Nat
              /\ \A k \in 1..Len(p.code[b]) : RegistersExist(p.code[b][k])
              /\ p.active[b] # {} /\ p.active[b] \subseteq Lanes
              /\ {p.cta[b].x, p.cta[b].y, p.cta[b].z} \subseteq Nat
        /\ p.v \in [Blocks -> [0..MaxV -> [Lanes -> Word]]]
        /\ p.s \in [Blocks -> [0..MaxS -> Word]]
        /\ \A a \in DOMAIN p.mem : p.mem[a] \in 0..Byte-1
-----------------------------------------------------------------------------
VARIABLES
    program,    \* the program of the blocks
    pc,         \* pc[b]: the instruction of block b
    ran,        \* ran[b]: the lanes that have executed it
    work,       \* work[b]: the accesses of the current lane, or Idle
    v, s,       \* v[b][r][l], s[b][r]: the registers
    mem,        \* the global memory
    shared,     \* shared[b]: m_shared_mem
    last,       \* last[b]: m_global_memory_access_address and _size
    aborted     \* an assertion or an uncaught exception has ended the process

vars == <<program, pc, ran, work, v, s, mem, shared, last, aborted>>

(* The k-th access of a lane: the address of the first, and what the       *)
(* accesses before it have read.                                           *)
Access(at, k, held, lane) == [at |-> at, k |-> k, held |-> held, lane |-> lane]
Empty == [j \in 0..3 |-> 0]
Idle == Access(0, 0, Empty, -1)

(* initializeCTA stores every requested index at the place of x; -1 is the *)
(* place of an index that is not requested.                                *)
InitShared(cta) ==
    LET x == IF "x" \in IndexBits THEN 0 ELSE -1
        y == IF "y" \in IndexBits THEN x + 1 ELSE -1
        z == IF "y" \in IndexBits THEN y + 1 ELSE -1
        place == IF x = -1 THEN TopAddr ELSE x
        Stored(m, at, value) == IF at >= 0 THEN Put(m, place, 4, value) ELSE m
    IN  Stored(Stored(Stored([a \in {} |-> 0], x, cta.x), y, cta.y), z, cta.z)

Init ==
    /\ program \in Programs
    /\ pc = [b \in Blocks |-> 1]
    /\ ran = [b \in Blocks |-> {}]
    /\ work = [b \in Blocks |-> Idle]
    /\ v = program.v /\ s = program.s /\ mem = program.mem
    /\ shared = [b \in Blocks |-> InitShared(program.cta[b])]
    /\ last = [b \in Blocks |-> <<0, 0>>]
    /\ aborted = FALSE

Inst(b) == program.code[b][pc[b]]
Ended(b) == pc[b] > Len(program.code[b])

(* SLS is a warp operation: the leading lane alone executes it.            *)
Takers(b) == IF Inst(b).op \in SLSOps THEN {Min(program.active[b])} ELSE program.active[b]

(* The next lane of the instruction; LaneDone goes on to the next one, or  *)
(* to the next instruction.                                                *)
NextLane(b) == Min(Takers(b) \ ran[b])

LaneDone(b, l) ==
    LET all == ran[b] \cup {l} = Takers(b)
    IN  /\ ran' = [ran EXCEPT ![b] = IF all THEN {} ELSE @ \cup {l}]
        /\ pc' = [pc EXCEPT ![b] = IF all THEN @ + 1 ELSE @]
        /\ work' = [work EXCEPT ![b] = Idle]

Abort(b) ==
    /\ aborted' = TRUE
    /\ UNCHANGED <<program, pc, ran, work, v, s, mem, shared, last>>
-----------------------------------------------------------------------------
(* Addresses, from the registers and the shared memory c of a block.       *)
Context(b) == [v |-> v[b], s |-> s[b], shared |-> shared[b]]

(* The operands of VLS are collected before the first lane and written     *)
(* back after the last; no lane reads what another writes, so that reading *)
(* and writing the registers in the lane's turn is the same.               *)
SrcPair(c, i, l) ==
    IF i.scalar THEN <<c.s[i.base], c.s[i.base + 1]>>
    ELSE <<c.v[i.base][l], c.v[i.base + 1][l]>>

(* The upper word is shifted by 32 as a 32-bit number: undefined, and in   *)
(* practice zero or the word itself.                                       *)
U64(pair) == {pair[1], BitOr(pair[1], pair[2])}
calculateAddr(c, i, l) == {base + i.offset : base \in U64(SrcPair(c, i, l))}

(* struct MemoryPointer keeps 48 of 64 bits.                               *)
MemPtr(c, r) == c.s[r] + 2^W * (c.s[r + 1] % 2^(W \div 2))

(* The effective address of SLS is computed in 32 bits.                    *)
ScalarAddr(c, i) == Wrap(MemPtr(c, 2 * i.base) + 4 * i.offset)

(* ReadBufferResource reads the descriptor from the space "undefined",     *)
(* which is the shared memory: a base of six bytes, and a stride of two    *)
(* bytes less two bits (the comment has it in four scalar registers).      *)
ReadBufferResource(c, r) ==
    LET at == MemPtr(c, r)
    IN  [base |-> Get(c.shared, at, 6), stride |-> Get(c.shared, at + 6, 2) % (Byte^2 \div 4)]

IdxVgpr(c, i, l) == IF i.idxen THEN c.v[i.base][l] ELSE 0
OffVgpr(c, i, l) == IF i.offen THEN c.v[i.base + Flag(i.idxen)][l] ELSE 0

(* Mutant: the lanes share one element.                                    *)
BufferAddr_uniform(c, i, l) ==
    LET desc == ReadBufferResource(c, 4 * i.rsrc)
    IN  Wrap(desc.base + c.s[i.soffset] + i.offset + OffVgpr(c, i, l)
               + desc.stride * IdxVgpr(c, i, l))

BufferAddr(c, i, l) ==
    LET desc == ReadBufferResource(c, 4 * i.rsrc)
    IN  Wrap(desc.base + c.s[i.soffset] + i.offset + OffVgpr(c, i, l)
               + desc.stride * (IdxVgpr(c, i, l) + l))

(* "The buffer descriptor is probably invalid": the handler throws.        *)
InvalidDescriptor(c, i, l) ==
    IdxVgpr(c, i, l) # 0 /\ ReadBufferResource(c, 4 * i.rsrc).stride = 0

Addresses(c, i, l) ==
    CASE i.op \in SLSOps -> {ScalarAddr(c, i)}
      [] i.op \in VLSOps -> calculateAddr(c, i, l)
      [] i.op \in BufferOps -> {BufferAddr(c, i, l)}

(* What stops a handler before its first access: an assertion on a bit of  *)
(* the encoding or on the alignment, an invalid descriptor, or, for        *)
(* V_STORE_U64, a data operand that Decode has not made.                   *)
Refused(c, i, l, addr) ==
    CASE i.op \in SLSOps -> "imm" \notin i.bits \/ addr % 4 # 0
      [] i.op \in LoadXOps -> addr % 4 # 0
      [] i.op = "V_STORE_U64" -> TRUE
      [] i.op \in BufferOps ->
            \/ i.bits \cap {"addr64", "slc", "tfe", "lds"} # {}
            \/ "glc" \in i.bits /\ i.op \in BufferLoads
            \/ InvalidDescriptor(c, i, l)
      [] OTHER -> FALSE

Begin(b) ==
    LET i == Inst(b)
        l == NextLane(b)
    IN  /\ work[b] = Idle /\ i.op \in GlobalOps
        /\ \E addr \in Addresses(Context(b), i, l) :
             IF Refused(Context(b), i, l, addr) THEN Abort(b)
             ELSE /\ work' = [work EXCEPT ![b] = Access(addr, 0, Empty, l)]
                  /\ UNCHANGED <<program, pc, ran, v, s, mem, shared, last, aborted>>
-----------------------------------------------------------------------------
(* One access of the lane at work.                                         *)
Working(b, ops) == work[b] # Idle /\ Inst(b).op \in ops
Record(b, size) == last' = [last EXCEPT ![b] = <<work[b].at, size>>]

(* Mutants: the words are read from the last to the first; the address is  *)
(* formed again for every word.                                            *)
WordIndex_down(k, n) == n - 1 - k
WordAddr_again(b, j) == IF Inst(b).op \in SLSOps THEN Wrap(ScalarAddr(Context(b), Inst(b)) + 4 * j)
                        ELSE work[b].at + 4 * j

(* The word that the k-th of n accesses reads, and its address: of 32 bits *)
(* in SLS and of 64 in VLS.                                                *)
WordIndex(k, n) == k
WordAddr(b, j) == IF Inst(b).op \in SLSOps THEN Wrap(work[b].at + 4 * j)
                  ELSE work[b].at + 4 * j
ReadWord(b, j) == Get(mem, WordAddr(b, j), 4)

(* S_LOAD_DWORD to X16: every word goes to its register at once.           *)
ScalarLoad(b) ==
    LET i == Inst(b)
        w == work[b]
        n == SLSWords(i.op)
        j == WordIndex(w.k, n)
    IN  /\ Working(b, SLSOps)
        /\ s' = [s EXCEPT ![b][i.data + j] = ReadWord(b, j)]
        /\ IF w.k + 1 = n
           THEN LaneDone(b, w.lane) /\ Record(b, IF n = 1 THEN 8 ELSE 4 * n)
           ELSE /\ work' = [work EXCEPT ![b] = Access(w.at, w.k + 1, w.held, w.lane)]
                /\ UNCHANGED <<pc, ran, last>>
        /\ UNCHANGED <<program, v, mem, shared, aborted>>

(* load(): one access of one to four bytes, zero-extended.                 *)
VectorLoad(b) ==
    LET i == Inst(b)
        w == work[b]
    IN  /\ Working(b, LoadOps)
        /\ v' = [v EXCEPT ![b][i.data][w.lane] = Get(mem, w.at, LoadBytes(i.op))]
        /\ LaneDone(b, w.lane)
        /\ UNCHANGED <<program, s, mem, shared, last, aborted>>

(* V_LOAD_U64 and V_LOAD_U32X4: word by word, recorded as eight bytes.     *)
VectorLoadX(b) ==
    LET i == Inst(b)
        w == work[b]
        n == LoadWords(i.op)
        j == WordIndex(w.k, n)
        held == [w.held EXCEPT ![j] = ReadWord(b, j)]
    IN  /\ Working(b, LoadXOps)
        /\ IF w.k + 1 = n
           THEN /\ v' = [v EXCEPT ![b] = [r \in 0..MaxV |->
                            IF r \in i.data..i.data+n-1
                            THEN [v[b][r] EXCEPT ![w.lane] = held[r - i.data]] ELSE v[b][r]]]
                /\ LaneDone(b, w.lane) /\ Record(b, 8)
           ELSE /\ work' = [work EXCEPT ![b] = Access(w.at, w.k + 1, held, w.lane)]
                /\ UNCHANGED <<pc, ran, v, last>>
        /\ UNCHANGED <<program, s, mem, shared, aborted>>

VectorStore(b) ==
    LET i == Inst(b)
        w == work[b]
    IN  /\ Working(b, StoreOps)
        /\ mem' = Put(mem, w.at, StoreBytes(i.op), v[b][i.data][w.lane])
        /\ LaneDone(b, w.lane)
        /\ UNCHANGED <<program, v, s, shared, last, aborted>>

(* Both loads keep the first byte only, with its sign.                     *)
BufferLoad(b) ==
    LET i == Inst(b)
        w == work[b]
    IN  /\ Working(b, BufferLoads)
        /\ v' = [v EXCEPT ![b][i.data][w.lane] = Extend(Get(mem, w.at, BufferBytes(i.op)), 1)]
        /\ LaneDone(b, w.lane) /\ Record(b, BufferBytes(i.op))
        /\ UNCHANGED <<program, s, mem, shared, aborted>>

BufferStore(b) ==
    LET i == Inst(b)
        w == work[b]
    IN  /\ Working(b, BufferStores)
        /\ mem' = Put(mem, w.at, BufferBytes(i.op), v[b][i.data][w.lane])
        /\ LaneDone(b, w.lane) /\ Record(b, BufferBytes(i.op))
        /\ UNCHANGED <<program, v, s, shared, aborted>>

(* V_BUFFER_ATOMIC_ADD reads, and writes the sum in another access.        *)
AtomicRead(b) ==
    /\ Working(b, {"V_BUFFER_ATOMIC_ADD"}) /\ work[b].k = 0
    /\ LET read == [Empty EXCEPT ![0] = Get(mem, work[b].at, 4)]
       IN  work' = [work EXCEPT ![b] = Access(work[b].at, 1, read, work[b].lane)]
    /\ UNCHANGED <<program, pc, ran, v, s, mem, shared, last, aborted>>

(* Mutant: the lane gets the new value back.                               *)
Returned_new(prev, sum) == sum

Returned(prev, sum) == prev
AtomicWrite(b) ==
    LET i == Inst(b)
        w == work[b]
        prev == w.held[0]
        sum == Wrap(v[b][i.data][w.lane] + prev)
    IN  /\ Working(b, {"V_BUFFER_ATOMIC_ADD"}) /\ w.k = 1
        /\ mem' = Put(mem, w.at, 4, sum)
        /\ v' = IF "glc" \in i.bits
                THEN [v EXCEPT ![b][i.data][w.lane] = Returned(prev, sum)] ELSE v
        /\ LaneDone(b, w.lane) /\ Record(b, 4)
        /\ UNCHANGED <<program, s, shared, aborted>>
-----------------------------------------------------------------------------
(* DLS: the shared memory, which no other block touches.                   *)
WriteOps == {"D_WRITE_B8", "D_WRITE_B16", "D_WRITE_B32"}
WriteLDS(op) == CASE op = "D_WRITE_B8" -> 1 [] op = "D_WRITE_B16" -> 2 [] op = "D_WRITE_B32" -> 4
ReadOps == {"D_READ_I8", "D_READ_U8", "D_READ_I16", "D_READ_U16", "D_READ_B32"}
ReadLDS(op) == CASE op \in {"D_READ_I8", "D_READ_U8"} -> 1
                 [] op \in {"D_READ_I16", "D_READ_U16"} -> 2
                 [] op = "D_READ_B32" -> 4
NoLDS == {"D_ADD_U32", "D_INC_U32", "D_WRITE2_B32"}     \* they do nothing

RefusedLDS(i) ==
    /\ i.op \notin NoLDS
    /\ \/ "gds" \in i.bits
       \/ i.offset # 0
       \/ i.offset1 # 0 /\ i.op \notin {"D_WRITE_B32", "D_READ_B32"}

ExecuteDLS(b) ==
    LET i == Inst(b)
        l == NextLane(b)
        addr == v[b][i.base][l]
    IN  /\ i.op \in WriteOps \cup ReadOps \cup NoLDS
        /\ IF RefusedLDS(i) THEN Abort(b)
           ELSE /\ shared' = IF i.op \in WriteOps
                             THEN [shared EXCEPT ![b] = Put(@, addr, WriteLDS(i.op), v[b][i.data][l])]
                             ELSE shared
                /\ v' = IF i.op \in ReadOps
                        THEN LET x == Get(shared[b], addr, ReadLDS(i.op))
                             IN  [v EXCEPT ![b][i.data][l] =
                                    IF i.op \in {"D_READ_I8", "D_READ_I16"}
                                    THEN Extend(x, ReadLDS(i.op)) ELSE x]
                        ELSE v
                /\ LaneDone(b, l)
                /\ UNCHANGED <<program, s, mem, last, aborted>>

(* D_READ2_B32 asserts on its offsets after it has read.                   *)
D_READ2_B32(b) ==
    LET i == Inst(b)
        l == NextLane(b)
        Read(off) == Get(shared[b], Wrap(v[b][i.base][l] + 4 * off), 4)
    IN  /\ i.op = "D_READ2_B32"
        /\ IF "gds" \in i.bits THEN Abort(b)
           ELSE /\ v' = [v EXCEPT ![b][i.data][l] = Read(i.offset),
                                  ![b][i.data + 1][l] = Read(i.offset1)]
                /\ LaneDone(b, l)
                /\ aborted' = ~(i.offset = 0 /\ i.offset1 = 1)
                /\ UNCHANGED <<program, s, mem, shared, last>>

(* The generic address of a shared one, as seen from SM 0.                 *)
V_CVTA_SHARED_TO_FLAT(b) ==
    LET i == Inst(b)
        l == NextLane(b)
        flat == shared_to_generic(0, v[b][i.base][l])
    IN  /\ i.op = "V_CVTA_SHARED_TO_FLAT"
        /\ IF v[b][i.base][l] >= SHARED_MEM_SIZE_MAX THEN Abort(b)
           ELSE /\ v' = [v EXCEPT ![b][i.data][l] = Wrap(flat),
                                  ![b][i.data + 1][l] = flat \div 2^W]
                /\ LaneDone(b, l)
                /\ UNCHANGED <<program, s, mem, shared, last, aborted>>

Execute(b) ==
    /\ ~aborted /\ ~Ended(b)
    /\ \/ Begin(b) \/ ScalarLoad(b) \/ VectorLoad(b) \/ VectorLoadX(b) \/ VectorStore(b)
       \/ BufferLoad(b) \/ BufferStore(b) \/ AtomicRead(b) \/ AtomicWrite(b)
       \/ ExecuteDLS(b) \/ D_READ2_B32(b) \/ V_CVTA_SHARED_TO_FLAT(b)

Next == \E b \in Blocks : Execute(b)

Spec == Init /\ [][Next]_vars
-----------------------------------------------------------------------------
TypeOK ==
    /\ \A b \in Blocks : /\ pc[b] \in 1..Len(program.code[b])+1
                         /\ ran[b] \subseteq program.active[b]
                         /\ \A a \in DOMAIN shared[b] : shared[b][a] \in 0..Byte-1
    /\ v \in [Blocks -> [0..MaxV -> [Lanes -> Word]]]
    /\ s \in [Blocks -> [0..MaxS -> Word]]
    /\ \A a \in DOMAIN mem : mem[a] \in 0..Byte-1
    /\ aborted \in BOOLEAN

(* Block b has run a program of n instructions to its end.                 *)
At(b, k) == program.code[b][k]
Ran(b, n) == Len(program.code[b]) = n /\ pc[b] = n + 1

(* The registers and the shared memory at the start.                       *)
Reg(b, r, l) == program.v[b][r][l]
Start(b) ==
    [v |-> program.v[b], s |-> program.s[b], shared |-> InitShared(program.cta[b])]

(* The first two instructions of block b store the descriptor that         *)
(* instruction i uses, and no other changes the shared memory.             *)
Described(b, i) ==
    /\ At(b, 1).op = "D_WRITE_B32" /\ At(b, 2).op = "D_WRITE_B32"
    /\ \A k \in 3..Len(program.code[b]) : At(b, k).op \notin WriteOps
    /\ \A l, m \in program.active[b] :
          /\ Reg(b, At(b, 1).base, l) = MemPtr(Start(b), 4 * i.rsrc)
          /\ Reg(b, At(b, 2).base, l) = MemPtr(Start(b), 4 * i.rsrc) + 4
          /\ Reg(b, At(b, 1).data, l) = Reg(b, At(b, 1).data, m)
          /\ Reg(b, At(b, 2).data, l) = Reg(b, At(b, 2).data, m)

(* The element of lane l: the first word of the descriptor is the base,    *)
(* the second has the stride in its upper half.                            *)
Element(b, i, l) ==
    LET stride == (Reg(b, At(b, 2).data, l) \div Byte^2) % (Byte^2 \div 4)
    IN  Wrap(Reg(b, At(b, 1).data, l) + program.s[b][i.soffset] + i.offset
               + OffVgpr(Start(b), i, l) + stride * (IdxVgpr(Start(b), i, l) + l))

(* Where an instruction accesses the global memory for lane l.             *)
Place(b, i, l) ==
    IF i.op \in BufferOps THEN Element(b, i, l) ELSE SrcPair(Start(b), i, l)[1] + i.offset

(* Only the last instruction of block b changes its registers, addresses   *)
(* have one word, and descriptors are stored before they are used.         *)
Steady(b) ==
    \A k \in 1..Len(program.code[b]) :
        LET i == At(b, k)
        IN  /\ k < Len(program.code[b]) => i.op \in WriteOps \cup StoreOps \cup BufferStores
            /\ i.op \in VLSOps => \A l \in program.active[b] : SrcPair(Start(b), i, l)[2] = 0
            /\ i.op \in BufferOps => k > 2 /\ Described(b, i)

(* Lane l of block b writes to none of the n bytes at a.                   *)
Apart(x, m, a, n) == x + m <= a \/ a + n <= x
Spares(b, l, a, n) ==
    \A k \in 1..Len(program.code[b]) :
        LET i == At(b, k)
        IN  /\ i.op \in StoreOps => Apart(Place(b, i, l), StoreBytes(i.op), a, n)
            /\ i.op \in BufferStores \cup {"V_BUFFER_ATOMIC_ADD"} =>
                  Apart(Place(b, i, l), BufferBytes(i.op), a, n)

(* The others, those that are not in Own, leave the n bytes at a alone.    *)
Alone(Own(_, _), a, n) ==
    \A c \in Blocks : /\ Steady(c)
                      /\ \A m \in program.active[c] : ~Own(c, m) => Spares(c, m, a, n)

(* The sum of what the lanes below n of block b have in register r.        *)
Added(b, r, n) ==
    LET sum[k \in 0..NLanes] ==
            IF k = 0 THEN 0
            ELSE sum[k - 1] + (IF k - 1 \in program.active[b] THEN Reg(b, r, k - 1) ELSE 0)
    IN  sum[n]

(* V_BUFFER_ATOMIC_ADD: the lanes of a block that add to one word, while   *)
(* the other blocks work on others, leave the sum of all they add, and     *)
(* with glc each gets back what the lanes before it have left.             *)
AddsApplied ==
    \A b \in Blocks, f \in Lanes :
        LET i == At(b, 3)
            a == Place(b, i, f)
            before == Get(program.mem, a, 4)
        IN  /\ Ran(b, 3) /\ i.op = "V_BUFFER_ATOMIC_ADD"
            /\ f \in program.active[b] /\ \A l \in program.active[b] : Place(b, i, l) = a
            /\ Alone(LAMBDA c, m : c = b, a, 4)
            => /\ Get(mem, a, 4) = Wrap(before + Added(b, i.data, NLanes))
               /\ "glc" \in i.bits => v[b][i.data][f] = Wrap(before + Added(b, i.data, f))

(* The VMUBUF address: V_BUFFER_LOAD_SBYTE gives a lane, sign-extended,    *)
(* the byte it has stored through the same descriptor, alone or as the     *)
(* first of a word, whatever the other lanes and the other blocks have     *)
(* stored next to it.  V_BUFFER_LOAD_DWORD is the subject of DwordLoaded.  *)
BufferRoundTrip ==
    \A b \in Blocks, l \in Lanes :
        LET i == At(b, 3)
            j == At(b, 4)
            a == Place(b, i, l)
        IN  /\ Ran(b, 4) /\ i.op \in BufferStores /\ j.op = "V_BUFFER_LOAD_SBYTE"
            /\ l \in program.active[b] /\ Place(b, j, l) = a
            /\ Alone(LAMBDA c, m : c = b /\ m = l, a, 1)
            => v[b][j.data][l] = Extend(Reg(b, i.data, l), 1)

(* VLS: a word is stored, its low bytes are overwritten by a second store  *)
(* and some of it is loaded.  The load sees the second store laid over the *)
(* first, in little-endian order.                                          *)
LoadsSeeStores ==
    \A b \in Blocks, l \in Lanes :
        LET h == At(b, 1)
            i == At(b, 2)
            j == At(b, 3)
            a == Place(b, h, l)
            low == Byte^StoreBytes(i.op)
        IN  /\ Ran(b, 3) /\ h.op = "V_STORE_U32" /\ i.op \in StoreOps /\ j.op \in LoadOps
            /\ l \in program.active[b] /\ Place(b, i, l) = a /\ Place(b, j, l) = a
            /\ Alone(LAMBDA c, m : c = b /\ m = l, a, 4)
            => v[b][j.data][l] = ((Reg(b, h.data, l) \div low) * low + (Reg(b, i.data, l) % low))
                                    % Byte^LoadBytes(j.op)

(* S_LOAD_DWORD*: the destination gets the words at the address that the   *)
(* base had before, in 32 bits, though the load may overwrite its own      *)
(* base, and the other registers keep their values.                        *)
ScalarLoadExact ==
    \A b \in Blocks, r \in 0..MaxS :
        LET i == At(b, 1)
            a == Wrap(program.s[b][2 * i.base] + 4 * (i.offset + r - i.data))
        IN  Ran(b, 1) /\ i.op \in SLSOps =>
              IF r \in i.data..i.data + SLSWords(i.op) - 1
              THEN Alone(LAMBDA c, m : FALSE, a, 4) => s[b][r] = Get(program.mem, a, 4)
              ELSE s[b][r] = program.s[b][r]

(* DLS: what a lane reads from the shared memory is what it has written    *)
(* there, extended as the reading instruction says; the other lanes have   *)
(* written elsewhere, the other blocks have used the same addresses.       *)
SharedExact ==
    \A b \in Blocks, l \in Lanes :
        LET i == At(b, 1)
            j == At(b, 2)
            a == Reg(b, i.base, l)
            n == WriteLDS(i.op)
            x == Reg(b, i.data, l) % Byte^Smaller(n, ReadLDS(j.op))
            sign == j.op \in {"D_READ_I8", "D_READ_I16"} /\ 2 * x >= Byte^ReadLDS(j.op)
        IN  /\ Ran(b, 2) /\ i.op \in WriteOps /\ j.op \in ReadOps
            /\ l \in program.active[b] /\ Reg(b, j.base, l) = a
            /\ \A m \in program.active[b] \ {l} : Apart(Reg(b, i.base, m), n, a, 4)
            /\ \A c \in a..a+3 : c \notin DOMAIN Start(b).shared
            => v[b][j.data][l] = IF sign THEN 2^W - Byte^ReadLDS(j.op) + x ELSE x

(* Message passing: block c stores a datum and then a flag in the word     *)
(* below; block b loads both with one V_LOAD_U64, whose two accesses may   *)
(* be interrupted.  When it sees the flag it sees the datum.               *)
FlagThenData ==
    \A b, c \in Blocks, l \in Lanes :
        LET i == At(b, 1)
            a == Place(b, i, l)
            Sent(m) == /\ Place(c, At(c, 1), m) = Place(c, At(c, 2), m) + 4
                       /\ \/ Apart(Place(c, At(c, 2), m), 8, a, 8)
                          \/ /\ Place(c, At(c, 2), m) = a
                             /\ Reg(c, At(c, 1).data, m) = program.datum
        IN  /\ Ran(b, 1) /\ i.op = "V_LOAD_U64" /\ l \in program.active[b]
            /\ v[b][i.data][l] # 0
            /\ Len(program.code[c]) = 2 /\ \A k \in 1..2 : At(c, k).op = "V_STORE_U32"
            /\ \A m \in program.active[c] : Sent(m)
            /\ Alone(LAMBDA d, m : d = c, a, 8)
            /\ Get(program.mem, a, 4) = 0
            => v[b][i.data + 1][l] = program.datum

(* V_CVTA_SHARED_TO_FLAT: the pair of registers is the address that SM 0   *)
(* recognises and converts back to the shared address.                     *)
FlatRecovered ==
    \A b \in Blocks, l \in Lanes :
        LET i == At(b, 1)
            flat == v[b][i.data][l] + 2^W * v[b][i.data + 1][l]
        IN  Ran(b, 1) /\ i.op = "V_CVTA_SHARED_TO_FLAT" /\ l \in program.active[b] =>
              /\ whichspace(flat) = "shared" /\ isspace_shared(0, flat)
              /\ generic_to_shared(0, flat) = Reg(b, i.base, l)

(* The windows of src/isa/MemCommon.cpp: a register's value, taken as a    *)
(* generic address, belongs to one memory of one owner at most.            *)
AddressesUnambiguous ==
    \A b \in Blocks, r \in 0..MaxV, l \in Lanes : Unambiguous(v[b][r][l])

(* A lane reads what was last written to the bytes it asks for, through    *)
(* V_BUFFER_LOAD_SBYTE, VLS and DLS, whatever another block does to their  *)
(* neighbours; all registers hold words and all memories bytes.            *)
MemoryExact == TypeOK /\ BufferRoundTrip /\ LoadsSeeStores /\ SharedExact

(* Generic addresses are recovered, and have one owner.                    *)
AddressesSound == FlatRecovered /\ AddressesUnambiguous
-----------------------------------------------------------------------------
(* What the code does not give.                                            *)

(* A block of a program of this kind has run to its end.                   *)
Done(b, kind) == program.kind = kind /\ Ended(b)
Last(b) == program.code[b][Len(program.code[b])]

(* The updates of one word by V_BUFFER_ATOMIC_ADD are all applied, also    *)
(* those of different blocks.                                              *)
NoLostAdd ==
    (~aborted /\ \A b \in Blocks : Done(b, "race")) =>
        \A b \in Blocks :
            Get(mem, program.word[b], 4) =
                Wrap(Get(program.mem, program.word[b], 4)
                       + MapThenSumSet(LAMBDA c : MapThenSumSet(
                            LAMBDA l : program.v[c][Last(c).data][l], program.active[c]), Blocks))

(* V_BUFFER_LOAD_DWORD reads the four bytes that V_BUFFER_STORE_DWORD has  *)
(* written, and records an access of four: the lane gets the word back.    *)
DwordLoaded ==
    \A b \in Blocks, l \in Lanes :
        LET i == At(b, 3)
            j == At(b, 4)
            a == Place(b, i, l)
        IN  /\ Ran(b, 4) /\ i.op = "V_BUFFER_STORE_DWORD" /\ j.op = "V_BUFFER_LOAD_DWORD"
            /\ l \in program.active[b] /\ Place(b, j, l) = a
            /\ Alone(LAMBDA c, m : c = b /\ m = l, a, 4)
            => v[b][j.data][l] = Reg(b, i.data, l)

(* A memory pointer is held by two registers: SLS follows all of it.       *)
PointerFollowed ==
    \A b \in Blocks :
        Done(b, "pointer") =>
            s[b][Last(b).data] = Get(program.mem, program.s[b][2 * Last(b).base]
                + 2^W * program.s[b][2 * Last(b).base + 1] + 4 * Last(b).offset, 4)

(* The block's three indices are found in its shared memory.               *)
IndicesKept ==
    \A b \in Blocks :
        program.kind = "index" => /\ Get(shared[b], 0, 4) = program.cta[b].x
                                  /\ Get(shared[b], 4, 4) = program.cta[b].y

(* A load from the flat address of a shared location reads that location.  *)
FlatShared ==
    \A b \in Blocks, l \in Lanes :
        Done(b, "flat load") /\ l \in program.active[b] =>
            v[b][Last(b).data][l] = Get(shared[b], program.v[b][0][l], 4)
=============================================================================
