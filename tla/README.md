# TLA+ models of isasim

isasim executes GPU kernels instruction by instruction. A kernel launch splits a
grid of CTAs (blocks) into tasks for a pool of host threads; each task runs the
warps of its block in turn, one instruction per visit, with a SIMT stack for
divergent lanes. This directory models that machinery, checks it with TLC on
small instances and proves the central properties with TLAPS for all sizes.

## Inventory

| part | source | state | operations | what makes it correct |
|---|---|---|---|---|
| `IsaSim::launch`, `BlockTask` | `model/Executor.cpp` | the kernel, the pool | one iteration per CTA, registration of the end | every CTA is executed once; launch returns after the last |
| `ThreadPool` | `common/ThreadPool.h` | queue, stop flag, workers | `addTask`, `workerThread`, destructor | no task lost, run twice or abandoned; the destructor returns |
| `CUResource` | `model/inc/CUResource.h` | running blocks, barrier slots | alloc and free | the limit holds and nobody waits for ever |
| `KernelInfo` | `model/KernelInfo.cpp` | CTA and thread cursors | increments, tests | the cursors walk the grid and the block once |
| `BlockState` | `model/BlockState.cpp` | barrier slots, warp count, `m_warp_at_bar` | init, removeWarp, arriveBar, waitBar, destroy | warps meet at barriers |
| `ThreadBlock` | `model/ThreadBlock.cpp` | threads, warps, live counters, decoded instructions | `execute`, `executeWarp`, `executeInstruction`, `initializeCTA` | executes all warps to completion |
| checkpoints | `model/ThreadBlock.cpp`, `model/Warp.cpp` | the SIMT stacks in files | early end of `execute`, `print_checkpoint`, `resume` | a resumed run goes on where the saved one stopped |
| `Warp` | `model/Warp.cpp` | SIMT stack | `launch`, `update`, `resume` | the stack partitions the live lanes |
| `WarpState` | `model/WarpState.cpp` | registers, active mask, lane status | register and PC access | what is written is read |
| `ThreadItem` | `model/ThreadItem.cpp` | PC, NPC, done | `Execute` | a done thread does not move |
| `Instruction`, `Operand` | `isa/inc/Instruction.h` | operand values, shared by all warps of a block | `OperandCollect`, `Execute`, `WriteBack` | a lane computes from its own sources |
| instruction formats | `isa/Instruction*.cpp` | registers | one handler per opcode | the result its comment states |
| memory instructions | `isa/InstructionSLS.cpp`, `VLS`, `VMUBUF`, `DLS` | global memory of all blocks, shared memory of a block | loads, stores, atomics | a load sees what was stored, atomics count, messages arrive in order |
| address spaces | `isa/MemCommon.cpp` | none | conversions between generic, shared and local addresses | an address has one owner, and converts back |
| decoder, `hwop`, utilities | see PROJECT.json | | | out of reach |

Interaction: `launch` calls `KernelInfo`, `CUResource` and the pool; the workers
call `ThreadBlock::execute`, which reads and writes the same `KernelInfo` without
a lock, and end with `BlockState::destroy`, which frees the place that `launch`
may wait for. Inside a block everything is sequential, and the shared state that
bites is the instruction object (its operands outlive an execution), the active
mask and the fields nobody initialises.

The hard behaviours are the interleavings of the launcher with the workers, the
unlocked loop condition of the pool, the SIMT stack under any order of
divergence and exit, stale masks and operand values, accesses of several blocks
to one memory, processes killed in the middle of a checkpoint, and the edges of
the integer, register and address ranges. PROJECT.json lists them as hazards, at their lines.

## Modules

| module | models | used by |
|---|---|---|
| `SimtStack` | `Warp::launch`, `Warp::update` as operators on a sequence of entries | `ThreadBlock` |
| `ThreadBlock` | the loop of `execute` over the warps of one CTA, one action per visited warp and one per end of a pass | `MCThreadBlock` |
| `ThreadPool` | the pool; a step is a critical section, a notification or an unlocked read | `Launch` |
| `TaskPool` | abstract: tasks start once, in order, and finish before the pool closes | refined by `ThreadPool` |
| `Dim3`, `KernelInfo` | the cursors, used by one thread | `Launch` uses `Dim3` |
| `Launch` | `launch`, `BlockTask`, `CUResource`, the creation of threads from the shared cursors, over `ThreadPool` by INSTANCE | `MCLaunch` |
| `OperandPipe` | operand collection, execution and write-back of vector instructions under divergence, two warps sharing instruction objects | `MCOperandPipe` |
| `ScalarAlu` | every handler of SOP1, SOP2, SOPC and SOPK on words of `W` bits | `MCScalarAlu` |
| `Words` | the width of a word, wrapping, signed values and the bitwise operators | `ScalarAlu`, `VectorAlu`, `WarpMemory` |
| `VectorAlu` | the integer handlers of VOP1 (without `V_MOVRELD_B32` and `V_MOVRELS_B32`), VOP2, VOP3A, VOP3B and VOPC, with carries through VCC and the modifiers of VOP3A | `MCVectorAlu` |
| `AddressSpace` | the windows and conversions of `MemCommon.cpp` | `WarpMemory` |
| `WarpMemory` | the handlers of SLS, VLS, VMUBUF and DLS in blocks that run on different workers; a step is one access of the global memory | `MCWarpMemory` |
| `Checkpoint` | checkpoint and resume around `ThreadBlock`, over processes that crash or are killed | `MCCheckpoint` |
| `RegFile`, `Registers` | the scalar registers with the constant window, and a plain register file | `MCRegFile` |
| `*_proofs` | theorems about the module of that name; `Checkpoint_proofs` is about `SimtStack`, `ThreadBlock` and `Checkpoint`, `OperandPipe_proofs` about `RegFile` too, `WarpMemory_proofs` about `AddressSpace` too; `ScalarAlu_proofs` begins with lemmas about `Words`, which `VectorAlu_proofs` and `WarpMemory_proofs` use by INSTANCE; `Launch_proofs` uses those of `ThreadPool` and `KernelInfo` | |

How state corresponds to code is in the comment of every variable. The points
that need explaining:

* **ThreadBlock.** A program is a function from addresses to `[op, simm]`; an
  instruction is one address wide, and `simm` is the displacement from the branch
  itself, as in `incWarpPC`/`incThreadPC`, which set `m_NPC` from the PC of the
  branch. `NextPC` is the net effect of `ThreadItem::Execute` on one lane: the
  leading lane of a warp instruction, or every lane of a vector one, sets `m_NPC`
  of all active lanes, the branch changes it, `update_pc` copies it. Condition
  registers are data: `cc` is any set of lanes. Uninitialised fields
  (`m_is_blocking`, `m_status`) and the read past the end of `m_warp_at_bar` are
  choices from the constants `BlockingGarbage`, `StatusGarbage`, `AtBarGarbage`.
  No instruction sets `reconvergence_pc`, so `Update` is called with `NullPC`.
  `m_block_warp_count` wraps modulo `UIntMod`.
* **ThreadPool.** `waiting` is the set of workers blocked in the condition
  variable; a worker in state `wait` and not in it has been woken, possibly
  spuriously. The loop condition is two reads without the lock (`TestStop`,
  `TestPending`).
* **Launch.** `m_next_cta` and `m_next_tid` are read and stored as whole triples;
  `increment_thread_id` is a load and a store. `allocRunningBlock` has no return
  statement: `AllocReturns` is what the caller may see. `CUResource`'s numbers
  (100 blocks, 800 slots) are constants.
* **OperandPipe.** The program is any sequence of the given instructions, branches
  and exits. `CollectMask` is the mask `readReg` sees: that of the previous
  instruction.
* **ScalarAlu.** `W = 4` instead of 32. Signed overflow wraps, as the
  default (debug) build of `meson.build` does.

* **VectorAlu.** `W = 4` as well. The operands are those the handlers read; the
  lanes of an instruction run one after the other, and a step is the whole
  instruction, because nothing else touches the registers of its warp. `V_ADD_I64`
  asks an immediate or scalar operand for a second word that it does not have and
  reads past it: `Beyond` is what it finds there, any word in each lane. Handlers
  that call `ISAUnimplemented`, and asserts on modifiers, end the process.
* **WarpMemory.** A register has `W = 8` bits and four bytes of two bits. Each
  block has one warp, since warps of a block are interleaved by one thread and
  only instruction by instruction. A handler with several accesses keeps them in
  `work` and can be interrupted between any two. `memory_space` is outside the
  repository: its accesses are taken as atomic and its bytes as zero until
  written. `aborted` stands for a failed assertion or an uncaught exception.
* **Checkpoint.** It extends `ThreadBlock` and reuses `VisitWarp` and `EndPass`.
  A process chooses `checkpoint_option` and `checkpoint_CTA_t`; the latter is also
  the flag for resuming. `files` survives a process, everything else starts again.
  A file is written in steps, as in the code: `OpenFile` is `fopen` with "w", which
  empties what was there, `PrintEntry` a turn of the loop of `print_checkpoint`,
  `CloseFile` the `fclose`. `Kill` may come between any two, so a good checkpoint may be
  replaced by an empty file, or by the lower entries of a stack alone. A line is the
  unit: stdio may hold lines back until `fclose`, and a kill then leaves what a kill
  some turns earlier leaves. A line cut in the middle is not modelled. The lines that would save registers and shared memory are disabled in the code, so
  the stacks are all there is. `from` remembers what a run has read.

Definitions marked as mutants in their comments are alternative forms of the
definition that follows them, each with one plausible mistake; PROJECT.json pairs
them with the property that notices. They take no part in the specifications.

## Runs that pass

| run | shows | bounds |
|---|---|---|
| `thread_block` | stack partition and tracking, assertions, counters, completion only when done, done is final, a thread ends at T_EXIT or with the first instruction, a warp that is not held back runs to its end also beside one that is; for all values of the uninitialised fields | 5 threads in warps of 3: a full and a partial warp; 3 lanes allow nested divergence of one warp into three paths; programs with early exit, nesting, a loop, scalar branches |
| `thread_pool` | each task once, none abandoned, no lost wake-up, refinement of `TaskPool`, termination | 3 workers, 4 tasks: more tasks than workers, so that workers come back, and workers that find nothing |
| `kernel_info` | cursors walk grid and block once in linear order | all dimensions up to 3x2x2, zero included, 3 increments past the end |
| `launch` | every CTA once, the count of running blocks exact and within its limit; the launch is a behaviour of `ThreadPool`, and returns | 2x2 grid, 2 workers, room for 2: more blocks than workers and than places, so that the launcher waits |
| `operand_pipe` | lanes outside an instruction keep their registers; lanes that stay active compute right | 2 warps, 2 lanes, 2 registers of one bit |
| `scalar_alu` | arithmetic of the handlers against bit-level definitions, for words and for register pairs | every content of three 4-bit registers, so that pairs overlap |
| `vector_alu` | carry chains, borrows, products, pair shifts, bit fields, medians, extensions and modifiers against their arithmetic definitions; only active lanes of the destination change | 4-bit words, three lanes of which one is inactive; every pair of words as sources of the vector formats, every two or three words as those of the handlers that read scalar registers |
| `warp_memory` | loads see stores, atomics return what was there and count within a block, a message is seen after its flag, scalar loads survive the loss of their base, flat addresses convert back, every address has one space | 2 blocks of 2 lanes with one program for each question, 8-bit words: addresses beyond one word, negative bytes, neighbouring elements, the four combinations of idxen and offen |
| `checkpoint` | going on from whole stacks keeps stacks, lanes and counters in step; a file that is closed is one instruction after the one that was read, also when warps come from different checkpoints and files were emptied or cut short; asserts fail only for stacks that were not whole; every process ends | 2 warps of 2 lanes, 5 processes: a checkpoint before, at and after a divergent branch, a torn one, and a run to the end |
| `reg_file` | refinement of `Registers`: a write changes one number at most, never a constant | 5 cells, window of 2, 2-bit values; every number is written, those of the window and of its edges too |

Except in `thread_block`, typing is a conjunct of the first property of the run
that depends on it (`WalksGrid`, `RunningCounts`, `StayingLanesRight`, ...), and of
the proved invariant of `ThreadPool`. The `...Exact` properties of the handlers are
conjunctions with one named part per family of instructions. Those of `VectorAlu` and
`WarpMemory` speak of any program: when the instructions at these places have run,
and nothing else has written what they depend on (`Alone`, `Apart`, sources that the
instruction before does not write), the result is the stated one. The programs of the
MC modules meet each of these conditions, and their mutants fail there.

`CHECK_DEADLOCK FALSE` is used where the modelled object may really stop: the
cursors at their end and the warps after their last exit.

## Runs that find the code at odds with its comments

Each checks one property that states what a comment or an assertion says, and TLC
reports a violation. Two are part of the regular set, with a finding in
PROJECT.json that quotes the line: `launch_thread_ids` (a thread takes its CTA id from
a cursor that `launch` has moved on meanwhile) and `block_scalar_branch`
(`S_CBRANCH_SCCZ` and `S_CBRANCH_SCCNZ` are executed by the leading lane and move that
lane only, so that a scalar branch splits its warp). The next ones are run by hand
with the MC module of their prefix (`block_` `MCThreadBlock`, `vector_` `MCVectorAlu`,
`memory_` `MCWarpMemory`, `checkpoint_` `MCCheckpoint`).

| configuration | the code |
|---|---|
| `block_hangs_blocking`, `block_hangs_partial_warp`, `block_exit_garbage` | reads `m_is_blocking`, `m_warp_at_bar` past its end, and `m_status` uninitialised: a block hangs, or a thread ends early |
| `block_barrier` | `S_BARRIER` does nothing |
| `vector_vop3a_aborts` | handlers that write their register themselves fail `assert(is_vector_ready_[j])` in the write-back |
| `vector_alias` | a compare that writes one of its own scalar sources changes it for the lanes that follow |
| `memory_lost_add` | `V_BUFFER_ATOMIC_ADD` reads and writes in two accesses: another block's addition is lost |
| `memory_dword` | `V_BUFFER_LOAD_DWORD` reads four bytes (`InstructionVMUBUF.cpp:108`) and gives the lane the first one, sign-extended (line 145): a lane does not get back the word it has stored |
| `memory_pointer` | the scalar loads copy the address of their pointer to 32 bits (`InstructionSLS.cpp:43`) |
| `memory_flat` | `setupAddrSpace` sends every flat address to the global memory |
| `checkpoint_file` | names the files after the cursor, which may not have moved: `assert(fp2 != NULL)` fails |
| `checkpoint_ended` | counts threads live that had ended before the checkpoint: `assert(m_stack.size() > 0)` fails |

The modules state more of the kind. To see one fail, copy the configuration
named here, apply the change and put the property in place of its properties.

| from | change | property | the code |
|---|---|---|---|
| `thread_block` | `Programs <- OnlySwap`, the three garbage sets `{FALSE}` | `SwapJumps` | `update_pc` overwrites the target of `S_SWAPPC_B64` |
| `launch` | `Grid <- Grid2` | `OneBlockAtATime` | runs blocks at the same time |
| `launch` | `Grid <- Grid2` | `RegisteredWhenDone` | registers the end of the kernel while its blocks run |
| `launch` | `Workers = {w1}`, `Grid <- Grid1`, `Block <- Block2` | `ThreadIdsByRank` | keeps one thread cursor, which all workers increment and the launcher resets |
| `launch` | `Grid <- Grid2`, `AllocReturns = {FALSE, TRUE}` | `NoAbort` | tests the result of a function that returns none |
| `operand_pipe` | | `ActiveLanesRight` | collects operands under the mask of the previous instruction |
| `scalar_alu` | | `AddOverflows`, `SubOverflows`, `MulkOverflows` | misses overflows at the ends of the range |
| `scalar_alu` | `Ops = {"S_BFE_I32"}` | `FieldMasked` | `S_BFE_I32` sign-extends the field that its comment masks (`InstructionSOP2.cpp:610`) |
| `scalar_alu` | | `NotSetsScc`, `LiteralAdded` | leaves SCC, reads register 0xFF for a literal |
| `scalar_alu` | `Collect = FALSE` | `Moved` | collects no operand without debug output |
| `scalar_alu` | `W = 2`, `MaxReg = 3`, `ExecReg = 2`, `Literals = {0}` | `ExecSaved` | the write-back overwrites the saved EXEC |
| `vector_alu` | `Programs <- SubProgram` | `SignedBorrowExact` | `V_SUB_I32` takes the borrow from a signed comparison ("vcc = carry-out") |
| `vector_alu` | `Programs <- Add64Program` | `WideCarryExact` | `V_ADD_I64` looks for the carry in a sum of sign-extended words (marked FIXME) |
| `vector_alu` | `Programs <- MulloProgram` | `LowProductExact` | `V_MULLO_U32` does not give "S0.u * S1.u" |
| `vector_alu` | `Programs <- FieldProgram` | `SignedFieldMasked` | `V_BFE_I32` sign-extends the field that its comment masks (`InstructionVOP3A.cpp:394`) |
| `vector_alu` | `Programs <- MulhiProgram` | `HighProductExact` | `V_MULHI_I32` gives the high word of the signed product, its comment says "D.u = (S0.u * S1.u)>>32" (`InstructionVOP2.cpp:938`) |
| `vector_alu` | `Programs <- EqualProgram` | `EqualCompared` | `V_CMP_EQ_U32` ("vcc = (S0.u == S1.u)") is not implemented |
| `warp_memory` | `IndexBits = {"x", "y"}`, `Programs <- Indices` | `IndicesKept` | the y and z index of a block are written over x |
| `reg_file` | `Cells = 4`, `Written <- OffTheWindow` | `AboveWindowKept` | `setSreg` and `getSreg` treat the first number above the constant window differently (`WarpState.cpp:140` and `105`): what is written to it is not read back |
| `reg_file` | `Cells = 4`, `Written <- Constant` | `ConstWriteSkipped` | a write to a constant register ("skip const write") lands in a general one |

The passing runs state what remains true: `StayingLanesRight` is what is left of
`ActiveLanesRight`, `OverflowReal` (in `FlagsExact`) of the overflow comments, the bits
inside a field (in `ScalarExact` and `VectorExact`, which say nothing of the bits above
it) of the two bit field extracts, `ImplementsRegisters` of the register file,
`EndsExplained` of `EndsAtExit` and `UnheldCompletes` of `Completes` when fields are
uninitialised, `EveryCtaOnce` of the ids of a launch, `AddsApplied` of the atomic addition, `ResumeSound` of the checkpoint.

## Fairness

* `ThreadBlock`: weak fairness of the loop. It runs on one host thread and nothing
  in it blocks.
* `ThreadPool`: weak fairness of the owner and of each worker. The host schedules
  every runnable thread and lets every thread into a free mutex at some time.
  Spurious wake-ups are not fair; nothing may depend on them. Tasks return.
* `Launch`: the same for the launcher and the workers; the execution of a block
  ends, which `UnheldCompletes` shows for `ThreadBlock` under its assumptions.
* `Checkpoint`: weak fairness of the worker. Nobody has to kill a process or to
  start one.

## Proofs

All proofs are for every value of the constants under the named assumptions of
the modules. Each says what the code guarantees:

| assumption | says |
|---|---|
| `SizeAssumption`, `GarbageAssumption` | warps and blocks have threads; an uninitialised field holds some value |
| `ProgramAssumption` of `ThreadBlock` | behind every instruction but `T_EXIT` is another one, and branches stay inside the program |
| `PoolAssumption` | there is a worker if there is a task |
| `DimsAssumption`, `PipeAssumption` | dimensions and register values are naturals |
| `LaunchAssumption` | the sizes of the grid, the block and `CUResource`; the workers are finitely many, and some if there is a block (`launch` makes `min(2 * cpu_count, block_count)`) |
| `RegAssumption`, `LayoutAssumption` | the constant window begins inside the register file; the windows of the local memories, of the shared memories and the global heap follow one another and have room |
| `WidthAssumption`, `PowerAssumption`, `AluAssumption` | a word has an even number of bits, at least two; `2^(n+1) = 2 * 2^n`, an arithmetical fact that the prover does not have; the register numbers are in range |
| `VectorAssumption`, `MemoryAssumption` | a word has a multiple of four bits and a bit for each lane; VCC, TCC and EXEC are scalar registers; there is an SM, and the global heap starts within the range of addresses |
| `WidePowerAssumption`, `BytePowerAssumption` | the same arithmetical fact as `PowerAssumption`, for the powers of two up to a pair of words and for the powers of a byte |
| `ProgramAssumption` of `VectorAlu`, of `WarpMemory` | instructions name registers that exist; registers hold words and memories bytes at the start; a block of `WarpMemory` has an active lane |
| `CheckpointAssumption`, `NoFileAssumption` | a call through the unset `m_cta_info` returns or crashes; the absence of a file is not the content of one |

**Checkpoint_proofs, the block,** begins with lemmas about `Update`: on a stack without
reconvergence points it replaces the top entry by one entry per path
(`UpdatePlain`), and if the stack fits the live lanes before, it fits the
remaining live lanes after (`UpdateFits`, by `ReplaceTop`). *Fits* means: every
entry has a non-empty mask of live lanes whose program counters are the entry's,
the masks are disjoint and cover the live lanes.

The inductive invariant `IInv` is type correctness, the
fit of every stack, `LiveCount`, and `PassInv`: as long as a pass has seen no live
warp, the warps it has passed have none. `StackPartition` alone is not inductive,
because whether the lanes move together depends on their program counters being
the entry's, and `FinishedDone` needs the part of the pass already done. From it:
`Typing`, `Partition`, `Tracking`, `Counting`, `Completion`, `Assertions` (at most two next program counters,
`AtMostTwo`: an instruction has one target), `Finality`.

`Endings` (`EndsExplained`) holds for any content of the uninitialised `m_status`. Its
invariant says of each thread that one that has not ended and has status EXIT has not
executed an instruction yet: `checkExecutionStatusAndUpdate` looks at the status after
the first one. That a thread ends at `T_EXIT` only (`EndsAtExit`) needs a clean
`m_status`, which the code does not give (`block_exit_garbage`).

**ThreadPool_proofs.** `IInv` is type correctness, the queue as the consecutive
tasks after those taken, the taken tasks shared out between running workers and
`finished`, and what the control points imply (a worker tests the queue or has
left only after the stop). From it `TasksConserved`, `WakeupKept`, `NothingAbandoned`
and `Refinement`: the mapping makes `started` the tasks no longer queued, so that
`Take` is the abstract `Start` and `Join` the abstract `Close`.

**OperandPipe_proofs, registers.** `Refinement` has no assumption on the numbers that are
written. `Number` is the one under which `getSreg` reads a cell; it is never in the
window and no two cells have the same. `SetStep` shows that `setSreg(r, v)` changes
`Number(Slot(r))` and nothing else, which is a step of `Registers`. Below the window and
from two above it that is `r` itself; inside the window and at the number just above
it, it is another one: `AboveWindowKept` and `ConstWriteSkipped` fail there.

**WarpMemory_proofs, addresses.** For every number of cores and threads and every size of
their memories: `SharedAddresses` and `LocalAddresses` (an address survives the
conversion to the generic space and back and is recognised there), and `OneOwner`
(a generic address belongs to at most one core or thread, and `whichspace` names
its space). The windows are consecutive, so that everything follows from
`m * size + size <= n * size` for `m < n` and from the layout assumption.

**KernelInfo_proofs.** `Walks(i, b, n)`: after `n` increments within the bound `b`
the cursor `i` has `n` as its linear index, or its z has reached the bound and `n`
is at least the number of places. `WalkStep` shows that `increment_x_then_y_then_z`
keeps it; from it `GridWalked` and `BlockWalked`. A dimension that is zero in x or y
is a case of its own: the cursor leaves the bound although it has no place, and
`Count` is zero.

**Launch_proofs.** Every step of the launch is a step of the pool or leaves the pool
alone (`PoolRefined`), so the invariant of `ThreadPool_proofs` holds of it and
`NothingAbandoned`, `TasksConserved` and `WakeupKept` carry over. `IInv` adds
`StepInv` (which steps of launcher and pool go together), `CursorInv` (`m_next_cta`
walks the grid, by the lemmas of `KernelInfo_proofs`, and task `t` has the CTA with
linear index `t - 1`) and `CountInv`: the count of running blocks is the place the
launcher holds, plus the queued tasks, plus the workers that have not freed theirs.
From it `BlocksCounted` (`RunningCounts`) and `CtasExecuted` (`EveryCtaOnce`), for every grid,
every number of workers and every limit.

**OperandPipe_proofs, operands.** Typing is inductive; the rest is about one step.
`StayingLanes`: a lane that was active in the previous instruction as well
computes from its own sources, whatever the shared instruction object holds.
`Bystanders`: no instruction changes a register of another warp or of a lane
outside its mask.

**Checkpoint_proofs, checkpoints.** `CpIInv` says: every file, read by `resume`, is a stack that
fits *some* lanes of its warp (`FilesInv`, `Shaped`); a run whose stacks were all
whole satisfies the invariant of `ThreadBlock` and `ExitInv`, a lane with status EXIT
is done and ends at `T_EXIT` (`WholeInv`: a process that resumes is taken to start with
a clean `m_status`); an
assertion fails only in a run that was not (`AssertsExplained`); and while a
checkpoint is on its way, the warps not visited yet are as read and those visited
are one instruction on (`SaveInv`). `Shaped` cannot name the lanes of the run: the
lanes waiting further down the stack are moved by `createWarp` to where the top
entry is, so that the stack fits places that no thread has. While a file is open its lines are the lower entries of its warp's stack (`Printed`, in
`SaveInv`); a cut-short stack still fits some lanes
(`PrefixShaped`), so `FilesInv` survives a kill there. The lemmas `LineRead`,
`LineWritten`, `StackRead`, `FileRead` are the round trip through the file;
`UpdateLocal` shows that `update` looks at the active lanes only, which carries
`UpdateFits` from those places to the run (`ShapedStep`). From it `Resumption`
(`ResumeSound`) and `OneInstruction` (`OneInstructionOn`), for any number of
processes killed at any step. Typing holds for whole stacks only: in a run that
resumes a divergent one, a backward branch can take a waiting lane's program
counter below zero, so `TypeOK` is a part of what such a run is promised.

**ScalarAlu_proofs** is for words of any even width. It starts with induction over
a set of naturals (`SetInduction`, from the least element of its complement), which
replaces the induction theorems with an operator parameter. From it follow the laws
of powers, that the recursive function in `FromBits` exists and gives a word with
the given bits (`SumsExist`, `FromBitsFacts`), and so what `&`, `|`, `^` do to each bit.
The division lemmas (`DivUnique`, `DivDiv`, `DivRange`) give the bits of wrapped, signed
and shifted numbers (`WrapFacts`, `SignedFacts`, `LeftShift`, `LogicalShift`,
`ArithmeticShift`), and those give `Field` for `S_BFE_I32`, a shift to the left and one
back. The invariant `IInv` is the typing and all properties at once: only the typing
is carried from one instruction to the next, and every other part is established by
the instruction it is about, one lemma per format. From it `Flags` (`FlagsExact`),
`ShiftsAndFields` (`ScalarExact`) and `PairWords` (`PairsExact`).

**VectorAlu_proofs** instantiates `ScalarAlu_proofs` twice, for words and for pairs of
words, and adds what lies between the two (`WideFacts`, `WideParts`, `SextValue`,
`ProductWords`). The lanes of an instruction are a recursive function, `InTurn`;
`InTurnSteps` shows that it exists and goes from lane to lane, `LaneInduction` is the
induction over it, and `CompareLanes`, `WordLanes`, `PairLanes`, `AddcLanes` say what a
whole instruction leaves in each lane and in each bit of VCC. `IInv` is the typing,
`OthersKept`, and what the first one or two instructions have left of the registers at
the start (`Started`, `CollectedEffect`, `DirectEffect`, `SecondEffect`): a property about
the second instruction of a chain needs what the first has left in the registers and
in VCC, and that the second has read it, not the start. From it `InactiveKept`
(`OthersKept`), `Carries` (`CarriesExact`: `ChainSum` adds the two halves of a chain) and
`VectorResults` (`VectorExact`), with one lemma per family: `MaxHolds`, `FieldsHold`,
`PairsHold`, `MedianHolds`, `ProductHolds`, `ModifiersHold`, `ExtendHolds`. Where an
instruction may overwrite its own sources for the lanes that follow (`vector_alias`),
the property is about programs that do not.

**WarpMemory_proofs, memory** is about any number of blocks and lanes, interrupted between any
two accesses. Lemmas about bytes come first: a word written is read back, whole
(`GetPut`), not at all (`GetPutApart`) or byte by byte (`GetDigits`, `OverlayDigits`).
`AnyStep` divides the steps of a block into those that stay at a lane and
those that finish one, and `StepEffects` says what either may change. `IInv` is the
control (`ControlInv`), the bytes (`MemoryInv`), the frame (`FrameInv`: a byte that no
instruction of the program places a write on is as at the start) and for each block:

* `WorkInv`: an access that is under way is at the place given by the registers the
  block started with. An address is formed before the interruption and used
  after it, so this cannot be read off the registers at the time of use;
* `ScalarInv`, `SharedInv`, `LoadsInv`, `BufferInv`, `FlatInv`, `DescriptorInv`: what each
  instruction of the pattern in question has left, for the lanes that have run it;
* `AddsInv`: the word is the sum of what the lanes below the present one have
  added, and the value an interrupted addition holds is still that word. `AddedFacts`
  gives the recursion of that sum by `SetInduction`;
* `FlagInv`, for each pair of blocks: the flag is zero or the datum is there, and a
  reader that holds a non-zero flag between its two accesses holds it
  because the datum was already there.

From it `ScalarLoads`, `Messages` (`FlagThenData`), `Additions` (`AddsApplied`),
`MemoryResults` (`MemoryExact`) and `Addressing` (`AddressesSound`, with `OneOwner`).
`FrameInv` quantifies over all addresses, which TLC cannot enumerate; the run checks
what follows from it.

Only model-checked:

* what needs fairness (`UnheldCompletes`, `Terminates`, `LaunchReturns`, `RunsEnd`): the prover has no rules for fairness and for ENABLED;
* the properties that fail (above), of course, and the configurations for them.

Every invariant and every action property of a passing run is a theorem.

## Not modelled, and the plan

Not modelled for good: the decoder tables (generated from `opcodes.def` of another
repository), floating point, the circuits of `hwop` (semantics of the cash
library), logging, dumps and formatting, and the files that `meson.build` does not
compile.

Of the modelled parts: `arriveBar` and `waitBar` of `BlockState` (no instruction
handler reaches them in this commit, and the body of `S_BARRIER` is disabled),
`freeBarSlot`'s counterpart `allocBarSlot` (no caller), the parent and child
kernels of `KernelInfo` (no caller), the constant registers that `launch` fills,
`V_MOVRELD_B32` and `V_MOVRELS_B32` of VOP1 (both call `ISAUnimplemented` first), and
floating-point handlers of the vector formats, whose results are the host's.
In `Checkpoint` the grid has one block, and partial warps, which dereference a
null thread both when saving and when resuming, only crash.

Open, in this order:

1. `SimtStack` with reconvergence points, calls and returns driven by an
   environment that follows the compiler's conventions.
2. `BarrierSlots`: `arriveBar`, `waitBar`, `removeWarp` with the wrapping warp
   count, once an instruction uses them.
3. The lemmas about the stack with reconvergence points.
