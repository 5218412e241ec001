----------------------------- MODULE Checkpoint -----------------------------
(***************************************************************************)
(* Checkpoints of a CTA and runs that resume from them, across processes   *)
(* that may be killed: the checkpoint part of ThreadBlock::execute and     *)
(* createWarp (src/model/ThreadBlock.cpp) with Warp::print_checkpoint and  *)
(* Warp::resume (src/model/Warp.cpp), around the execution that module     *)
(* ThreadBlock specifies.  The grid has one block, checkpoint_CTA is 0 and *)
(* checkpoint_kernel is the kernel.  What is saved is the SIMT stacks:     *)
(* the lines that save and read registers and shared memory are disabled.  *)
(*                                                                         *)
(* The file of warp w is named after the kernel's cursor minus one, and    *)
(* resume opens the file named 0.  The launcher moves the cursor from 0 to *)
(* 1 at any time after it has queued the block, so that a checkpoint taken *)
(* before it does goes to files that nobody reads: they are left out.      *)
(* The fields that are never initialised (see ThreadBlock) read as zero in *)
(* a process that resumes.                                                 *)
(***************************************************************************)
EXTENDS ThreadBlock

CONSTANTS
    CtaInfoGarbage, \* what a call through the never set m_cta_info may do
    NoFile,         \* a file that does not exist
    MaxRuns         \* bound: the number of processes

ASSUME CheckpointAssumption ==
    /\ CtaInfoGarbage \subseteq {"returns", "crashes"}
    /\ MaxRuns \in Nat

(* checkpoint_option, and checkpoint_CTA_t, which also becomes the flag    *)
(* cp_cta_resume.                                                          *)
Modes == [option : {0, 1}, ctaT : {1, 2}]
Resumes(m) == m.ctaT = 1
Saves(m) == m.option = 1

VARIABLES
    mode,   \* the settings of the running process
    phase,  \* "off", "running", "saving", "writing", "nofile" or "assert"
    cursor, \* get_next_cta_id_single()
    name,   \* ctaid - 1, as execute() has read it
    saved,  \* the number of warps whose file is written and closed
    files,  \* files[w]: the lines of warp_<w>_0_simt.txt
    from,   \* from[w]: the stack that this run has read, or NoFile
    runs    \* the number of processes started

cpVars == <<mode, phase, cursor, name, saved, files, from, runs>>
allVars == <<vars, cpVars>>

(* Warp::print_checkpoint: a line for each entry from the bottom, a digit  *)
(* for each lane and the entry's fields as numbers, -1 for (addr_t)-1.     *)
Line(e) == [bits |-> [l \in Lanes |-> IF l \in e.mask THEN 1 ELSE 0],
            PC |-> e.PC, recvg |-> e.recvg, type |-> IF e.type = CALL THEN 1 ELSE 0]

Lines == [bits : [Lanes -> 0..1], PC : Nat \cup {NullPC}, recvg : Nat \cup {NullPC},
          type : 0..1]

(* A missing file is neither a file nor a stack.                           *)
ASSUME NoFileAssumption == NoFile \notin Seq(Lines) /\ NoFile \notin Seq(EntrySet(Lanes))

(* Warp::resume pushes an entry for each line.                             *)
resume(f) ==
    [i \in DOMAIN f |->
        Entry(f[i].PC, { l \in Lanes : f[i].bits[l] = 1 }, f[i].recvg,
              IF f[i].type = 0 THEN NORMAL ELSE CALL)]

(* createWarp can resume when the file opens, holds an entry, and every    *)
(* lane has a thread to move: m_thread[i] is not tested for null.          *)
CanResume(w) == files[w] # NoFile /\ Len(files[w]) > 0 /\ LanesOf(w) = Lanes

(* The program counter createWarp gives to every lane of a resumed warp.   *)
(* Mutants: the one after it; the one that launch gave.                    *)
ResumePC_next(s) == Top(s).PC + 1
ResumePC_launch(s) == 0

ResumePC(s) == Top(s).PC

(* The number in the name of the files that execute() writes.              *)
FileNumber == cursor - 1

CpInit ==
    /\ Init
    /\ mode \in Modes
    /\ phase = "off"
    /\ cursor = 0
    /\ name = 0
    /\ saved = 0
    /\ files = [w \in Warps |-> NoFile]
    /\ from = [w \in Warps |-> NoFile]
    /\ runs = 0

(* A process starts and its worker runs initializeCTA: launch for every    *)
(* warp, then resume when cp_cta_resume is 1.                              *)
Start(m) ==
    LET back == [w \in Warps |-> IF Resumes(m) THEN resume(files[w]) ELSE NoFile]
        lost == Resumes(m) /\ \E w \in Warps : ~CanResume(w)
    IN  /\ phase = "off"
        /\ runs < MaxRuns
        /\ runs' = runs + 1
        /\ mode' = m
        /\ cursor' = 0
        /\ name' = 0
        /\ saved' = 0
        /\ phase' = IF lost THEN "nofile" ELSE "running"
        /\ from' = IF lost THEN [w \in Warps |-> NoFile] ELSE back
        /\ stk' = [w \in Warps |-> IF Resumes(m) /\ ~lost THEN back[w]
                                                         ELSE Launch(0, LanesOf(w))]
        /\ pc' = [w \in Warps |-> [l \in Lanes |->
                     IF Resumes(m) /\ ~lost THEN ResumePC(back[w]) ELSE 0]]
        /\ done' = [w \in Warps |-> Lanes \ LanesOf(w)]
        /\ live' = [w \in Warps |-> Cardinality(LanesOf(w))]
        /\ blockWarps' = BlockWarpCount
        /\ cur' = 0
        /\ allDone' = TRUE
        /\ finished' = FALSE
        /\ status' = [w \in Warps |-> {}]
        /\ UNCHANGED <<prog, blocking, atBar, files>>

(* The phases of a process that has started and not come to an end.        *)
Alive == {"running", "saving", "writing"}

(* launch() goes on after addTask: increment_cta_id.                       *)
MoveCursor ==
    /\ phase \in Alive
    /\ cursor = 0
    /\ cursor' = 1
    /\ UNCHANGED <<vars, mode, phase, name, saved, files, from, runs>>

(* What executeWarp asserts of the warp it is about to run, and that the   *)
(* program counter is one of the program.                                  *)
Runnable(w) ==
    /\ Len(stk[w]) > 0
    /\ Active(w) # {}
    /\ Active(w) \cap done[w] = {}
    /\ Top(stk[w]).PC \in DOMAIN prog

Skipped(w) == blocking[w] \/ Warp_at_barrier(w)

Visit ==
    /\ phase = "running"
    /\ cur < WarpCount
    /\ Skipped(cur) \/ Runnable(cur)
    /\ VisitWarp
    /\ UNCHANGED cpVars

VisitFails ==
    /\ phase = "running"
    /\ cur < WarpCount
    /\ ~Skipped(cur) /\ ~Runnable(cur)
    /\ phase' = "assert"
    /\ UNCHANGED <<vars, mode, cursor, name, saved, files, from, runs>>

(* The end of a pass without a checkpoint.                                 *)
Pass ==
    /\ phase = "running"
    /\ ~Saves(mode)
    /\ EndPass
    /\ phase' = IF finished' THEN "off" ELSE "running"
    /\ UNCHANGED <<mode, cursor, name, saved, files, from, runs>>

(* The end of the first pass of a run that takes a checkpoint: execute()   *)
(* leaves its loop, reads the cursor, and ends every thread with           *)
(* set_done, exitCore and registerExit.  A lane without a thread, or the   *)
(* call through m_cta_info, may end the process here.                      *)
BeginSave ==
    /\ phase = "running"
    /\ Saves(mode)
    /\ cur = WarpCount
    /\ name' = FileNumber
    /\ \/ /\ \A w \in Warps : LanesOf(w) = Lanes
          /\ "returns" \in CtaInfoGarbage
          /\ phase' = "saving"
          /\ done' = [w \in Warps |-> Lanes]
       \/ /\ (\E w \in Warps : LanesOf(w) # Lanes) \/ "crashes" \in CtaInfoGarbage
          /\ phase' = "off"
          /\ UNCHANGED done
    /\ UNCHANGED <<prog, stk, pc, status, live, blocking, atBar, blockWarps, cur,
                   allDone, finished, mode, cursor, saved, files, from, runs>>

(* The loop over the warps goes on to the next file; after the last one    *)
(* execute() returns.                                                      *)
NextFile ==
    /\ saved' = saved + 1
    /\ phase' = IF saved' = WarpCount THEN "off" ELSE "saving"

(* fopen(fname, "w"): the file of the next warp is there and empty,        *)
(* whatever it held before.                                                *)
OpenFile ==
    /\ phase = "saving"
    /\ name = 0
    /\ files' = [files EXCEPT ![saved] = <<>>]
    /\ phase' = "writing"
    /\ UNCHANGED <<vars, mode, cursor, name, saved, from, runs>>

(* Warp::print_checkpoint, a turn of its loop.  The lines that stdio holds *)
(* back when the process is killed are those of a kill some turns earlier. *)
PrintEntry ==
    /\ phase = "writing"
    /\ Len(files[saved]) < Len(stk[saved])
    /\ files' = [files EXCEPT ![saved] = Append(@, Line(stk[saved][Len(@) + 1]))]
    /\ UNCHANGED <<vars, mode, phase, cursor, name, saved, from, runs>>

CloseFile ==
    /\ phase = "writing"
    /\ Len(files[saved]) = Len(stk[saved])
    /\ NextFile
    /\ UNCHANGED <<vars, mode, cursor, name, files, from, runs>>

(* The file of the next warp, under a number that nobody reads.            *)
SaveElsewhere ==
    /\ phase = "saving"
    /\ name # 0
    /\ NextFile
    /\ UNCHANGED <<vars, mode, cursor, name, files, from, runs>>

(* The process is killed, between any two of its steps.                    *)
Kill ==
    /\ phase \in Alive
    /\ phase' = "off"
    /\ UNCHANGED <<vars, mode, cursor, name, saved, files, from, runs>>

Over == phase = "off" /\ runs = MaxRuns /\ UNCHANGED allVars

(* A failed assertion ends the process; another may be started.            *)
Restart ==
    /\ phase \in {"nofile", "assert"}
    /\ phase' = "off"
    /\ UNCHANGED <<vars, mode, cursor, name, saved, files, from, runs>>

Worker == \/ Visit \/ VisitFails \/ Pass
          \/ BeginSave \/ OpenFile \/ PrintEntry \/ CloseFile \/ SaveElsewhere

CpNext == \/ \E m \in Modes : Start(m)
          \/ Worker \/ MoveCursor \/ Kill \/ Restart \/ Over

CpSpec == CpInit /\ [][CpNext]_allVars

(* The worker's thread runs whenever it can; nobody has to kill it.        *)
CpFairSpec == CpSpec /\ WF_allVars(Worker)
-----------------------------------------------------------------------------
(* The program counters of a run that goes on from a divergent stack may   *)
(* leave the program, and with a backward branch the naturals (the lanes   *)
(* that wait below are moved to the top's PC): TypeOK is only claimed of   *)
(* the other runs, below.                                                  *)
CpTypeOK ==
    /\ mode \in Modes
    /\ phase \in {"off", "nofile", "assert"} \cup Alive
    /\ cursor \in 0..1
    /\ name \in -1..0
    /\ saved \in 0..WarpCount
    /\ \A w \in Warps : files[w] # NoFile =>
                            /\ DOMAIN files[w] = 1..Len(files[w])
                            /\ \A i \in DOMAIN files[w] : files[w][i] \in Lines
    /\ runs \in 0..MaxRuns

(* A stack from which a run can go on as if it had never stopped: every    *)
(* lane is at the top, none has ended or waits below.                      *)
Whole(s) == s = NoFile \/ Top(s).mask = Lanes

(* A run that goes on from whole stacks, written by runs that were killed  *)
(* or crashed at any point, keeps what execute() relies on, also when it   *)
(* diverges later: the stack partitions the threads that are counted live, *)
(* and each lane is at the PC of its entry (createWarp sets the lanes to   *)
(* the PC of the entry that resume has read).                              *)
ResumesWhole ==
    phase = "running" /\ (\A w \in Warps : Whole(from[w])) =>
        TypeOK /\ StackPartition /\ StackTracksThreads /\ LiveCount

(* A failed assertion in execute() is never due to a checkpoint of whole   *)
(* stacks, and the stacks of a run from the start never cause one.         *)
AssertsExplained == phase = "assert" => \E w \in Warps : ~Whole(from[w])

(* The file that a resumed run has written when it closes it is exactly    *)
(* one instruction after the stack it has read, for every warp by itself:  *)
(* no instruction is skipped or repeated and no lane is lost or doubled,   *)
(* although a kill leaves warps of different checkpoints behind, and files *)
(* that were emptied or cut short.                                         *)
OneInstructionOn ==
    [][\A w \in Warps :
          /\ phase = "writing" /\ w = saved /\ saved' = saved + 1
          /\ from[w] # NoFile /\ Whole(from[w])
          /\ ~blocking[w] /\ ~atBar[w]
          => LET f == files[w]
                 t == Top(from[w]).PC
             IN  IF prog[t].op = "T_EXIT"
                 THEN f = <<>>
                 ELSE /\ \A k \in DOMAIN f : f[k].PC - t \in {1, prog[t].simm}
                      /\ \A l \in Lanes : \E k \in DOMAIN f :
                            \A j \in DOMAIN f : f[j].bits[l] = 1 <=> j = k]_allVars

(* A thread that has ended in a run from whole stacks has gone through     *)
(* T_EXIT, in whichever process.                                           *)
ResumedEndsAtExit ==
    phase = "running" /\ (\A w \in Warps : Whole(from[w])) => EndsAtExit

(* What a resumed run may rely on.                                         *)
ResumeSound == CpTypeOK /\ ResumesWhole /\ AssertsExplained /\ ResumedEndsAtExit

(* Every process comes to an end by itself, whatever it has resumed from:  *)
(* execute() leaves its loop, also when lanes that ended before the        *)
(* checkpoint are counted live again.                                      *)
RunsEnd == phase \in Alive ~> phase \notin Alive

(* Warp::resume asserts that the file it opens is there ("fp2 != NULL"):   *)
(* after a run that has written its checkpoint to the end, it is.          *)
CheckpointFound ==
    [][saved # WarpCount /\ saved' = WarpCount =>
           \A w \in Warps : files'[w] # NoFile]_allVars

(* get_simt_active_mask asserts "m_stack.size() > 0": a warp with live     *)
(* threads has an entry, also when it goes on from a checkpoint.           *)
StackNotEmpty == phase # "assert"
=============================================================================
