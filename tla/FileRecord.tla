------------------------------ MODULE FileRecord ------------------------------
(***************************************************************************)
(* Recording a channel to files and playing a file back (fs/fs.c).  A thread *)
(* per recording takes blocks of samples from the DMA buffer and writes them, *)
(* starting a new file when one is long enough; it stops the recording of its *)
(* channel when the disk is full or the size asked for is reached, a timer of *)
(* uloop stops it after the time asked for, a client stops it at will.  A    *)
(* recording is stopped by the name of its thread, which is free at once,     *)
(* while the thread goes on to the end of its callback.                      *)
(***************************************************************************)
EXTENDS Integers, Sequences, FiniteSets

CONSTANTS
    MaxThreads, \* bound: recordings and playbacks started
    MaxFd,      \* bound: descriptors 1 .. MaxFd
    SizeAsked,  \* sample_size, in units
    SplitAt,    \* split_file_threshold, in units; 0 is never
    BlockSizes, \* lengths of a block, in units
    Bound       \* bound: units of a recording without a size

\* What the constants are assumed to be.
RecordAssumption ==
    /\ {MaxThreads, MaxFd, SizeAsked, Bound} \subseteq Nat \ {0} /\ SplitAt \in Nat
    /\ BlockSizes \subseteq Nat \ {0} /\ IsFiniteSet(BlockSizes) /\ BlockSizes # {}

VARIABLES
    th,      \* the threads: struct push_arg and where the thread is
    reg,     \* thread registered under the name of each kind, 0 is none
    fds,     \* descriptors open: the thread each was opened for, 0 is closed
    adc, bt, \* the hardware samples; plays back
    full,    \* disk_is_full_alert
    leaked,  \* descriptors nobody will close
    ended,   \* the program has called exit
    misfit,  \* a file of a recording could not be opened
    stale    \* a thread has stopped a recording that was not its own

vars == <<th, reg, fds, adc, bt, full, leaked, ended, misfit, stale>>

Tids     == 1 .. Len(th)
Kinds    == {"save", "play"}
Policies == {"TIMER", "SIZE", "FREE"}

Init ==
    /\ th = <<>> /\ reg = [k \in Kinds |-> 0] /\ fds = [d \in 1 .. MaxFd |-> 0]
    /\ adc = FALSE /\ bt = FALSE /\ full = FALSE /\ leaked = {}
    /\ ended = FALSE /\ misfit = FALSE /\ stale = FALSE

FreeFds == {d \in 1 .. MaxFd : fds[d] = 0}
Lowest(S) == CHOOSE d \in S : \A e \in S : d <= e
Largest(S) == CHOOSE d \in S : \A e \in S : d >= e

NewThread(k, p, d) ==
    [kind |-> k, pc |-> "init", cancelled |-> FALSE, policy |-> p, fd |-> d, timer |-> FALSE,
     nbyte |-> 0, split |-> 0, block |-> 0, error |-> FALSE, wentOn |-> FALSE]

\* pthread_cancel_by_name: the thread acts on it after its callback.
CancelNamed(T, k) == IF reg[k] = 0 THEN T ELSE [T EXCEPT ![reg[k]].cancelled = TRUE]

-----------------------------------------------------------------------------
(* uloop                                                                     *)

\* _fs_start_save_file
StartSave(p) ==
    /\ ~ended /\ ~full /\ Len(th) < MaxThreads
    /\ FreeFds # {}
    /\ reg["save"] = 0
    /\ LET d == Lowest(FreeFds) IN
        /\ fds' = [fds EXCEPT ![d] = Len(th) + 1]
        /\ th' = Append(th, NewThread("save", p, d))
    /\ reg' = [reg EXCEPT !["save"] = Len(th) + 1]
    /\ adc' = TRUE
    /\ UNCHANGED <<bt, full, leaked, ended, misfit, stale>>

\* The same while the channel records: the thread is refused, the program exits.
StartSaveAgain ==
    /\ ~ended /\ ~full /\ FreeFds # {}
    /\ reg["save"] # 0
    /\ adc' = TRUE /\ ended' = TRUE
    /\ UNCHANGED <<th, reg, fds, bt, full, leaked, misfit, stale>>

\* Fault: the sampling is left on.
StopSave_Samples ==
    /\ ~ended
    /\ th' = CancelNamed(th, "save") /\ reg' = [reg EXCEPT !["save"] = 0]
    /\ UNCHANGED <<adc, fds, bt, full, leaked, ended, misfit, stale>>

\* _fs_stop_save_file, called for a client
StopSave ==
    /\ ~ended
    /\ adc' = FALSE
    /\ th' = CancelNamed(th, "save") /\ reg' = [reg EXCEPT !["save"] = 0]
    /\ UNCHANGED <<fds, bt, full, leaked, ended, misfit, stale>>

\* _fs_sample_time_out: the channel's recording is stopped, whoever set the timer.
TimeOut(t) ==
    /\ ~ended /\ t \in Tids /\ th[t].timer
    /\ adc' = FALSE
    /\ th' = [CancelNamed(th, "save") EXCEPT ![t].timer = FALSE]
    /\ reg' = [reg EXCEPT !["save"] = 0]
    /\ stale' = (stale \/ reg["save"] \notin {0, t})
    /\ UNCHANGED <<fds, bt, full, leaked, ended, misfit>>

\* _fs_start_read_raw_file
StartPlay ==
    /\ ~ended /\ Len(th) < MaxThreads /\ FreeFds # {}
    /\ reg["play"] = 0
    /\ LET d == Lowest(FreeFds) IN
        /\ fds' = [fds EXCEPT ![d] = Len(th) + 1]
        /\ th' = Append(th, [NewThread("play", "FREE", d) EXCEPT !.pc = "loop"])
    /\ reg' = [reg EXCEPT !["play"] = Len(th) + 1]
    /\ bt' = TRUE
    /\ UNCHANGED <<adc, full, leaked, ended, misfit, stale>>

\* The same while the channel plays: the descriptor is lost and the playback under
\* way is taken the hardware.
StartPlayAgain ==
    /\ ~ended /\ FreeFds # {}
    /\ reg["play"] # 0
    /\ fds' = [fds EXCEPT ![Lowest(FreeFds)] = reg["play"]]
    /\ leaked' = leaked \cup {Lowest(FreeFds)}
    /\ bt' = FALSE
    /\ UNCHANGED <<th, reg, adc, full, ended, misfit, stale>>

\* _fs_stop_read_raw_file
StopPlay ==
    /\ ~ended
    /\ th' = CancelNamed(th, "play") /\ reg' = [reg EXCEPT !["play"] = 0]
    /\ bt' = FALSE
    /\ UNCHANGED <<fds, adc, full, leaked, ended, misfit, stale>>

\* fs_disk_check_thread
DiskCheck ==
    /\ ~ended /\ \E b \in BOOLEAN : full' = b
    /\ UNCHANGED <<th, reg, fds, adc, bt, leaked, ended, misfit, stale>>

-----------------------------------------------------------------------------
(* The thread of a recording                                                 *)

\* _fs_save_init
SaveInit(t) ==
    /\ ~ended /\ t \in Tids /\ th[t].pc = "init"
    /\ th' = [th EXCEPT ![t].pc = "loop", ![t].timer = (th[t].policy = "TIMER")]
    /\ UNCHANGED <<reg, fds, adc, bt, full, leaked, ended, misfit, stale>>

\* read_adc_data: it returns when the DMA has a block, however long that takes;
\* blocks may be left when the sampling stops.
TakeBlock(t, n) ==
    /\ ~ended /\ t \in Tids /\ th[t].kind = "save" /\ th[t].pc = "loop"
    /\ th[t].policy = "SIZE" \/ th[t].nbyte < Bound
    /\ th' = [th EXCEPT ![t].pc = "got", ![t].block = n]
    /\ UNCHANGED <<reg, fds, adc, bt, full, leaked, ended, misfit, stale>>

\* The rest of the callback: a full disk stops the recording of the channel.
DiskFull(t) ==
    /\ ~ended /\ t \in Tids /\ th[t].pc = "got" /\ full
    /\ th' = [th EXCEPT ![t].pc = "stop"]
    /\ UNCHANGED <<reg, fds, adc, bt, full, leaked, ended, misfit, stale>>

\* _fs_sample_size_full
SizeFull(r) == r.policy = "SIZE" /\ r.nbyte >= SizeAsked

SplitDue(t) == SplitAt > 0 /\ th[t].split >= SplitAt

\* The state after a block: its length is counted, written or not.
Stored(t, part, bad) ==
    LET r == [th[t] EXCEPT !.nbyte = @ + th[t].block, !.split = part + th[t].block, !.block = 0,
                           !.error = bad, !.wentOn = (@ \/ th[t].error)]
    IN  [r EXCEPT !.pc = IF SizeFull(r) THEN "stop" ELSE "check"]

\* Fault: the size is compared with what was there before the block.
Store_Before(t, bad) ==
    /\ ~ended /\ t \in Tids /\ th[t].pc = "got" /\ ~full
    /\ ~SplitDue(t)
    /\ th' = [th EXCEPT ![t] = [Stored(t, th[t].split, bad) EXCEPT
                                  !.pc = IF SizeFull(th[t]) THEN "stop" ELSE "check"]]
    /\ UNCHANGED <<reg, fds, adc, bt, full, leaked, ended, misfit, stale>>

\* A block is written, or the write fails: nobody looks.
Store(t, bad) ==
    /\ ~ended /\ t \in Tids /\ th[t].pc = "got" /\ ~full
    /\ ~SplitDue(t)
    /\ th' = [th EXCEPT ![t] = Stored(t, th[t].split, bad)]
    /\ UNCHANGED <<reg, fds, adc, bt, full, leaked, ended, misfit, stale>>

\* Fault: the file that is long enough is not closed.
SplitStore_Open(t, bad) ==
    /\ ~ended /\ t \in Tids /\ th[t].pc = "got" /\ ~full
    /\ SplitDue(t) /\ FreeFds # {}
    /\ fds' = [fds EXCEPT ![Lowest(FreeFds)] = t]
    /\ th' = [th EXCEPT ![t] = [Stored(t, 0, bad) EXCEPT !.fd = Lowest(FreeFds)]]
    /\ UNCHANGED <<reg, adc, bt, full, leaked, ended, misfit, stale>>

\* _fs_split_file: the file is closed and the next one opened.
SplitStore(t, bad) ==
    /\ ~ended /\ t \in Tids /\ th[t].pc = "got" /\ ~full
    /\ SplitDue(t)
    /\ LET S == FreeFds \cup {th[t].fd}
       IN  /\ fds' = [fds EXCEPT ![th[t].fd] = 0, ![Lowest(S)] = t]
           /\ th' = [th EXCEPT ![t] = [Stored(t, 0, bad) EXCEPT !.fd = Lowest(S)]]
    /\ UNCHANGED <<reg, adc, bt, full, leaked, ended, misfit, stale>>

\* The open fails: the number of the closed descriptor stays in the arguments, the
\* block is dropped, the thread goes on.
SplitFails(t) ==
    /\ ~ended /\ t \in Tids /\ th[t].pc = "got" /\ ~full
    /\ SplitDue(t)
    /\ fds' = [fds EXCEPT ![th[t].fd] = 0]
    /\ th' = [th EXCEPT ![t] = Stored(t, 0, TRUE)]
    /\ misfit' = TRUE
    /\ UNCHANGED <<reg, adc, bt, full, leaked, ended, stale>>

\* _fs_stop_save_file, called by the thread: the sampling first, then the name.
OwnStop(t) ==
    /\ ~ended /\ t \in Tids /\ th[t].pc = "stop"
    /\ adc' = FALSE
    /\ th' = [th EXCEPT ![t].pc = "cancel"]
    /\ stale' = (stale \/ reg["save"] \notin {0, t})
    /\ UNCHANGED <<reg, fds, bt, full, leaked, ended, misfit>>

OwnCancel(t) ==
    /\ ~ended /\ t \in Tids /\ th[t].pc = "cancel"
    /\ th' = [CancelNamed(th, "save") EXCEPT ![t].pc = "check"]
    /\ reg' = [reg EXCEPT !["save"] = 0]
    /\ stale' = (stale \/ reg["save"] \notin {0, t})
    /\ UNCHANGED <<fds, adc, bt, full, leaked, ended, misfit>>

\* Fault: the cancellation is not looked at.
CheckCancel_Never(t) ==
    /\ ~ended /\ t \in Tids /\ th[t].pc = "check"
    /\ th' = [th EXCEPT ![t].pc = "loop"]
    /\ UNCHANGED <<reg, fds, adc, bt, full, leaked, ended, misfit, stale>>

\* thread_loop_cb after the callback
CheckCancel(t) ==
    /\ ~ended /\ t \in Tids /\ th[t].pc = "check"
    /\ th' = [th EXCEPT ![t].pc = IF th[t].cancelled THEN "exit" ELSE "loop"]
    /\ UNCHANGED <<reg, fds, adc, bt, full, leaked, ended, misfit, stale>>

\* Fault: the timer is left running.
SaveExit_Timer(t) ==
    /\ ~ended /\ t \in Tids /\ th[t].kind = "save" /\ th[t].pc = "exit"
    /\ fds' = [fds EXCEPT ![th[t].fd] = 0]
    /\ th' = [th EXCEPT ![t].pc = "ended"]
    /\ UNCHANGED <<reg, adc, bt, full, leaked, ended, misfit, stale>>

\* _thread_exit_callback of a recording: the timer is cancelled, the file closed,
\* the arguments freed.
SaveExit(t) ==
    /\ ~ended /\ t \in Tids /\ th[t].kind = "save" /\ th[t].pc = "exit"
    /\ fds' = [fds EXCEPT ![th[t].fd] = 0]
    /\ th' = [th EXCEPT ![t].pc = "ended", ![t].timer = FALSE]
    /\ UNCHANGED <<reg, adc, bt, full, leaked, ended, misfit, stale>>

-----------------------------------------------------------------------------
(* The thread of a playback                                                  *)

\* _fs_start_read_raw_file_loop: some of the file is played.
PlayBlock(t) ==
    /\ ~ended /\ t \in Tids /\ th[t].kind = "play" /\ th[t].pc = "loop"
    /\ th' = [th EXCEPT ![t].pc = "check"]
    /\ UNCHANGED <<reg, fds, adc, bt, full, leaked, ended, misfit, stale>>

\* The end of the file: the thread leaves by its name.  When the name is gone it has
\* been cancelled and leaves after the callback; it may by now be another's name.
PlayOver(t) ==
    /\ ~ended /\ t \in Tids /\ th[t].kind = "play" /\ th[t].pc = "loop"
    /\ th' = [th EXCEPT ![t].pc = IF reg["play"] = 0 THEN "check" ELSE "exit"]
    /\ reg' = [reg EXCEPT !["play"] = 0]
    /\ stale' = (stale \/ reg["play"] \notin {0, t})
    /\ UNCHANGED <<fds, adc, bt, full, leaked, ended, misfit>>

\* Fault: the hardware is left playing.
PlayExit_Plays(t) ==
    /\ ~ended /\ t \in Tids /\ th[t].kind = "play" /\ th[t].pc = "exit"
    /\ fds' = [fds EXCEPT ![th[t].fd] = 0]
    /\ th' = [th EXCEPT ![t].pc = "ended"]
    /\ UNCHANGED <<bt, reg, adc, full, leaked, ended, misfit, stale>>

\* _thread_exit_callback of a playback
PlayExit(t) ==
    /\ ~ended /\ t \in Tids /\ th[t].kind = "play" /\ th[t].pc = "exit"
    /\ bt' = FALSE
    /\ fds' = [fds EXCEPT ![th[t].fd] = 0]
    /\ th' = [th EXCEPT ![t].pc = "ended"]
    /\ UNCHANGED <<reg, adc, full, leaked, ended, misfit, stale>>

-----------------------------------------------------------------------------
Uloop ==
    \/ \E p \in Policies : StartSave(p)
    \/ StartSaveAgain \/ StopSave
    \/ \E t \in Tids : TimeOut(t)
    \/ StartPlay \/ StartPlayAgain \/ StopPlay

\* What the thread of a recording does without waiting for a block.
Works(t) ==
    \/ SaveInit(t) \/ DiskFull(t)
    \/ \E bad \in BOOLEAN : Store(t, bad) \/ SplitStore(t, bad)
    \/ SplitFails(t) \/ OwnStop(t) \/ OwnCancel(t) \/ CheckCancel(t) \/ SaveExit(t)

Plays(t) == PlayBlock(t) \/ PlayOver(t) \/ CheckCancel(t) \/ PlayExit(t)

Next ==
    \/ Uloop \/ DiskCheck
    \/ \E t \in Tids : Works(t) \/ Plays(t) \/ \E n \in BlockSizes : TakeBlock(t, n)

\* The threads are scheduled; whether a block arrives is up to the hardware.
Fairness == \A t \in 1 .. MaxThreads : WF_vars(Works(t)) /\ WF_vars(Plays(t))

Spec == Init /\ [][Next]_vars /\ Fairness

-----------------------------------------------------------------------------
Alive(t) == th[t].pc # "ended"

\* The types of the state.
TypeOK ==
    /\ \A t \in Tids :
        /\ th[t].kind \in Kinds /\ th[t].policy \in Policies /\ th[t].fd \in 1 .. MaxFd
        /\ th[t].pc \in {"init", "loop", "got", "stop", "cancel", "check", "exit", "ended"}
        /\ {th[t].nbyte, th[t].split, th[t].block} \subseteq Nat
        /\ {th[t].cancelled, th[t].timer, th[t].error, th[t].wentOn} \subseteq BOOLEAN
    /\ reg \in [Kinds -> 0 .. Len(th)] /\ fds \in [1 .. MaxFd -> 0 .. Len(th)]
    /\ {adc, bt, full, ended, misfit, stale} \subseteq BOOLEAN /\ leaked \subseteq 1 .. MaxFd

\* Unless a file could not be opened, what is open is what the threads that have
\* not ended write or read, each its own, and what a refused playback lost: no
\* thread writes to or closes the file of another.
FdsOwned ==
    ~misfit => /\ {d \in 1 .. MaxFd : fds[d] # 0} = leaked \cup {th[t].fd : t \in {u \in Tids : Alive(u)}}
               /\ \A t \in Tids : Alive(t) => fds[th[t].fd] = t /\ th[t].fd \notin leaked

\* As long as no thread stops a recording of another, the hardware samples exactly
\* while a recording is registered; only a thread about to take back its name is
\* between the two.
SamplesForRecording ==
    ~stale /\ ~ended /\ (\A t \in Tids : th[t].pc # "cancel") => (adc <=> reg["save"] # 0)

\* The hardware plays only for a playback that is registered or on its way out.
PlaysForPlayback ==
    bt /\ ~stale => \E t \in Tids : th[t].kind = "play" /\ Alive(t) /\ (reg["play"] = t \/ th[t].pc = "exit")

\* A recording of a given size ends with the block that reaches it.
SizeKept ==
    \A t \in Tids : th[t].policy = "SIZE" => th[t].nbyte < SizeAsked + Largest(BlockSizes)

\* The timer of a recording never outlives it: its structure is in the memory that
\* the exit frees.
TimerInMemory == \A t \in Tids : th[t].timer => Alive(t)

\* All of it: what recordings and playbacks that start, stop, fail and are
\* cancelled in any order keep straight.
RecordSound ==
    /\ TypeOK /\ FdsOwned /\ SamplesForRecording /\ PlaysForPlayback
    /\ SizeKept /\ TimerInMemory

\* A playback that is stopped ends.
PlayStops == \A t \in 1 .. MaxThreads :
    (t \in Tids /\ th[t].kind = "play" /\ th[t].cancelled) ~> (ended \/ (t \in Tids /\ ~Alive(t)))

\* What the message of the stop says: the recording stops.
SaveStops == \A t \in 1 .. MaxThreads :
    (t \in Tids /\ th[t].kind = "save" /\ th[t].cancelled) ~> (ended \/ (t \in Tids /\ ~Alive(t)))

\* What the message says: after a write that failed the thread of the recording
\* exits; it stores no other block.
WriteErrorStops == \A t \in Tids : ~th[t].wentOn
=============================================================================
