------------------------------ MODULE MCFiles -------------------------------
(*****************************************************************************)
(* Recordings and the status of the device under fairness for TLC: the       *)
(* messages about the files of a recording, playbacks, and the checker that  *)
(* watches the cards.                                                        *)
(*****************************************************************************)
EXTENDS FileNotify

CONSTANTS
    \* of the status
    MaxTry, BootRounds, MaxLoad, Seconds, MaxBytes

VARIABLES
    part,  \* the component a behaviour is about
    \* recordings and playbacks
    rTh, rReg, rFds, rAdc, rBt, rFull, rLeaked, rEnded, rMisfit, rStale,
    \* the status of the device and the speed of a channel
    sCode, sAlive, sPc, sCmp, sTries, sRounds, sLoad, sLoads, sUp, sOld,
    sBlock, sVerdict, sExcuse

Play == INSTANCE FileRecord WITH
    MaxThreads <- 2, MaxFd <- 3, SizeAsked <- 1, SplitAt <- 1,
    BlockSizes <- {1}, Bound <- 2,
    th <- rTh, reg <- rReg, fds <- rFds, adc <- rAdc, bt <- rBt,
    full <- rFull, leaked <- rLeaked, ended <- rEnded, misfit <- rMisfit,
    stale <- rStale

PlayVars == <<rTh, rReg, rFds, rAdc, rBt, rFull, rLeaked, rEnded, rMisfit, rStale>>

Status == INSTANCE DeviceStatus WITH
    code <- sCode, alive <- sAlive, pc <- sPc, cmp <- sCmp, tries <- sTries,
    rounds <- sRounds, load <- sLoad, loads <- sLoads, up <- sUp, old <- sOld,
    block <- sBlock, verdict <- sVerdict, excuse <- sExcuse

StatusVars == <<sCode, sAlive, sPc, sCmp, sTries, sRounds, sLoad, sLoads, sUp, sOld,
    sBlock, sVerdict, sExcuse>>

\* The assumptions of the instances on their constants.
ASSUME MCFilesAssumption ==
    /\ NotifyAssumption
    /\ Play!RecordAssumption
    /\ Status!StatusAssumption

(* One component steps in a behaviour, the others rest where they begin. *)

MCInit ==
    /\ part \in {"notify", "play", "status"}
    /\ Init
    /\ Play!Init
    /\ Status!Init
    /\ part # "status" => sAlive

MCNext ==
    /\ part' = part
    /\ \/ part = "notify" /\ Next /\ UNCHANGED <<PlayVars, StatusVars>>
       \/ part = "play" /\ Play!Next /\ UNCHANGED <<vars, StatusVars>>
       \/ part = "status" /\ Status!Next /\ UNCHANGED <<vars, PlayVars>>
       \* the bounds of an instance may stop it
       \/ part \in {"play", "notify"} /\ UNCHANGED <<vars, PlayVars, StatusVars>>

mcVars == <<part, vars, PlayVars, StatusVars>>

MCSpec == MCInit /\ [][MCNext]_mcVars
-----------------------------------------------------------------------------
\* The status of the device keeps the error of a load on show, and the speeds
\* never account for more bytes than there are, while the watcher, uloop and
\* the readers share them without a lock (net_statistics.c).
StatusSound == part = "status" => Status!StatusSound

\* A recording that is stopped ends although it waits for its messages, a
\* playback that is stopped ends, the speed falls to zero when nothing is
\* routed, and the status settles when the cards answer.
FilesEnd ==
    /\ part = "notify" => (Fairness => ExitEnds)
    /\ part = "play" => (Play!Fairness => Play!PlayStops)
    /\ part = "status" => (Status!Fairness => Status!SpeedSettles /\ Status!Settles)
=============================================================================
