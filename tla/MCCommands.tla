----------------------------- MODULE MCCommands -----------------------------
(*****************************************************************************)
(* What the requests of the HTTP interface work on for TLC: the              *)
(* configuration, the parameters of the radio, the recordings they start and *)
(* stop, and the files they get.                                             *)
(*****************************************************************************)
EXTENDS ConfigStore

CONSTANTS
    \* of the radio
    Chs, ByteValues, WordValues, FixedBws, MaxSets,
    \* of the recordings
    MaxThreads, MaxFd, SizeAsked, SplitAt, BlockSizes, Bound,
    \* of the files
    Files, MaxSize, Chunk, MaxGets, MaxEdits

VARIABLES
    part,  \* the component a behaviour is about
    \* the parameters of the radio
    rCfg, rFlags, rBits, rFixed, rAns, rReq, rSent, rLeft,
    \* recordings and playbacks
    fTh, fReg, fFds, fAdc, fBt, fFull, fLeaked, fEnded, fMisfit, fStale,
    \* a file that is sent
    hSize, hFile, hSt_size, hRange, hFirst, hPos, hFds, hFree, hStatus,
    hAnnounced, hSent, hPc, hOdd, hCut, hReqs, hEdits

Radio == INSTANCE RadioParams WITH
    cfg <- rCfg, flags <- rFlags, bits <- rBits, fixed <- rFixed, ans <- rAns,
    req <- rReq, sent <- rSent, left <- rLeft

RadioVars == <<rCfg, rFlags, rBits, rFixed, rAns, rReq, rSent, rLeft>>

Record == INSTANCE FileRecord WITH
    th <- fTh, reg <- fReg, fds <- fFds, adc <- fAdc, bt <- fBt,
    full <- fFull, leaked <- fLeaked, ended <- fEnded, misfit <- fMisfit,
    stale <- fStale

RecordVars == <<fTh, fReg, fFds, fAdc, fBt, fFull, fLeaked, fEnded, fMisfit, fStale>>

File == INSTANCE HttpFile WITH
    MaxReqs <- MaxGets,
    size <- hSize, file <- hFile, st_size <- hSt_size, range <- hRange,
    first <- hFirst, pos <- hPos, fds <- hFds, free <- hFree,
    status <- hStatus, announced <- hAnnounced, sent <- hSent, pc <- hPc,
    odd <- hOdd, cut <- hCut, reqs <- hReqs, edits <- hEdits

FileVars == <<hSize, hFile, hSt_size, hRange, hFirst, hPos, hFds, hFree, hStatus,
    hAnnounced, hSent, hPc, hOdd, hCut, hReqs, hEdits>>

\* The assumptions of the instances on their constants.
ASSUME MCCommandsAssumption ==
    /\ Radio!RadioAssumption /\ Record!RecordAssumption /\ File!FileAssumption

(* One component steps in a behaviour, the others rest where they begin. *)

MCInit ==
    /\ part \in {"config", "radio", "record", "file"}
    /\ Init
    /\ part # "config" => (\A i \in Ifs : file.port[i] = 5000) /\ (\A d \in Devs : net[d].ip = 1)
    /\ Radio!Init
    /\ part # "radio" => rFixed = 0
    /\ Record!Init
    /\ File!Init
    /\ part # "file" => hSize = [f \in Files |-> 0] /\ hFile = CHOOSE f \in Files : TRUE

MCNext ==
    /\ part' = part
    /\ \/ part = "config" /\ Next /\ UNCHANGED <<RadioVars, RecordVars, FileVars>>
       \/ part = "radio" /\ Radio!Next /\ UNCHANGED <<vars, RecordVars, FileVars>>
       \/ part = "record" /\ Record!Next /\ UNCHANGED <<vars, RadioVars, FileVars>>
       \/ part = "file" /\ File!Next /\ UNCHANGED <<vars, RadioVars, RecordVars>>

mcVars == <<part, vars, RadioVars, RecordVars, FileVars>>

MCSpec == MCInit /\ [][MCNext]_mcVars
-----------------------------------------------------------------------------
\* What a reader of the configuration gets is the value last accepted,
\* whatever the width and unit of its field and whatever was set in between,
\* and FFT size and resolution belong together (config_write_data,
\* config_read_by_cmd).
RadioSound == part = "radio" => Radio!RadioSound

\* Recordings and playbacks that start, stop, fail and are cancelled in any
\* order leave the book straight: every open file has its thread, the hardware
\* runs for one that is registered, sizes are kept and no timer outlives its
\* memory (fs.c).
RecordSound == part = "record" => Record!RecordSound

\* What has been answered is found again after the next start, whatever was
\* killed (config_save_all, config_init), and a request that is answered with
\* an error leaves every parameter and output of the radio as it was
\* (cmd_ch_enable_set).
RequestSteps ==
    [][(part = "config" => KeepsPromises) /\ (part = "radio" => Radio!RefusalKeeps)]_mcVars

\* What is sent of a file is the range that was announced, each byte once and in
\* order, however the peer reads and the file changes meanwhile, and its
\* descriptor is closed (uh_file_request, file_write_cb).
FileRight == part = "file" => File!FileSound

\* A file that keeps growing is sent to the end of the range and no further,
\* and its request completes: every turn of the loop sends a byte of the
\* range, which is bounded, or ends the request.
SendEnds == [][part = "file" => File!SendsOn]_mcVars
=============================================================================
