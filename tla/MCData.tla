------------------------------- MODULE MCData -------------------------------
(*****************************************************************************)
(* The way of the data for TLC: the list of clients that readers walk while  *)
(* uloop changes it, what the commands of several connections leave          *)
(* subscribed, a block of the DMA ring that is cut into groups of frames,    *)
(* and a group that is sent.                                                 *)
(*****************************************************************************)
EXTENDS XdmaPump, TLC

CONSTANTS
    \* of the subscriptions
    SClients, SHosts, SIds, SPresent, SMaxCmd, SMaxProbes,
    \* of a block
    BMaxCells, BStreams, BLenMax, BMaxFrames, BMaxVec, BMaxKeys, BBlocks,
    \* of a group
    GMaxCells, GLenMax, GHdr, GSearch

VARIABLES
    part,  \* the component a behaviour is about
    \* the subscriptions of two hosts
    sList, sHost, sPrio, sSubs, sProbes, sLink, sDown, sWant, sShaken, sCmds,
    \* a block and its groups
    bBlock, bNth, bPc, bOffset, bSum, bPos, bSub, bErr, bOver, bTable, bHeld,
    bLost, bFrames,
    \* a sender thread and its group of frames
    gGroup, gPc, gP, gLeft, gSent, gPad, gGood, gBad, gDead, gWire, gUloop

Subs == INSTANCE Subscriptions WITH
    Clients <- SClients, Hosts <- SHosts, Ids <- SIds, Present <- SPresent,
    MaxCmd <- SMaxCmd, MaxProbes <- SMaxProbes,
    list <- sList, host <- sHost, prio <- sPrio, subs <- sSubs,
    probes <- sProbes, link <- sLink, down <- sDown, want <- sWant,
    shaken <- sShaken, cmds <- sCmds

SubsVars == <<sList, sHost, sPrio, sSubs, sProbes, sLink, sDown, sWant, sShaken, sCmds>>

Block == INSTANCE FrameDispatch WITH
    MaxCells <- BMaxCells, Streams <- BStreams, LenMax <- BLenMax,
    MaxFrames <- BMaxFrames, MaxVec <- BMaxVec, MaxKeys <- BMaxKeys, Blocks <- BBlocks,
    block <- bBlock, nth <- bNth, pc <- bPc, offset <- bOffset, sum <- bSum,
    pos <- bPos, sub <- bSub, err <- bErr, over <- bOver, table <- bTable,
    held <- bHeld, lost <- bLost, frames <- bFrames

BlockVars == <<bBlock, bNth, bPc, bOffset, bSum, bPos, bSub, bErr, bOver, bTable, bHeld,
    bLost, bFrames>>

Pack == INSTANCE SendPackage WITH
    MaxCells <- GMaxCells, LenMax <- GLenMax, Hdr <- GHdr, Search <- GSearch,
    group <- gGroup, pc <- gPc, p <- gP, left <- gLeft, sent <- gSent,
    pad <- gPad, good <- gGood, bad <- gBad, dead <- gDead, wire <- gWire,
    uloop <- gUloop

PackVars == <<gGroup, gPc, gP, gLeft, gSent, gPad, gGood, gBad, gDead, gWire, gUloop>>

\* The assumptions of the instances on their constants.
ASSUME MCDataAssumption ==
    /\ Subs!SubAssumption
    /\ Block!DispatchAssumption
    /\ Pack!SendAssumption

(* One component steps in a behaviour, the others rest where they begin. *)

MCInit ==
    /\ part \in {"pump", "subs", "block", "send"}
    /\ Init
    /\ Subs!Init
    /\ Block!Init
    /\ Pack!Init

MCNext ==
    /\ part' = part
    /\ \/ part = "pump" /\ Next /\ UNCHANGED <<SubsVars, BlockVars, PackVars>>
       \/ part = "subs" /\ Subs!Next /\ UNCHANGED <<vars, BlockVars, PackVars>>
       \/ part = "block" /\ Block!Next /\ UNCHANGED <<vars, SubsVars, PackVars>>
       \/ part = "send" /\ Pack!Next /\ UNCHANGED <<vars, SubsVars, BlockVars>>
       \* the bounds of an instance may stop it
       \/ part \in {"pump"} /\ UNCHANGED <<vars, SubsVars, BlockVars, PackVars>>

mcVars == <<part, vars, SubsVars, BlockVars, PackVars>>

MCSpec == MCInit /\ [][MCNext]_mcVars

\* Nothing tells one connection of the readers from another.
Symmetry == Permutations(Clients)
-----------------------------------------------------------------------------
\* Whatever the commands of several connections do, a table holds keys of
\* present cards, and a host gets on both its connections what it has
\* subscribed to on either (CCT_DATA_SUB, CCT_DATA_UNSUB).
SubsSound == part = "subs" => Subs!SubsSound

\* A block is cut into groups that keep its frames: each goes to its own
\* stream, no cell goes out twice, and only a last frame that is cut off
\* reaches beyond the block (xdma_data_dispatcher_buffer, spm_hash_renew).
BlockSound == part = "block" => Block!BlockSound

\* The sender thread finds in a group the frames the dispatcher has put there,
\* sends them whole and in order, all of them if nothing breaks, and counts
\* every byte once.
SendSound == part = "send" => Pack!SendSound

\* The analysis of a block ends, with frames of length 0 as well: every step
\* takes the place in the block, the stage, the number of frames or the length
\* of the group on, in this order, and all of them are bounded.
DispatchEnds == [][part = "block" => Block!Progress]_mcVars
=============================================================================
