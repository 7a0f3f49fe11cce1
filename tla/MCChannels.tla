----------------------------- MODULE MCChannels -----------------------------
(*****************************************************************************)
(* The threads around a data channel for TLC: the keys of its streams, the   *)
(* registry of named threads, and under fairness small instances of          *)
(* NetThread, XdmaPump, Subscriptions and SendPackage.                       *)
(*****************************************************************************)
EXTENDS NetThread

CONSTANTS
    \* of the streams
    Chips, Funcs, Ports, MaxSubs,
    \* of the registry
    Names, Slots, MaxThreads

VARIABLES
    part,  \* the component a behaviour is about
    \* the subscriptions of a client and their keys
    kAsked, kTable,
    \* the readers of two channels
    pList, pSec, pBmp, pReg, pHolder, pRd, pOn, pRaces,
    \* the keepalive of two connections
    sList, sHost, sPrio, sSubs, sProbes, sLink, sDown, sWant, sShaken, sCmds,
    \* a sender thread and uloop
    gGroup, gPc, gP, gLeft, gSent, gPad, gGood, gBad, gDead, gWire, gUloop,
    \* the registry of named threads
    rTab, rBmp, rThread, rRefused, rStale

Key == INSTANCE StreamKey WITH asked <- kAsked, table <- kTable

KeyVars == <<kAsked, kTable>>

Pump == INSTANCE XdmaPump WITH
    Clients <- {"a", "b"}, Chans <- {0, 1}, Chips <- {1}, Slots <- 1,
    NoClient <- "nobody",
    list <- pList, sec <- pSec, bmp <- pBmp, reg <- pReg, holder <- pHolder,
    rd <- pRd, on <- pOn, races <- pRaces

PumpVars == <<pList, pSec, pBmp, pReg, pHolder, pRd, pOn, pRaces>>

Subs == INSTANCE Subscriptions WITH
    Clients <- {1, 2}, Hosts <- {"x"}, Ids <- {"a"}, Present <- {"a"},
    MaxCmd <- 2, MaxProbes <- 2,
    list <- sList, host <- sHost, prio <- sPrio, subs <- sSubs,
    probes <- sProbes, link <- sLink, down <- sDown, want <- sWant,
    shaken <- sShaken, cmds <- sCmds

SubsVars == <<sList, sHost, sPrio, sSubs, sProbes, sLink, sDown, sWant, sShaken, sCmds>>

Pack == INSTANCE SendPackage WITH
    MaxCells <- 4, LenMax <- 3, Hdr <- 2, Search <- 2,
    group <- gGroup, pc <- gPc, p <- gP, left <- gLeft, sent <- gSent,
    pad <- gPad, good <- gGood, bad <- gBad, dead <- gDead, wire <- gWire,
    uloop <- gUloop

PackVars == <<gGroup, gPc, gP, gLeft, gSent, gPad, gGood, gBad, gDead, gWire, gUloop>>

Registry == INSTANCE ThreadRegistry WITH
    tab <- rTab, bmp <- rBmp, thread <- rThread, refused <- rRefused,
    stale <- rStale

RegistryVars == <<rTab, rBmp, rThread, rRefused, rStale>>

\* The assumptions of the instances on their constants.
ASSUME MCChannelsAssumption ==
    /\ Key!KeyAssumption
    /\ Pump!PumpAssumption
    /\ Subs!SubAssumption
    /\ Pack!SendAssumption
    /\ Registry!RegistryAssumption

(* One component steps in a behaviour, the others rest where they begin. *)

MCInit ==
    /\ part \in {"key", "net", "pump", "subs", "send", "registry"}
    /\ Init
    /\ Key!Init
    /\ Pump!Init
    /\ Subs!Init
    /\ Pack!Init
    /\ Registry!Init

MCNext ==
    /\ part' = part
    /\ \/ part = "net" /\ Next /\ UNCHANGED <<KeyVars, PumpVars, SubsVars, PackVars, RegistryVars>>
       \/ part = "key" /\ Key!Next /\ UNCHANGED <<vars, PumpVars, SubsVars, PackVars, RegistryVars>>
       \/ part = "pump" /\ Pump!Next /\ UNCHANGED <<vars, KeyVars, SubsVars, PackVars, RegistryVars>>
       \/ part = "subs" /\ Subs!Next /\ UNCHANGED <<vars, KeyVars, PumpVars, PackVars, RegistryVars>>
       \/ part = "send" /\ Pack!Next /\ UNCHANGED <<vars, KeyVars, PumpVars, SubsVars, RegistryVars>>
       \/ part = "registry" /\ Registry!Next /\ UNCHANGED <<vars, KeyVars, PumpVars, SubsVars, PackVars>>
       \* the bounds of an instance may stop it
       \/ part \in {"net", "pump"} /\ UNCHANGED <<vars, KeyVars, PumpVars, SubsVars, PackVars, RegistryVars>>

mcVars == <<part, vars, KeyVars, PumpVars, SubsVars, PackVars, RegistryVars>>

MCSpec == MCInit /\ [][MCNext]_mcVars
-----------------------------------------------------------------------------
\* What a client has subscribed to is what its table shows, under keys of 16 bits
\* that are the streams' own (client_hash_insert, client_hash_delete_item).
KeysExact == part = "key" => Key!KeysExact

\* The table of named threads holds the threads that run, each under its own
\* name (pthread_create_detach, pthread_cancel_by_name,
\* pthread_cancel_by_tid).
RegistrySound == part = "registry" => Registry!RegistrySound

\* Whoever waits for another thread is let go: a reader for its senders
\* without the 4 s timeout, tcp_free for the sender it cancels while it holds
\* tcp_client_lock, uloop for the lock of a table or for a sender that is
\* cancelled; and a connection whose link stays down is freed, after exactly
\* the probes it is allowed.
WaitsEnd ==
    /\ part = "net" => (Fairness => RoundEndsByItself /\ FreeReturns)
    /\ part = "subs" => (Subs!Fairness => Subs!AlwaysExact /\ Subs!DownFreed)
    /\ part = "send" => (Pack!Fairness => Pack!UloopReturns)

\* Once nobody is connected every channel is switched off, and a client that
\* registers and stays gets all channels for good, also if it came in the
\* middle of the clean-up after somebody else (spm_xdma.c).
PumpServes ==
    part = "pump" => (Pump!Fairness => Pump!IdleStops /\ Pump!RegisteredIsServed)
=============================================================================
