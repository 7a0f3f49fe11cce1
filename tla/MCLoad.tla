------------------------------- MODULE MCLoad -------------------------------
(*****************************************************************************)
(* BitfileLoad for TLC: several connections that load one chip of a card,    *)
(* and one connection at a time that loads all chips of the card.            *)
(*****************************************************************************)
EXTENDS BitfileLoad, TLC

CONSTANTS
    ChipNum,   \* the chip the connections share
    ChipLoads, \* bound: LOAD commands for it
    CardLen,   \* bound: chunks in a file when the whole card is loaded
    CardFds    \* the descriptors there are then

VARIABLE part  \* what a behaviour is about

(* A behaviour of either part is one of BitfileLoad. *)

MCInit == part \in {"chip", "card"} /\ Init

MCNext ==
    /\ part' = part
    /\ \/ /\ part = "chip"
          /\ NextOn(Slots \X {ChipNum})
          /\ loads' <= ChipLoads
       \/ /\ part = "card"
          /\ NextOn(ChipIds)
          /\ Cardinality(Connected') <= 1
          /\ \A c \in Clients : cl'[c].len <= CardLen
          /\ \A f \in Fds : f > CardFds => fdt'[f] = Free

mcVars == <<part, vars>>

MCSpec == MCInit /\ [][MCNext]_mcVars
-----------------------------------------------------------------------------
\* Nothing tells one connection from the other.
Symmetry == Permutations(Clients)
=============================================================================
