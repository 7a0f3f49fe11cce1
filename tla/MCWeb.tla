------------------------------- MODULE MCWeb --------------------------------
(*****************************************************************************)
(* What the HTTP server makes of the texts in a request for TLC: the         *)
(* templates its path is matched with, the coding of URLs, and the file a    *)
(* path names.                                                               *)
(*****************************************************************************)
EXTENDS RestRoute

VARIABLES
    part,  \* the component a behaviour is about
    \* a string that is encoded and decoded
    uText, uOp, uBack, uSrc, uI, uBuf, uBlen, uWrote, uRet,
    \* the path of a file
    pPath, pAt, pPhys, pInfo, pKind, pResult, pHops

Url == INSTANCE HttpUrl WITH
    Codes <- {37, 47, 50, 102, 70, 255}, MaxLen <- 4, MaxBuf <- 9,
    text <- uText, op <- uOp, back <- uBack, src <- uSrc, i <- uI,
    buf <- uBuf, blen <- uBlen, wrote <- uWrote, ret <- uRet

UrlVars == <<uText, uOp, uBack, uSrc, uI, uBuf, uBlen, uWrote, uRet>>

Path == INSTANCE HttpPath WITH
    Chars <- {"/", ".", "a", "r"}, MaxLen <- 6, MaxHops <- 2,
    path <- pPath, at <- pAt, phys <- pPhys, info <- pInfo, kind <- pKind,
    result <- pResult, hops <- pHops

PathVars == <<pPath, pAt, pPhys, pInfo, pKind, pResult, pHops>>

\* The assumptions of the instances on their constants.
ASSUME MCWebAssumption ==
    /\ Url!UrlAssumption
    /\ Path!PathAssumption

(* One component steps in a behaviour, the others rest where they begin. *)

MCInit ==
    /\ part \in {"route", "url", "path"}
    /\ Init
    /\ \/ part = "url" /\ Url!Init
       \/ /\ part # "url"
          /\ uText = "off" /\ uOp = "off" /\ uBack = "off" /\ uSrc = "off" /\ uI = "off"
          /\ uBuf = "off" /\ uBlen = "off" /\ uWrote = "off" /\ uRet = "off"
    /\ \/ part = "path" /\ Path!Init
       \/ /\ part # "path"
          /\ pPath = "off" /\ pAt = "off" /\ pPhys = "off" /\ pInfo = "off" /\ pKind = "off"
          /\ pResult = "off" /\ pHops = "off"

MCNext ==
    /\ part' = part
    /\ \/ part = "route" /\ Next /\ UNCHANGED <<UrlVars, PathVars>>
       \/ part = "url" /\ Url!Next /\ UNCHANGED <<vars, PathVars>>
       \/ part = "path" /\ Path!Next /\ UNCHANGED <<vars, UrlVars>>

mcVars == <<part, vars, UrlVars, PathVars>>

MCSpec == MCInit /\ [][MCNext]_mcVars
-----------------------------------------------------------------------------
\* A request calls the one action its path agrees with, with exactly its own
\* words as variables (http_on_request).  A URL means what the reference of
\* escapes says, within its buffer and through a round trip (uh_urldecode,
\* uh_urlencode).  The file a path means is found under every spelling, and none
\* outside the document root (uh_path_lookup, canonpath).
RequestRight ==
    /\ TypeOK /\ OneTemplate /\ OwnVariables
    /\ part = "url" =>
         /\ Url!TypeOK
         /\ Url!RoundTrip
         /\ Url!ResultRight
         /\ Url!FitsBuffer
    /\ part = "path" =>
         /\ Path!TypeOK
         /\ Path!CanonRight
         /\ Path!ServedInside
         /\ Path!FoundIfThere
         /\ Path!OneRedirection
=============================================================================
