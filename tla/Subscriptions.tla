---------------------------- MODULE Subscriptions ----------------------------
(***************************************************************************)
(* The subscriptions of the command connections (net/net_sub.c on            *)
(* utils/hash.c, the commands of protocol/m57/m57.c) and the keepalive timer *)
(* of net/net_tcp.c.                                                         *)
(*                                                                         *)
(* A host has two connections, one of each priority; it sends its commands   *)
(* on one, and SUB and UNSUB act on the other as well, which is looked for   *)
(* by address, priority and neighbouring port.  A connection has priority 0  *)
(* until it registers.  All of this runs in the uloop thread.                *)
(***************************************************************************)
EXTENDS Integers, Sequences, SequencesExt

CONSTANTS
    Clients,   \* the connections, named by their peer ports
    Hosts,     \* peer addresses
    Ids,       \* streams: chip, function and port
    Present,   \* those of them whose card is present
    MaxCmd,    \* bound: commands sent by all connections
    MaxProbes  \* TCP_MAX_KEEPALIVE_PROBES

\* What the constants are assumed to be.
SubAssumption ==
    /\ Clients \subseteq Nat /\ Present \subseteq Ids
    /\ Hosts # {} /\ MaxCmd \in Nat /\ MaxProbes \in Nat

VARIABLES
    list,    \* srv->clients, the newest first
    host,    \* the address of each connection
    prio,    \* section.prio
    subs,    \* section.hash: keys, a stream and a priority
    probes,  \* tcp_keepalive_probes
    link,    \* the link of the interface is up
    down,    \* ticks of each connection since it was last seen alive
    want,    \* the streams each host has subscribed to and not unsubscribed
    shaken,  \* hosts whose connections have changed while they had subscriptions
    cmds     \* commands so far

net  == <<link, probes, down>>
vars == <<list, host, prio, subs, net, want, shaken, cmds>>

Levels == {0, 1}  \* the priorities
Connected == ToSet(list)
Of(h) == {c \in Connected : host[c] = h}

Init ==
    /\ list = <<>>
    /\ host = [c \in Clients |-> CHOOSE h \in Hosts : TRUE]
    /\ prio = [c \in Clients |-> 0] /\ subs = [c \in Clients |-> {}]
    /\ probes = [c \in Clients |-> 0] /\ down = [c \in Clients |-> 0]
    /\ link = TRUE
    /\ want = [h \in Hosts |-> {}] /\ shaken = {} /\ cmds = 0

\* The connections of host h change: with subscriptions that is not foreseen.
Shake(h) == shaken' = IF \E c \in Of(h) : subs[c] # {} THEN shaken \cup {h} ELSE shaken

\* Host h has one connection of each priority.
HasPair(h) == \A p \in Levels : \E c \in Of(h) : {d \in Of(h) : prio[d] = p} = {c}

-----------------------------------------------------------------------------
(* Connections.                                                              *)

\* tcp_accept_cb, and the client from its calloc.
Accept(c, h) ==
    /\ link /\ c \notin Connected
    /\ list' = <<c>> \o list
    /\ host' = [host EXCEPT ![c] = h]
    /\ Shake(h)
    /\ UNCHANGED <<prio, subs, net, want, cmds>>

\* tcp_free: the table goes with the client.  The host forgets its subscriptions
\* with its last connection.
Free(c) ==
    /\ \E k \in 1 .. Len(list) : list[k] = c /\ list' = RemoveAt(list, k)
    /\ prio' = [prio EXCEPT ![c] = 0] /\ subs' = [subs EXCEPT ![c] = {}]
    /\ probes' = [probes EXCEPT ![c] = 0] /\ down' = [down EXCEPT ![c] = 0]
    /\ host' = [host EXCEPT ![c] = CHOOSE h \in Hosts : TRUE]
    /\ IF Of(host[c]) = {c}
         THEN /\ want' = [want EXCEPT ![host[c]] = {}]
              /\ shaken' = shaken \ {host[c]}
         ELSE Shake(host[c]) /\ UNCHANGED want

\* tcp_client_notify_state: the peer has closed, or the connection is broken.
Closed(c) ==
    /\ c \in Connected
    /\ Free(c)
    /\ UNCHANGED <<link, cmds>>

-----------------------------------------------------------------------------
(* The commands.                                                             *)

\* CCT_REGISTER
Register(c, p) ==
    /\ c \in Connected /\ cmds < MaxCmd
    /\ prio' = [prio EXCEPT ![c] = p]
    /\ IF p # prio[c] THEN Shake(host[c]) ELSE UNCHANGED shaken
    /\ cmds' = cmds + 1
    /\ UNCHANGED <<list, host, subs, net, want>>

\* The connection at the first of the places K of the list, if there is one.
First(K) == {list[k] : k \in {i \in K : \A j \in K : i <= j}}

\* Fault: only the neighbouring port is tried.
Other_NearOnly(c) ==
    First({k \in 1 .. Len(list) : /\ host[list[k]] = host[c] /\ prio[list[k]] = 1 - prio[c]
                                 /\ list[k] \in c - 1 .. c + 1})

\* tcp_find_prio_client: the first connection of the host with the other priority
\* at a neighbouring port, or else the first with the other priority.
Other(c) ==
    LET all  == {k \in 1 .. Len(list) : host[list[k]] = host[c] /\ prio[list[k]] = 1 - prio[c]}
        near == {k \in all : list[k] \in c - 1 .. c + 1}
    IN  First(IF near # {} THEN near ELSE all)

\* GET_HASHMAP_ID for connection c.
Key(c, id) == <<id, prio[c]>>

\* CCT_DATA_SUB: the connection and the other one.  A card that is not present
\* is refused.
Sub(c, id) ==
    /\ c \in Connected /\ cmds < MaxCmd
    /\ IF id \in Present
         THEN /\ subs' = [d \in Clients |-> IF d = c \/ d \in Other(c) THEN subs[d] \cup {Key(d, id)} ELSE subs[d]]
              /\ want' = [want EXCEPT ![host[c]] = @ \cup {id}]
              /\ shaken' = IF HasPair(host[c]) THEN shaken ELSE shaken \cup {host[c]}
         ELSE UNCHANGED <<subs, want, shaken>>
    /\ cmds' = cmds + 1
    /\ UNCHANGED <<list, host, prio, net>>

\* CCT_DATA_UNSUB: the connection and the other one.
Unsub(c, id) ==
    /\ c \in Connected /\ cmds < MaxCmd
    /\ subs' = [d \in Clients |-> IF d = c \/ d \in Other(c) THEN subs[d] \ {Key(d, id)} ELSE subs[d]]
    /\ want' = [want EXCEPT ![host[c]] = @ \ {id}]
    /\ cmds' = cmds + 1
    /\ UNCHANGED <<list, host, prio, net, shaken>>

-----------------------------------------------------------------------------
(* The keepalive timer.                                                      *)

\* Fault: the probes are not counted from a link that was up.
Keepalive_KeepsCount(c) ==
    /\ c \in Connected
    /\ IF ~link /\ probes[c] = MaxProbes
         THEN Free(c)
         ELSE /\ probes' = [probes EXCEPT ![c] = IF link THEN @ ELSE @ + 1]
              /\ down' = [down EXCEPT ![c] = IF link THEN 0 ELSE @ + 1]
              /\ UNCHANGED <<list, host, prio, subs, want, shaken>>
    /\ UNCHANGED <<link, cmds>>

\* Fault: a tick starts the count afresh.
Keepalive_Restarts(c) ==
    /\ c \in Connected
    /\ probes' = [probes EXCEPT ![c] = 0] /\ down' = [down EXCEPT ![c] = 0]
    /\ UNCHANGED <<list, host, prio, subs, want, shaken, link, cmds>>

\* tcp_keepalive_cb: sets itself again, counts while the link is down and frees
\* the client when it has counted too far.
Keepalive(c) ==
    /\ c \in Connected
    /\ IF ~link /\ probes[c] = MaxProbes
         THEN Free(c)
         ELSE /\ probes' = [probes EXCEPT ![c] = IF link THEN 0 ELSE @ + 1]
              /\ down' = [down EXCEPT ![c] = IF link THEN 0 ELSE @ + 1]
              /\ UNCHANGED <<list, host, prio, subs, want, shaken>>
    /\ UNCHANGED <<link, cmds>>

\* CCT_BEAT_HART: update_tcp_keepalive takes the heartbeat of the peer for a sign
\* of life and sets the timer again.
Heartbeat(c) ==
    /\ c \in Connected /\ cmds < MaxCmd
    /\ probes' = [probes EXCEPT ![c] = 0] /\ down' = [down EXCEPT ![c] = 0]
    /\ cmds' = cmds + 1
    /\ UNCHANGED <<list, host, prio, subs, link, want, shaken>>

\* The cable is pulled, or put back.
Link ==
    /\ link' = ~link
    /\ UNCHANGED <<list, host, prio, subs, probes, down, want, shaken, cmds>>

Next ==
    \/ Link
    \/ \E c \in Clients :
          \/ \E h \in Hosts : Accept(c, h)
          \/ \E p \in Levels : Register(c, p)
          \/ \E id \in Ids : Sub(c, id) \/ Unsub(c, id)
          \/ Closed(c) \/ Heartbeat(c) \/ Keepalive(c)

\* uloop runs the timers.
Fairness == \A c \in Clients : WF_vars(Keepalive(c))

Spec == Init /\ [][Next]_vars /\ Fairness

-----------------------------------------------------------------------------
\* The streams that reach connection c: its thread sends what is in the table of
\* the channel of its priority under one of its keys (_data_dispatcher).
Reaches(c, id) == Key(c, id) \in subs[c]

\* The types; a table holds keys of present cards only (CCT_DATA_SUB).
TypeOK ==
    /\ list \in Seq(Clients) /\ IsInjective(list)
    /\ host \in [Clients -> Hosts] /\ prio \in [Clients -> Levels]
    /\ subs \in [Clients -> SUBSET (Present \X Levels)]
    /\ probes \in [Clients -> 0 .. MaxProbes] /\ down \in [Clients -> 0 .. MaxProbes + 1]
    /\ link \in BOOLEAN /\ cmds \in 0 .. MaxCmd
    /\ want \in [Hosts -> SUBSET Present] /\ shaken \subseteq Hosts

\* A host with one connection of each priority gets on both exactly the streams it
\* has subscribed to on either, as long as its connections are not changed while
\* it has subscriptions.
Paired ==
    \A h \in Hosts \ shaken : \A c \in Of(h) : \A id \in Ids : Reaches(c, id) <=> id \in want[h]

\* Both at once: what CCT_DATA_SUB and CCT_DATA_UNSUB keep in the tables.
SubsSound == TypeOK /\ Paired

\* A connection is freed by the timer only after MaxProbes + 1 ticks in a row that
\* have found the link down with no heartbeat between them: the counter is exact.
ProbesExact == \A c \in Connected : probes[c] = down[c]

\* The same, of a behaviour.
AlwaysExact == []ProbesExact

\* When the link stays down every connection is freed.
DownFreed == <>[]~link => <>[](list = <<>>)

\* What the comment says: both connections of a host are subscribed.
BothSubscribed ==
    \A c, d \in Connected :
        (host[c] = host[d] /\ Of(host[c]) = {c, d} /\ prio[c] # prio[d]) =>
            \A id \in Ids : Reaches(c, id) => Reaches(d, id)
=============================================================================
