-------------------------- MODULE ConfigStoreProofs --------------------------
(***************************************************************************)
(* Proofs about ConfigStore, for any interfaces, addresses, ports, slots   *)
(* and any number of requests, kills and updates. The invariant says, for  *)
(* every point of a request at which the process may be killed, how the    *)
(* memory, the tree, the file, the addresses and the servers are related,  *)
(* and which part of them is ahead of what has been answered. Then about   *)
(* RadioParams, the parameters of the radio kept in the same memory (what  *)
(* was accepted last is what the field of the configuration holds, in the  *)
(* width of that field), and about FileRecord, the recordings and          *)
(* playbacks the commands start, for any number of threads and descriptors *)
(* (a recording that has lost its name is cancelled, and a descriptor      *)
(* belongs to one thread), and about HttpFile, the files of any length a   *)
(* request gets (what is left of the range follows what has gone). Each is *)
(* proved alone and as a part of MCCommands.                               *)
(***************************************************************************)
EXTENDS MCCommands, Integers, Sequences, WellFoundedInduction, TLAPS

MemType == [port : [Ifs -> Ports], on : [Slots -> {0, 1}], addr : [Ifs -> AddrRecs]]

NetType == [Devs -> [ip : Addrs, mask : Addrs, gw : Addrs \cup {NoRoute}]]

ReqType == [if : Names \cup {None}, ip : Addrs \cup {Absent}, mask : Addrs \cup {Absent},
            gw : Addrs \cup {Absent}, port : Ports \cup {Absent},
            slot : ValidSlots \cup {None}, on : {0, 1}, reboot : BOOLEAN]

GhostType == [cut : BOOLEAN, unsaved : BOOLEAN, refused : SUBSET (Names \cup {None}),
              port : [Ifs -> Ports], on : [Slots -> {0, 1}], open : ReqType]

Saving == {"open", "write", "answer"}

\* The types, and what there is in each state of the process: a handler only
\* while it is up or boots, a memory only while it is up, a request only while
\* it is handled.
TypeInv ==
    /\ run \in {"down", "boot", "up", "dead"}
    /\ pc \in {"idle", "ip", "netmask", "gateway", "port"} \cup Saving
    /\ run \in {"down", "dead"} => pc = "idle"
    /\ run = "boot" => pc \in Saving
    /\ mem \in IF run = "up" THEN MemType ELSE {None}
    /\ tree \in IF run \in {"boot", "up"} THEN Trees ELSE {None}
    /\ file \in Trees \cup {Empty}
    /\ net \in NetType
    /\ listen \in IF run = "up" THEN [Ifs \cap Devs -> [ip : Addrs, port : Ports]] ELSE {None}
    /\ req \in ReqType
    /\ pc = "idle" \/ run # "up" => req = NoReq
    /\ ans \in {"none", "ok", "reboot", "parse_err", "execmd_err"}
    /\ left \in [reqs : Nat, ends : Nat, updates : Nat]
    /\ version \in Nat /\ version + left.updates = MaxUpdates
    /\ ghost \in GhostType

\* The file is cut off only while it is written, or for good.
CutInv ==
    /\ pc = "write" => file = Empty
    /\ (pc # "write" /\ file = Empty) \/ run = "dead" => ghost.cut

\* What is saved is the memory.
SaveInv ==
    /\ run = "up" => tree.port = mem.port /\ tree.on = mem.on
    /\ run \in {"boot", "up"} /\ pc \notin {"open", "write"} /\ ~ghost.unsaved => file = tree

\* The memory has the addresses of the interfaces, and the servers are where the
\* memory says, unless the request will end with the exit or has been refused.
NetInv ==
    run = "up" =>
        \A i \in Ifs \cap Devs :
            /\ mem.addr[i].ip = net[i].ip /\ mem.addr[i].mask = net[i].mask
            /\ \/ listen[i].port = mem.port[i]
               \/ req.if = i /\ req.reboot /\ pc \in Saving
            /\ \/ listen[i].ip = net[i].ip
               \/ i \in ghost.refused
               \/ req.if = i /\ req.reboot

\* The fields of the request that have been taken are set.
DoneInv ==
    /\ pc = "ip" => req.ip = Absent
    /\ pc \in {"ip", "netmask"} => req.mask = Absent
    /\ pc \in {"ip", "netmask", "gateway"} => req.gw = Absent
    /\ pc \notin Saving => req.port = Absent /\ req.slot = None
    /\ run = "up" /\ req.if \in Devs =>
          /\ req.ip # Absent => net[req.if].ip = req.ip
          /\ req.mask # Absent => net[req.if].mask = req.mask
          /\ req.gw # Absent => \/ net[req.if].gw = req.gw
                                \/ \E i \in Ifs : mem.addr[i].gw = req.gw
    /\ run = "up" /\ req.port # Absent /\ req.if \in Ifs => mem.port[req.if] = req.port

\* Tree or file t has what was promised, or what was asked for last and not
\* answered.
Kept(t) ==
    /\ \A i \in Ifs : \/ t.port[i] = ghost.port[i]
                      \/ ghost.open.if = i /\ t.port[i] = ghost.open.port
    /\ \A s \in Slots : \/ t.on[s] = ghost.on[s]
                        \/ ghost.open.slot = s /\ t.on[s] = ghost.open.on

\* The memory is what was promised, once the request has reached its save
\* together with what it asks for; the file follows, and survives the process.
PromiseInv ==
    /\ run = "up" /\ pc \notin Saving => mem.port = ghost.port /\ mem.on = ghost.on
    /\ run = "up" /\ pc \in Saving =>
          mem.port = Promised(ghost, req).port /\ mem.on = Promised(ghost, req).on
    /\ run = "up" /\ pc = "open" /\ ~ghost.unsaved /\ file # Empty =>
          file.port = ghost.port /\ file.on = ghost.on
    /\ run = "boot" => Kept(tree)
    /\ run \in {"down", "boot"} /\ ~ghost.unsaved /\ file # Empty => Kept(file)

Inv == TypeInv /\ CutInv /\ SaveInv /\ NetInv /\ DoneInv /\ PromiseInv
-----------------------------------------------------------------------------
(* The operators.                                                            *)

\* The request of nobody is a request.
LEMMA NoReqFacts ==
    /\ NoReq \in ReqType /\ NoReq.if = None /\ NoReq.slot = None /\ NoReq.on = 0 /\ ~NoReq.reboot
    /\ NoReq.ip = Absent /\ NoReq.mask = Absent /\ NoReq.gw = Absent /\ NoReq.port = Absent
BY DEF NoReq, ReqType

\* Nothing is loaded but addresses, and those of a device are its own.
LEMMA LoadsFacts ==
    ASSUME NEW i, NEW os, NEW r \in Loads(i, os)
    PROVE  /\ r \in AddrRecs
           /\ i \in Devs => r.ip = os[i].ip /\ r.mask = os[i].mask
BY DEF Loads

\* config_load_network sets the addresses of one interface in the memory.
LEMMA LoadNetworkFacts ==
    ASSUME mem \in MemType, NEW n, NEW os, ConfigLoadNetwork(n, os)
    PROVE  /\ mem' \in MemType /\ mem'.port = mem.port /\ mem'.on = mem.on
           /\ \A i \in Ifs : i # n => mem'.addr[i] = mem.addr[i]
           /\ n \in Ifs \cap Devs => mem'.addr[n].ip = os[n].ip /\ mem'.addr[n].mask = os[n].mask
<1>1. CASE n \notin Ifs
  BY <1>1 DEF ConfigLoadNetwork
<1>2. CASE n \in Ifs
  <2>1. PICK r \in Loads(n, os) : mem' = [mem EXCEPT !.addr[n] = r]
    BY <1>2 DEF ConfigLoadNetwork
  <2>2. r \in AddrRecs /\ (n \in Devs => r.ip = os[n].ip /\ r.mask = os[n].mask)
    BY LoadsFacts
  <2>3. mem.addr \in [Ifs -> AddrRecs]
    BY DEF MemType
  <2>4. PICK a : a = [mem.addr EXCEPT ![n] = r]
    OBVIOUS
  <2>5. /\ a \in [Ifs -> AddrRecs] /\ a[n] = r
        /\ \A i \in Ifs : i # n => a[i] = mem.addr[i]
    BY <1>2, <2>2, <2>3, <2>4
  <2>6. mem' = [mem EXCEPT !.addr = a]
    BY <2>1, <2>4
  <2>7. mem' \in MemType /\ mem'.port = mem.port /\ mem'.on = mem.on /\ mem'.addr = a
    BY <2>5, <2>6 DEF MemType
  <2> QED
    BY <2>2, <2>5, <2>7
<1> QED
  BY <1>1, <1>2

\* config_set_port and config_set_link_switch change one entry.
LEMMA SaveFacts ==
    ASSUME NEW m \in MemType, NEW t \in Trees
    PROVE  LET u == JsonWriteConfigParam(t, m)
           IN  u \in Trees /\ u.port = m.port /\ u.on = m.on
BY DEF JsonWriteConfigParam, Trees, MemType

\* What a request promises.
LEMMA PromisedFacts ==
    ASSUME NEW g \in GhostType, NEW r \in ReqType
    PROVE  /\ Promised(g, r) \in GhostType
           /\ Promised(g, r).cut = g.cut /\ Promised(g, r).unsaved = g.unsaved
           /\ Promised(g, r).refused = g.refused /\ Promised(g, r).open = g.open
           /\ Promised(g, r).port = IF r.port = Absent \/ r.if \notin Ifs THEN g.port
                                    ELSE [g.port EXCEPT ![r.if] = r.port]
           /\ Promised(g, r).on = IF r.slot \notin Slots THEN g.on
                                  ELSE [g.on EXCEPT ![r.slot] = r.on]
<1>1. PICK p : p = IF r.port = Absent \/ r.if \notin Ifs THEN g.port
                   ELSE [g.port EXCEPT ![r.if] = r.port]
  OBVIOUS
<1>2. PICK o : o = IF r.slot \notin Slots THEN g.on ELSE [g.on EXCEPT ![r.slot] = r.on]
  OBVIOUS
<1>3. g.port \in [Ifs -> Ports] /\ g.on \in [Slots -> {0, 1}]
  BY DEF GhostType
<1>4. r.port \in Ports \cup {Absent} /\ r.on \in {0, 1}
  BY DEF ReqType
<1>5. p \in [Ifs -> Ports]
  BY <1>1, <1>3, <1>4
<1>6. o \in [Slots -> {0, 1}]
  BY <1>2, <1>3, <1>4
<1>7. Promised(g, r) = [g EXCEPT !.port = p, !.on = o]
  BY <1>1, <1>2 DEF Promised
<1>8. [g EXCEPT !.port = p, !.on = o] \in GhostType
  BY <1>5, <1>6 DEF GhostType
<1>9. g = [cut |-> g.cut, unsaved |-> g.unsaved, refused |-> g.refused,
           port |-> g.port, on |-> g.on, open |-> g.open]
  BY DEF GhostType
<1>10. LET q == [g EXCEPT !.port = p, !.on = o]
       IN  q.cut = g.cut /\ q.unsaved = g.unsaved /\ q.refused = g.refused
           /\ q.open = g.open /\ q.port = p /\ q.on = o
  BY <1>9
<1> QED
  BY <1>1, <1>2, <1>7, <1>8, <1>10

\* It depends on what was promised before.
LEMMA PromisedSame ==
    ASSUME NEW g \in GhostType, NEW h \in GhostType, NEW r \in ReqType,
           h.port = g.port, h.on = g.on
    PROVE  Promised(h, r).port = Promised(g, r).port /\ Promised(h, r).on = Promised(g, r).on
<1>1. /\ Promised(g, r).port = IF r.port = Absent \/ r.if \notin Ifs THEN g.port
                                ELSE [g.port EXCEPT ![r.if] = r.port]
      /\ Promised(g, r).on = IF r.slot \notin Slots THEN g.on ELSE [g.on EXCEPT ![r.slot] = r.on]
  BY PromisedFacts, Zenon
<1>2. /\ Promised(h, r).port = IF r.port = Absent \/ r.if \notin Ifs THEN h.port
                                ELSE [h.port EXCEPT ![r.if] = r.port]
      /\ Promised(h, r).on = IF r.slot \notin Slots THEN h.on ELSE [h.on EXCEPT ![r.slot] = r.on]
  BY PromisedFacts, Zenon
<1> QED
  BY <1>1, <1>2, Zenon
-----------------------------------------------------------------------------
(* Start-up and the end of the process.                                      *)

\* json_read_config_file finds nothing to parse.
LEMMA ReadFails == Inv /\ JsonReadFails => Inv'
<1> SUFFICES ASSUME TypeInv, CutInv, SaveInv, NetInv, DoneInv, PromiseInv, JsonReadFails PROVE Inv'
  BY DEF Inv
<1>1. TypeInv'
  BY DEF JsonReadFails, TypeInv
<1>2. CutInv'
  BY DEF JsonReadFails, TypeInv, CutInv
<1>3. SaveInv' /\ NetInv' /\ PromiseInv'
  BY DEF JsonReadFails, SaveInv, NetInv, PromiseInv, TypeInv
<1>4. DoneInv'
  BY DEF JsonReadFails, DoneInv
<1> QED
  BY <1>1, <1>2, <1>3, <1>4 DEF Inv

\* The tree is read from the file.
LEMMA ReadFile == Inv /\ JsonReadFile => Inv'
<1> SUFFICES ASSUME TypeInv, CutInv, SaveInv, NetInv, DoneInv, PromiseInv, JsonReadFile PROVE Inv'
  BY DEF Inv
<1>1. /\ run = "down" /\ run' = "boot" /\ file \in Trees /\ file' = file /\ pc = "idle"
      /\ version \in Nat /\ version <= MaxUpdates /\ ghost \in GhostType
      /\ mem' = mem /\ net' = net /\ listen' = listen /\ req' = req /\ ans' = ans
      /\ version' = version /\ left' = left
  BY ConfigAssumption DEF JsonReadFile, TypeInv
<1>2. /\ tree' \in Trees /\ tree'.port = file.port /\ tree'.on = file.on /\ tree'.ver = version
      /\ file.ver = version => tree' = file
  BY <1>1, ConfigAssumption DEF JsonReadFile, Trees
<1>3. pc' = IF file.ver = version THEN "answer" ELSE "open"
  BY DEF JsonReadFile
<1>4. /\ ghost' \in GhostType /\ ~ghost'.unsaved /\ ghost'.cut = ghost.cut /\ ghost'.open = ghost.open
      /\ ghost.unsaved => ghost'.port = file.port /\ ghost'.on = file.on
      /\ ~ghost.unsaved => ghost' = ghost
  <2>1. file.port \in [Ifs -> Ports] /\ file.on \in [Slots -> {0, 1}]
    BY <1>1 DEF Trees
  <2> QED
    BY <1>1, <2>1 DEF JsonReadFile, GhostType
<1>5. TypeInv'
  BY <1>1, <1>2, <1>3, <1>4 DEF TypeInv, Saving
<1>6. CutInv'
  BY <1>1, <1>3, EmptyAssumption DEF CutInv
<1>7. SaveInv' /\ NetInv'
  BY <1>1, <1>2, <1>3 DEF SaveInv, NetInv
<1>8. DoneInv'
  BY <1>1, <1>3, NoReqFacts DEF DoneInv, TypeInv, Saving
<1>9. PromiseInv'
  <2>1. Kept(file)'
    BY <1>1, <1>4, EmptyAssumption DEF PromiseInv, Kept
  <2>2. Kept(tree)'
    BY <1>1, <1>2, <2>1 DEF Kept
  <2> QED
    BY <1>1, <2>1, <2>2 DEF PromiseInv
<1> QED
  BY <1>5, <1>6, <1>7, <1>8, <1>9 DEF Inv

\* The memory is built and the servers listen.
LEMMA InitConfig == Inv /\ ConfigInit => Inv'
<1> SUFFICES ASSUME TypeInv, CutInv, SaveInv, NetInv, DoneInv, PromiseInv, ConfigInit PROVE Inv'
  BY DEF Inv
<1>1. /\ run = "boot" /\ pc = "answer" /\ run' = "up" /\ pc' = "idle" /\ ans' = "none"
      /\ tree \in Trees /\ net \in NetType /\ ghost \in GhostType /\ req = NoReq
      /\ tree' = tree /\ file' = file /\ net' = net /\ req' = req /\ version' = version /\ left' = left
  BY DEF ConfigInit, TypeInv
<1>2. PICK a \in [Ifs -> UNION {Loads(i, net) : i \in Ifs}] :
          /\ \A i \in Ifs : a[i] \in Loads(i, net)
          /\ mem' = [port |-> tree.port, on |-> tree.on, addr |-> a]
  BY DEF ConfigInit
<1>3. a \in [Ifs -> AddrRecs] /\ \A i \in Ifs \cap Devs : a[i].ip = net[i].ip /\ a[i].mask = net[i].mask
  BY <1>2, LoadsFacts
<1>4. tree.port \in [Ifs -> Ports] /\ tree.on \in [Slots -> {0, 1}]
  BY <1>1 DEF Trees
<1>5. mem' \in MemType /\ mem'.port = tree.port /\ mem'.on = tree.on /\ mem'.addr = a
  BY <1>2, <1>3, <1>4 DEF MemType
<1>6. /\ listen' \in [Ifs \cap Devs -> [ip : Addrs, port : Ports]]
      /\ \A i \in Ifs \cap Devs : listen'[i].ip = net[i].ip /\ listen'[i].port = tree.port[i]
  <2>1. listen' = [i \in Ifs \cap Devs |-> [ip |-> net[i].ip, port |-> tree.port[i]]]
    BY DEF ConfigInit
  <2>2. \A i \in Ifs \cap Devs : net[i].ip \in Addrs /\ tree.port[i] \in Ports
    BY <1>1, <1>4 DEF NetType
  <2> QED
    BY <2>1, <2>2
<1>7. /\ ghost' \in GhostType /\ ghost'.cut = ghost.cut /\ ghost'.unsaved = ghost.unsaved
      /\ ghost'.port = tree.port /\ ghost'.on = tree.on
  BY <1>1, <1>4, NoReqFacts DEF ConfigInit, GhostType
<1>8. TypeInv'
  BY <1>1, <1>5, <1>6, <1>7 DEF TypeInv
<1>9. CutInv'
  BY <1>1, <1>7 DEF CutInv
<1>10. SaveInv'
  BY <1>1, <1>5, <1>7 DEF SaveInv
<1>11. NetInv'
  BY <1>1, <1>3, <1>5, <1>6 DEF NetInv
<1>12. DoneInv'
  BY <1>1, NoReqFacts DEF DoneInv, Saving
<1>13. PromiseInv'
  BY <1>1, <1>5, <1>7 DEF PromiseInv, Saving
<1> QED
  BY <1>8, <1>9, <1>10, <1>11, <1>12, <1>13 DEF Inv

\* Of a request that is cut short the file has all or nothing.
LEMMA KilledFacts == Inv /\ Killed => Inv'
<1> SUFFICES ASSUME TypeInv, CutInv, SaveInv, NetInv, DoneInv, PromiseInv, Killed PROVE Inv'
  BY DEF Inv
<1>1. /\ run \in {"up", "boot"} /\ run' = "down" /\ pc' = "idle" /\ req' = NoReq /\ ans' = "none"
      /\ mem' = None /\ tree' = None /\ listen' = None /\ file' = file /\ net' = net
      /\ version' = version /\ req \in ReqType /\ ghost \in GhostType /\ file \in Trees \cup {Empty}
  BY DEF Killed, TypeInv
<1>2. left' \in [reqs : Nat, ends : Nat, updates : Nat] /\ left'.updates = left.updates
  BY DEF Killed, TypeInv
<1>3. /\ ghost' \in GhostType /\ ghost'.cut = (ghost.cut \/ pc = "write")
      /\ ghost'.unsaved = ghost.unsaved /\ ghost'.port = ghost.port /\ ghost'.on = ghost.on
      /\ ghost'.open = IF run = "up" THEN req ELSE ghost.open
  BY <1>1 DEF Killed, GhostType
<1>4. TypeInv'
  BY <1>1, <1>2, <1>3, NoReqFacts DEF TypeInv
<1>5. CutInv'
  BY <1>1, <1>3 DEF CutInv
<1>6. SaveInv' /\ NetInv'
  BY <1>1 DEF SaveInv, NetInv
<1>7. DoneInv'
  BY <1>1, NoReqFacts DEF DoneInv, Saving
<1>8. ASSUME ~ghost.unsaved, file # Empty PROVE Kept(file)'
  <2>1. pc # "write"
    BY <1>8 DEF CutInv
  <2>2. CASE run = "boot"
    BY <1>1, <1>3, <1>8, <2>2 DEF PromiseInv, Kept
  <2>3. CASE run = "up" /\ pc # "answer"
    <3>1. file.port = ghost.port /\ file.on = ghost.on
      BY <1>8, <2>1, <2>3 DEF PromiseInv, SaveInv, Saving
    <3> QED
      BY <1>1, <1>3, <3>1 DEF Kept
  <2>4. CASE run = "up" /\ pc = "answer"
    <3>1. file.port = Promised(ghost, req).port /\ file.on = Promised(ghost, req).on
      BY <1>8, <2>4 DEF PromiseInv, SaveInv, Saving
    <3>2. ghost.port \in [Ifs -> Ports] /\ ghost.on \in [Slots -> {0, 1}]
      BY <1>1 DEF GhostType
    <3>p. /\ file.port = IF req.port = Absent \/ req.if \notin Ifs THEN ghost.port
                         ELSE [ghost.port EXCEPT ![req.if] = req.port]
          /\ file.on = IF req.slot \notin Slots THEN ghost.on
                       ELSE [ghost.on EXCEPT ![req.slot] = req.on]
      BY <1>1, <3>1, PromisedFacts, Zenon
    <3>3. \A i \in Ifs : file.port[i] = ghost.port[i] \/ (req.if = i /\ file.port[i] = req.port)
      BY <3>2, <3>p
    <3>4. \A s \in Slots : file.on[s] = ghost.on[s] \/ (req.slot = s /\ file.on[s] = req.on)
      BY <3>2, <3>p
    <3> QED
      BY <1>1, <1>3, <2>4, <3>3, <3>4 DEF Kept
  <2> QED
    BY <1>1, <2>1, <2>2, <2>3, <2>4
<1>9. PromiseInv'
  BY <1>1, <1>3, <1>8 DEF PromiseInv
<1> QED
  BY <1>4, <1>5, <1>6, <1>7, <1>9 DEF Inv

\* A new version is installed.
LEMMA Updated == Inv /\ Update => Inv'
<1> SUFFICES ASSUME TypeInv, CutInv, SaveInv, NetInv, DoneInv, PromiseInv, Update PROVE Inv'
  BY DEF Inv
<1>1. /\ left' \in [reqs : Nat, ends : Nat, updates : Nat] /\ left'.updates = left.updates - 1
      /\ version' = version + 1 /\ left.updates \in Nat
      /\ UNCHANGED <<run, pc, mem, tree, file, net, listen, req, ans, ghost>>
  BY DEF Update, TypeInv
<1>2. version' \in Nat /\ version' + left'.updates = MaxUpdates
  BY <1>1 DEF TypeInv
<1>3. TypeInv'
  BY <1>1, <1>2 DEF TypeInv
<1>4. CutInv' /\ SaveInv' /\ NetInv'
  BY <1>1 DEF CutInv, SaveInv, NetInv
<1>5. DoneInv'
  BY <1>1 DEF DoneInv
<1>6. PromiseInv'
  BY <1>1 DEF PromiseInv, Kept
<1> QED
  BY <1>3, <1>4, <1>5, <1>6 DEF Inv
-----------------------------------------------------------------------------
(* The save and the answer.                                                  *)

\* The open is refused.
LEMMA OpenRefused == Inv /\ OpenFails => Inv'
<1> SUFFICES ASSUME TypeInv, CutInv, SaveInv, NetInv, DoneInv, PromiseInv, OpenFails PROVE Inv'
  BY DEF Inv
<1>1. /\ pc = "open" /\ pc' = "answer" /\ ghost \in GhostType
      /\ UNCHANGED <<run, mem, tree, file, net, listen, req, ans, version, left>>
  BY DEF OpenFails, TypeInv
<1>2. /\ ghost' \in GhostType /\ ghost'.unsaved /\ ghost'.cut = ghost.cut
      /\ ghost'.port = ghost.port /\ ghost'.on = ghost.on /\ ghost'.open = ghost.open
      /\ ghost'.refused = ghost.refused
  BY <1>1 DEF OpenFails, GhostType
<1>3. TypeInv'
  BY <1>1, <1>2 DEF TypeInv, Saving
<1>4. CutInv' /\ SaveInv'
  BY <1>1, <1>2 DEF CutInv, SaveInv
<1>5. NetInv'
  BY <1>1, <1>2 DEF NetInv, Saving
<1>6. DoneInv'
  BY <1>1 DEF DoneInv, Saving
<1>7. PromiseInv'
  <2>1. req \in ReqType
    BY DEF TypeInv
  <2>2. /\ Promised(ghost', req).port = Promised(ghost, req).port
        /\ Promised(ghost', req).on = Promised(ghost, req).on
    BY <1>1, <1>2, <2>1, PromisedSame, Zenon
  <2> QED
    BY <1>1, <1>2, <2>2 DEF PromiseInv, Kept, Saving
<1> QED
  BY <1>3, <1>4, <1>5, <1>6, <1>7 DEF Inv

\* fopen cuts the file to nothing.
LEMMA OpenCut == Inv /\ OpenCuts => Inv'
<1> SUFFICES ASSUME TypeInv, CutInv, SaveInv, NetInv, DoneInv, PromiseInv, OpenCuts PROVE Inv'
  BY DEF Inv
<1>1. /\ pc = "open" /\ pc' = "write" /\ file' = Empty
      /\ UNCHANGED <<run, mem, tree, net, listen, req, ans, version, left, ghost>>
  BY DEF OpenCuts
<1>2. run \in {"boot", "up"}
  BY <1>1 DEF TypeInv
<1>3. TypeInv'
  BY <1>1 DEF TypeInv, Saving
<1>4. CutInv' /\ SaveInv'
  BY <1>1, <1>2 DEF CutInv, SaveInv
<1>5. NetInv'
  BY <1>1 DEF NetInv, Saving
<1>6. DoneInv'
  BY <1>1 DEF DoneInv, Saving
<1>7. PromiseInv'
  BY <1>1 DEF PromiseInv, Kept, Saving
<1> QED
  BY <1>3, <1>4, <1>5, <1>6, <1>7 DEF Inv

\* The text of the tree is written.
LEMMA Wrote == Inv /\ WriteFile => Inv'
<1> SUFFICES ASSUME TypeInv, CutInv, SaveInv, NetInv, DoneInv, PromiseInv, WriteFile PROVE Inv'
  BY DEF Inv
<1>1. /\ pc = "write" /\ pc' = "answer" /\ file' = tree /\ ghost \in GhostType
      /\ UNCHANGED <<run, mem, tree, net, listen, req, ans, version, left>>
  BY DEF WriteFile, TypeInv
<1>2. run \in {"boot", "up"} /\ tree \in Trees /\ tree # Empty
  BY <1>1, EmptyAssumption DEF TypeInv
<1>3. /\ ghost' \in GhostType /\ ~ghost'.unsaved /\ ghost'.cut = ghost.cut
      /\ ghost'.port = ghost.port /\ ghost'.on = ghost.on /\ ghost'.open = ghost.open
      /\ ghost'.refused = ghost.refused
  BY <1>1 DEF WriteFile, GhostType
<1>4. TypeInv'
  BY <1>1, <1>2, <1>3 DEF TypeInv, Saving
<1>5. CutInv' /\ SaveInv'
  BY <1>1, <1>2 DEF CutInv, SaveInv
<1>6. NetInv'
  BY <1>1, <1>3 DEF NetInv, Saving
<1>7. DoneInv'
  BY <1>1 DEF DoneInv, Saving
<1>8. PromiseInv'
  <2>1. req \in ReqType
    BY DEF TypeInv
  <2>2. /\ Promised(ghost', req).port = Promised(ghost, req).port
        /\ Promised(ghost', req).on = Promised(ghost, req).on
    BY <1>1, <1>3, <2>1, PromisedSame, Zenon
  <2> QED
    BY <1>1, <1>2, <1>3, <2>2 DEF PromiseInv, Kept, Saving
<1> QED
  BY <1>4, <1>5, <1>6, <1>7, <1>8 DEF Inv

\* The request is answered, and the process perhaps exits.
LEMMA Answered == Inv /\ Answer => Inv'
<1> SUFFICES ASSUME TypeInv, CutInv, SaveInv, NetInv, DoneInv, PromiseInv, Answer PROVE Inv'
  BY DEF Inv
<1>1. /\ run = "up" /\ pc = "answer" /\ pc' = "idle" /\ req' = NoReq
      /\ UNCHANGED <<file, net, version, left>> /\ ghost \in GhostType /\ req \in ReqType
      /\ req.reboot => /\ ans' = "reboot" /\ run' = "down"
                       /\ mem' = None /\ tree' = None /\ listen' = None
      /\ ~req.reboot => ans' = "ok" /\ UNCHANGED <<run, mem, tree, listen>>
  BY DEF Answer, TypeInv
<1>2. /\ ghost' \in GhostType /\ ghost'.unsaved = ghost.unsaved /\ ghost'.cut = ghost.cut
      /\ ghost'.port = mem.port /\ ghost'.on = mem.on /\ ghost'.refused = ghost.refused
  BY <1>1, PromisedFacts DEF Answer, PromiseInv, Saving
<1>3. TypeInv'
  <2>1. CASE req.reboot
    BY <1>1, <1>2, <2>1, NoReqFacts DEF TypeInv
  <2>2. CASE ~req.reboot
    BY <1>1, <1>2, <2>2, NoReqFacts DEF TypeInv
  <2> QED
    BY <2>1, <2>2
<1>4. CutInv'
  BY <1>1, <1>2 DEF CutInv
<1>5. SaveInv'
  BY <1>1, <1>2 DEF SaveInv
<1>6. NetInv'
  BY <1>1, <1>2 DEF NetInv
<1>7. DoneInv'
  BY <1>1, NoReqFacts DEF DoneInv, Saving
<1>8. ~ghost.unsaved => file.port = mem.port /\ file.on = mem.on
  BY <1>1 DEF SaveInv
<1>9. PromiseInv'
  BY <1>1, <1>2, <1>8 DEF PromiseInv, Kept, Saving
<1> QED
  BY <1>3, <1>4, <1>5, <1>6, <1>7, <1>9 DEF Inv
-----------------------------------------------------------------------------
(* The requests.                                                             *)

Fields == {"ip", "netmask", "gateway"}

\* The memory has the addresses and masks of the interfaces.
Fresh(m, os) ==
    \A i \in Ifs \cap Devs : m.addr[i].ip = os[i].ip /\ m.addr[i].mask = os[i].mask

\* A field has been refused; the fields before it stay set.
LEMMA FieldRefused ==
    ASSUME Inv, pc \in Fields, NEW code \in {"parse_err", "execmd_err"}, Refuse(code),
           net' = net, mem' \in MemType, mem'.port = mem.port, mem'.on = mem.on, Fresh(mem', net),
           UNCHANGED <<run, tree, file, listen, version, left>>
    PROVE  Inv'
<1> USE DEF Inv
<1>1. /\ run = "up" /\ req \in ReqType /\ ghost \in GhostType
      /\ pc \notin Saving /\ pc # "idle"
  BY DEF TypeInv, Fields, Saving
<1>2. ans' = code /\ pc' = "idle" /\ req' = NoReq
  BY DEF Refuse
<1>3. /\ ghost' \in GhostType /\ ghost'.refused = ghost.refused \cup {req.if}
      /\ ghost'.cut = ghost.cut /\ ghost'.unsaved = ghost.unsaved
      /\ ghost'.port = ghost.port /\ ghost'.on = ghost.on
  <2>1. req.if \in Names \cup {None}
    BY <1>1 DEF ReqType
  <2> QED
    BY <1>1, <2>1 DEF Refuse, GhostType
<1>4. TypeInv'
  BY <1>1, <1>2, <1>3, NoReqFacts DEF TypeInv
<1>5. CutInv'
  BY <1>1, <1>2, <1>3 DEF CutInv, Fields
<1>6. SaveInv'
  BY <1>1, <1>2, <1>3 DEF SaveInv, Fields
<1>7. NetInv'
  BY <1>1, <1>2, <1>3 DEF NetInv, Fresh
<1>8. DoneInv'
  BY <1>2, NoReqFacts DEF DoneInv, Saving
<1>9. PromiseInv'
  BY <1>1, <1>2, <1>3 DEF PromiseInv, Saving
<1> QED
  BY <1>4, <1>5, <1>6, <1>7, <1>8, <1>9

\* A field has been taken.
LEMMA FieldTaken ==
    ASSUME Inv, pc \in Fields, pc' \in {"netmask", "gateway", "port"},
           UNCHANGED <<run, tree, file, listen, version, left, ans, ghost>>,
           req' \in ReqType, req'.if = req.if, req.reboot => req'.reboot, DoneInv',
           net' \in NetType, mem' \in MemType, mem'.port = mem.port, mem'.on = mem.on,
           Fresh(mem', net'),
           \A i \in Ifs \cap Devs : net'[i].ip = net[i].ip \/ (req'.if = i /\ req'.reboot)
    PROVE  Inv'
<1> USE DEF Inv
<1>1. run = "up" /\ pc \notin Saving /\ pc # "idle" /\ pc' \notin Saving /\ pc' # "idle"
  BY DEF TypeInv, Fields, Saving
<1>2. TypeInv'
  BY <1>1 DEF TypeInv
<1>3. CutInv'
  BY <1>1 DEF CutInv, Fields
<1>4. SaveInv'
  BY <1>1 DEF SaveInv, Fields
<1>5. NetInv'
  BY <1>1 DEF NetInv, Fresh
<1>6. PromiseInv'
  BY <1>1 DEF PromiseInv, Saving
<1> QED
  BY <1>2, <1>3, <1>4, <1>5, <1>6

\* The script has set a field, and the addresses have been read again.
LEMMA AddressSet ==
    ASSUME Inv, run = "up", NEW n \in Devs, NEW f \in {"ip", "mask", "gw"}, NEW v \in Addrs,
           net' = [net EXCEPT ![n][f] = v], ConfigLoadNetwork(n, net')
    PROVE  /\ net' \in NetType /\ net'[n][f] = v
           /\ \A g \in {"ip", "mask", "gw"} : g # f => net'[n][g] = net[n][g]
           /\ \A d \in Devs : d # n => net'[d] = net[d]
           /\ mem' \in MemType /\ mem'.port = mem.port /\ mem'.on = mem.on /\ Fresh(mem', net')
<1>t. net \in NetType /\ mem \in MemType
  BY DEF Inv, TypeInv
<1>1. net[n] \in [ip : Addrs, mask : Addrs, gw : Addrs \cup {NoRoute}]
  BY <1>t DEF NetType
<1>2. PICK r : r = [net[n] EXCEPT ![f] = v]
  OBVIOUS
<1>3. /\ r \in [ip : Addrs, mask : Addrs, gw : Addrs \cup {NoRoute}]
      /\ r[f] = v /\ \A g \in {"ip", "mask", "gw"} : g # f => r[g] = net[n][g]
  <2>1. CASE f = "ip"
    BY <1>1, <1>2, <2>1
  <2>2. CASE f = "mask"
    BY <1>1, <1>2, <2>2
  <2>3. CASE f = "gw"
    BY <1>1, <1>2, <2>3
  <2> QED
    BY <2>1, <2>2, <2>3
<1>4. net' = [net EXCEPT ![n] = r]
  BY <1>2
<1>5. net' \in NetType /\ net'[n] = r /\ \A d \in Devs : d # n => net'[d] = net[d]
  BY <1>t, <1>3, <1>4 DEF NetType
<1>6. /\ mem' \in MemType /\ mem'.port = mem.port /\ mem'.on = mem.on
      /\ \A i \in Ifs : i # n => mem'.addr[i] = mem.addr[i]
      /\ n \in Ifs \cap Devs => mem'.addr[n].ip = net'[n].ip /\ mem'.addr[n].mask = net'[n].mask
  BY <1>t, LoadNetworkFacts
<1>7. Fresh(mem, net)
  BY DEF Inv, NetInv, Fresh
<1>8. Fresh(mem', net')
  BY <1>5, <1>6, <1>7 DEF Fresh
<1> QED
  BY <1>3, <1>5, <1>6, <1>8

\* The addresses have been read again although the script failed.
LEMMA AddressKept ==
    ASSUME Inv, run = "up", NEW n \in Devs, net' = net, ConfigLoadNetwork(n, net)
    PROVE  mem' \in MemType /\ mem'.port = mem.port /\ mem'.on = mem.on /\ Fresh(mem', net)
<1>1. mem \in MemType
  BY DEF Inv, TypeInv
<1>2. Fresh(mem, net)
  BY DEF Inv, NetInv, Fresh
<1> QED
  BY <1>1, <1>2, LoadNetworkFacts DEF Fresh

\* Nothing was read or set.
LEMMA AddressSame ==
    ASSUME Inv, run = "up"
    PROVE  mem \in MemType /\ net \in NetType /\ Fresh(mem, net)
BY DEF Inv, TypeInv, NetInv, Fresh

\* The field "ipaddr".
LEMMA IpAddrTaken == ASSUME Inv, NEW v \in Addrs \cup {Absent, Bad}, IpAddr(v) PROVE Inv'
<1> USE DEF Inv
<1>1. /\ pc = "ip" /\ pc \in Fields /\ run = "up" /\ req \in ReqType
      /\ UNCHANGED <<run, tree, file, listen, version, left>>
      /\ mem \in MemType /\ net \in NetType /\ Fresh(mem, net)
  <2>1. pc = "ip" /\ pc \in Fields /\ run = "up" /\ req \in ReqType
    BY DEF IpAddr, TypeInv, Fields, Saving
  <2> QED
    BY <2>1, AddressSame DEF IpAddr
<1>2. CASE v = Bad /\ Refuse("parse_err") /\ UNCHANGED <<mem, net>>
  BY <1>1, <1>2, FieldRefused
<1>3. CASE /\ v = Absent \/ (v \in Addrs /\ MatchIpaddr(req.if, v))
           /\ req' = [req EXCEPT !.ip = v]
           /\ pc' = "netmask" /\ UNCHANGED <<mem, net, ans, ghost>>
  <2>1. /\ req' \in ReqType /\ req'.if = req.if /\ req'.reboot = req.reboot /\ req'.ip = v
        /\ req'.mask = req.mask /\ req'.gw = req.gw /\ req'.port = req.port /\ req'.slot = req.slot
    BY <1>1, <1>3 DEF ReqType
  <2>2. v # Absent /\ req.if \in Devs => net[req.if].ip = v
    BY <1>1, <1>3 DEF MatchIpaddr, Fresh
  <2>3. DoneInv'
    BY <1>1, <1>3, <2>1, <2>2 DEF DoneInv, Saving
  <2> QED
    BY <1>1, <1>3, <2>1, <2>3, FieldTaken
<1>4. ASSUME v \in Addrs, ~MatchIpaddr(req.if, v),
             SetNetaddr(req.if, "ip", v,
                /\ req' = [req EXCEPT !.ip = v, !.reboot = TRUE]
                /\ pc' = "netmask" /\ UNCHANGED <<ans, ghost>>)
      PROVE  Inv'
  <2>1. CASE Refuse("execmd_err") /\ UNCHANGED <<mem, net>>
    BY <1>1, <2>1, FieldRefused
  <2>2. CASE /\ req.if \in Devs /\ UNCHANGED net
             /\ ConfigLoadNetwork(req.if, net) /\ Refuse("execmd_err")
    BY <1>1, <2>2, AddressKept, FieldRefused
  <2>3. CASE /\ req.if \in Devs /\ net' = [net EXCEPT ![req.if]["ip"] = v]
             /\ ConfigLoadNetwork(req.if, net')
             /\ req' = [req EXCEPT !.ip = v, !.reboot = TRUE]
             /\ pc' = "netmask" /\ UNCHANGED <<ans, ghost>>
    <3>1. /\ req' \in ReqType /\ req'.if = req.if /\ req'.reboot /\ req'.ip = v
          /\ req'.mask = req.mask /\ req'.gw = req.gw /\ req'.port = req.port /\ req'.slot = req.slot
      BY <1>1, <1>4, <2>3 DEF ReqType
    <3>2. /\ net' \in NetType /\ net'[req.if].ip = v
          /\ \A d \in Devs : d # req.if => net'[d] = net[d]
          /\ mem' \in MemType /\ mem'.port = mem.port /\ mem'.on = mem.on /\ Fresh(mem', net')
      BY <1>1, <1>4, <2>3, AddressSet
    <3>3. DoneInv'
      BY <1>1, <2>3, <3>1, <3>2 DEF DoneInv, Saving
    <3> QED
      BY <1>1, <2>3, <3>1, <3>2, <3>3, FieldTaken
  <2> QED
    BY <1>4, <2>1, <2>2, <2>3, Zenon DEF SetNetaddr
<1> QED
  BY <1>2, <1>3, <1>4, Zenon DEF IpAddr

\* The field "netmask".
LEMMA NetmaskTaken == ASSUME Inv, NEW v \in Addrs \cup {Absent, Bad}, Netmask(v) PROVE Inv'
<1> USE DEF Inv
<1>1. /\ pc = "netmask" /\ pc \in Fields /\ run = "up" /\ req \in ReqType
      /\ UNCHANGED <<run, tree, file, listen, version, left>>
      /\ mem \in MemType /\ net \in NetType /\ Fresh(mem, net)
  <2>1. pc = "netmask" /\ pc \in Fields /\ run = "up" /\ req \in ReqType
    BY DEF Netmask, TypeInv, Fields, Saving
  <2> QED
    BY <2>1, AddressSame DEF Netmask
<1>2. CASE v = Bad /\ Refuse("parse_err") /\ UNCHANGED <<mem, net>>
  BY <1>1, <1>2, FieldRefused
<1>3. CASE /\ v = Absent \/ (v \in Addrs /\ MatchNetmask(req.if, v))
           /\ req' = [req EXCEPT !.mask = v]
           /\ pc' = "gateway" /\ UNCHANGED <<mem, net, ans, ghost>>
  <2>1. /\ req' \in ReqType /\ req'.if = req.if /\ req'.reboot = req.reboot /\ req'.ip = req.ip
        /\ req'.mask = v /\ req'.gw = req.gw /\ req'.port = req.port /\ req'.slot = req.slot
    BY <1>1, <1>3 DEF ReqType
  <2>2. v # Absent /\ req.if \in Devs => net[req.if].mask = v
    BY <1>1, <1>3 DEF MatchNetmask, Fresh
  <2>3. DoneInv'
    BY <1>1, <1>3, <2>1, <2>2 DEF DoneInv, Saving
  <2> QED
    BY <1>1, <1>3, <2>1, <2>3, FieldTaken
<1>4. ASSUME v \in Addrs, ~MatchNetmask(req.if, v),
             SetNetaddr(req.if, "mask", v,
                /\ req' = [req EXCEPT !.mask = v]
                /\ pc' = "gateway" /\ UNCHANGED <<ans, ghost>>)
      PROVE  Inv'
  <2>1. CASE Refuse("execmd_err") /\ UNCHANGED <<mem, net>>
    BY <1>1, <2>1, FieldRefused
  <2>2. CASE /\ req.if \in Devs /\ UNCHANGED net
             /\ ConfigLoadNetwork(req.if, net) /\ Refuse("execmd_err")
    BY <1>1, <2>2, AddressKept, FieldRefused
  <2>3. CASE /\ req.if \in Devs /\ net' = [net EXCEPT ![req.if]["mask"] = v]
             /\ ConfigLoadNetwork(req.if, net')
             /\ req' = [req EXCEPT !.mask = v]
             /\ pc' = "gateway" /\ UNCHANGED <<ans, ghost>>
    <3>1. /\ req' \in ReqType /\ req'.if = req.if /\ req'.reboot = req.reboot /\ req'.ip = req.ip
          /\ req'.mask = v /\ req'.gw = req.gw /\ req'.port = req.port /\ req'.slot = req.slot
      BY <1>1, <1>4, <2>3 DEF ReqType
    <3>2. /\ net' \in NetType /\ net'[req.if].mask = v /\ net'[req.if].ip = net[req.if].ip
          /\ \A d \in Devs : d # req.if => net'[d] = net[d]
          /\ mem' \in MemType /\ mem'.port = mem.port /\ mem'.on = mem.on /\ Fresh(mem', net')
      BY <1>1, <1>4, <2>3, AddressSet
    <3>3. DoneInv'
      BY <1>1, <2>3, <3>1, <3>2 DEF DoneInv, Saving
    <3> QED
      BY <1>1, <2>3, <3>1, <3>2, <3>3, FieldTaken
  <2> QED
    BY <1>4, <2>1, <2>2, <2>3, Zenon DEF SetNetaddr
<1> QED
  BY <1>2, <1>3, <1>4, Zenon DEF Netmask

\* The field "gateway".
LEMMA GatewayTaken == ASSUME Inv, NEW v \in Addrs \cup {Absent, Bad}, Gateway(v) PROVE Inv'
<1> USE DEF Inv
<1>1. /\ pc = "gateway" /\ pc \in Fields /\ run = "up" /\ req \in ReqType
      /\ UNCHANGED <<run, tree, file, listen, version, left>>
      /\ mem \in MemType /\ net \in NetType /\ Fresh(mem, net)
  <2>1. pc = "gateway" /\ pc \in Fields /\ run = "up" /\ req \in ReqType
    BY DEF Gateway, TypeInv, Fields, Saving
  <2> QED
    BY <2>1, AddressSame DEF Gateway
<1>2. CASE v = Bad /\ Refuse("parse_err") /\ UNCHANGED <<mem, net>>
  BY <1>1, <1>2, FieldRefused
<1>3. CASE /\ v = Absent \/ (v \in Addrs /\ MatchGateway(req.if, v))
           /\ req' = [req EXCEPT !.gw = v]
           /\ pc' = "port" /\ UNCHANGED <<mem, net, ans, ghost>>
  <2>1. /\ req' \in ReqType /\ req'.if = req.if /\ req'.reboot = req.reboot /\ req'.ip = req.ip
        /\ req'.mask = req.mask /\ req'.gw = v /\ req'.port = req.port /\ req'.slot = req.slot
    BY <1>1, <1>3 DEF ReqType
  <2>2. v # Absent => \E i \in Ifs : mem.addr[i].gw = v
    BY <1>3 DEF MatchGateway
  <2>3. DoneInv'
    BY <1>1, <1>3, <2>1, <2>2 DEF DoneInv, Saving
  <2> QED
    BY <1>1, <1>3, <2>1, <2>3, FieldTaken
<1>4. ASSUME v \in Addrs, ~MatchGateway(req.if, v),
             SetNetaddr(req.if, "gw", v,
                /\ req' = [req EXCEPT !.gw = v]
                /\ pc' = "port" /\ UNCHANGED <<ans, ghost>>)
      PROVE  Inv'
  <2>1. CASE Refuse("execmd_err") /\ UNCHANGED <<mem, net>>
    BY <1>1, <2>1, FieldRefused
  <2>2. CASE /\ req.if \in Devs /\ UNCHANGED net
             /\ ConfigLoadNetwork(req.if, net) /\ Refuse("execmd_err")
    BY <1>1, <2>2, AddressKept, FieldRefused
  <2>3. CASE /\ req.if \in Devs /\ net' = [net EXCEPT ![req.if]["gw"] = v]
             /\ ConfigLoadNetwork(req.if, net')
             /\ req' = [req EXCEPT !.gw = v]
             /\ pc' = "port" /\ UNCHANGED <<ans, ghost>>
    <3>1. /\ req' \in ReqType /\ req'.if = req.if /\ req'.reboot = req.reboot /\ req'.ip = req.ip
          /\ req'.mask = req.mask /\ req'.gw = v /\ req'.port = req.port /\ req'.slot = req.slot
      BY <1>1, <1>4, <2>3 DEF ReqType
    <3>2. /\ net' \in NetType /\ net'[req.if].gw = v /\ net'[req.if].ip = net[req.if].ip
          /\ net'[req.if].mask = net[req.if].mask
          /\ \A d \in Devs : d # req.if => net'[d] = net[d]
          /\ mem' \in MemType /\ mem'.port = mem.port /\ mem'.on = mem.on /\ Fresh(mem', net')
      BY <1>1, <1>4, <2>3, AddressSet
    <3>3. DoneInv'
      BY <1>1, <2>3, <3>1, <3>2 DEF DoneInv, Saving
    <3> QED
      BY <1>1, <2>3, <3>1, <3>2, <3>3, FieldTaken
  <2> QED
    BY <1>4, <2>1, <2>2, <2>3, Zenon DEF SetNetaddr
<1> QED
  BY <1>2, <1>3, <1>4, Zenon DEF Gateway

\* A request for an interface begins, or its body cannot be read.
LEMMA NetBegun == ASSUME Inv, NEW n \in Names \cup {NoName}, NetBegin(n) PROVE Inv'
<1> USE DEF Inv
<1>1. /\ run = "up" /\ pc = "idle" /\ req = NoReq
      /\ UNCHANGED <<run, mem, tree, file, net, listen, version, ghost>>
  BY DEF NetBegin, TypeInv
<1>2. left' \in [reqs : Nat, ends : Nat, updates : Nat] /\ left'.updates = left.updates
  BY DEF NetBegin, TypeInv
<1>3. CASE n = NoName
  <2>1. ans' = "parse_err" /\ UNCHANGED <<pc, req>>
    BY <1>3 DEF NetBegin
  <2>2. TypeInv'
    BY <1>1, <1>2, <2>1 DEF TypeInv
  <2>3. CutInv' /\ SaveInv' /\ NetInv'
    BY <1>1, <2>1 DEF CutInv, SaveInv, NetInv
  <2>4. DoneInv' /\ PromiseInv'
    BY <1>1, <2>1 DEF DoneInv, PromiseInv, Kept
  <2> QED
    BY <2>2, <2>3, <2>4
<1>4. CASE n # NoName
  <2>1. req' = [NoReq EXCEPT !.if = n] /\ pc' = "ip" /\ ans' = "none" /\ n \in Names
    BY <1>4 DEF NetBegin
  <2>2. /\ req' \in ReqType /\ req'.if = n /\ req'.slot = None /\ ~req'.reboot
        /\ req'.ip = Absent /\ req'.mask = Absent /\ req'.gw = Absent /\ req'.port = Absent
    BY <2>1 DEF NoReq, ReqType
  <2>3. TypeInv'
    BY <1>1, <1>2, <2>1, <2>2 DEF TypeInv, Saving
  <2>4. CutInv' /\ SaveInv'
    BY <1>1, <2>1 DEF CutInv, SaveInv
  <2>5. NetInv'
    BY <1>1, <2>1, <2>2, NoReqFacts DEF NetInv, Saving
  <2>6. DoneInv'
    BY <1>1, <2>1, <2>2 DEF DoneInv, Saving
  <2>7. PromiseInv'
    BY <1>1, <2>1 DEF PromiseInv, Saving
  <2> QED
    BY <2>3, <2>4, <2>5, <2>6, <2>7
<1> QED
  BY <1>3, <1>4

\* The memory and the tree have been changed, and are saved.
LEMMA SaveBegins ==
    ASSUME Inv, run = "up", pc \notin Saving, pc' = "open", mem' \in MemType,
           tree' = JsonWriteConfigParam(tree, mem'), req' \in ReqType, mem'.addr = mem.addr,
           UNCHANGED <<run, file, net, listen, version, ghost>>
    PROVE  /\ tree' \in Trees /\ CutInv' /\ SaveInv' 
           /\ ~ghost.unsaved => file.port = ghost.port /\ file.on = ghost.on
<1> USE DEF Inv
<1>1. tree \in Trees
  BY DEF TypeInv
<1>2. tree' \in Trees /\ tree'.port = mem'.port /\ tree'.on = mem'.on
  BY <1>1, SaveFacts
<1>3. CutInv'
  BY DEF CutInv, Saving
<1>4. SaveInv'
  BY <1>2 DEF SaveInv
<1>5. ~ghost.unsaved => file.port = ghost.port /\ file.on = ghost.on
  BY DEF SaveInv, PromiseInv, Saving
<1> QED
  BY <1>2, <1>3, <1>4, <1>5

\* The field "port", the last one.
LEMMA PortTaken == ASSUME Inv, NEW v \in Ports \cup {Absent}, Port(v) PROVE Inv'
<1> USE DEF Inv
<1>1. /\ pc = "port" /\ run = "up" /\ req \in ReqType /\ ghost \in GhostType /\ mem \in MemType
      /\ pc \notin Saving /\ req.port = Absent /\ req.slot = None
      /\ UNCHANGED <<run, file, net, listen, ans, version, left, ghost>>
  <2>1. pc = "port" /\ run = "up" /\ pc \notin Saving
    BY DEF Port, TypeInv, Saving
  <2> QED
    BY <2>1 DEF Port, TypeInv, DoneInv
<1>2. mem.port = ghost.port /\ mem.on = ghost.on /\ mem.port \in [Ifs -> Ports]
  BY <1>1 DEF PromiseInv, MemType
<1>n. None \notin Slots
  BY ConfigAssumption
<1>3. CASE v # Absent /\ req.if \in Ifs /\ mem.port[req.if] # v
  <2>1. /\ mem' = [mem EXCEPT !.port[req.if] = v] /\ tree' = JsonWriteConfigParam(tree, mem')
        /\ req' = [req EXCEPT !.port = v, !.reboot = TRUE] /\ pc' = "open"
    BY <1>3 DEF Port
  <2>2. /\ req' \in ReqType /\ req'.if = req.if /\ req'.reboot /\ req'.ip = req.ip
        /\ req'.mask = req.mask /\ req'.gw = req.gw /\ req'.port = v /\ req'.slot = None
    BY <1>1, <1>3, <2>1 DEF ReqType
  <2>3. PICK p : p = [mem.port EXCEPT ![req.if] = v]
    OBVIOUS
  <2>4. p \in [Ifs -> Ports] /\ p[req.if] = v /\ \A i \in Ifs : i # req.if => p[i] = mem.port[i]
    BY <1>2, <1>3, <2>3
  <2>5. mem' = [mem EXCEPT !.port = p]
    BY <2>1, <2>3
  <2>6. mem' \in MemType /\ mem'.port = p /\ mem'.on = mem.on /\ mem'.addr = mem.addr
    BY <1>1, <2>4, <2>5 DEF MemType
  <2>7. /\ tree' \in Trees /\ CutInv' /\ SaveInv'
        /\ ~ghost.unsaved => file.port = ghost.port /\ file.on = ghost.on
    BY <1>1, <2>1, <2>2, <2>6, SaveBegins
  <2>8. TypeInv'
    BY <1>1, <2>1, <2>2, <2>6, <2>7 DEF TypeInv, Saving
  <2>9. NetInv'
    BY <1>1, <2>1, <2>2, <2>4, <2>6 DEF NetInv, Saving
  <2>10. DoneInv'
    BY <1>1, <1>3, <2>1, <2>2, <2>4, <2>6 DEF DoneInv, Saving
  <2>11. /\ Promised(ghost, req').port = [ghost.port EXCEPT ![req'.if] = req'.port]
         /\ Promised(ghost, req').on = ghost.on
    <3>1. req'.port # Absent /\ req'.if \in Ifs /\ req'.slot \notin Slots
      BY <1>n, <1>3, <2>2
    <3>2. /\ Promised(ghost, req').port = IF req'.port = Absent \/ req'.if \notin Ifs THEN ghost.port
                                          ELSE [ghost.port EXCEPT ![req'.if] = req'.port]
          /\ Promised(ghost, req').on = IF req'.slot \notin Slots THEN ghost.on
                                        ELSE [ghost.on EXCEPT ![req'.slot] = req'.on]
      BY <1>1, <2>2, PromisedFacts, Zenon
    <3> QED
      BY <3>1, <3>2, Zenon
  <2>12. PromiseInv'
    <3>1. p = Promised(ghost, req').port
      BY <1>2, <2>2, <2>3, <2>11
    <3> QED
      BY <1>1, <1>2, <2>1, <2>6, <2>7, <2>11, <3>1 DEF PromiseInv, Saving
  <2> QED
    BY <2>7, <2>8, <2>9, <2>10, <2>12
<1>4. CASE ~(v # Absent /\ req.if \in Ifs /\ mem.port[req.if] # v)
  <2>1. req' = [req EXCEPT !.port = v] /\ pc' = "answer" /\ UNCHANGED <<mem, tree>>
    BY <1>4 DEF Port
  <2>2. /\ req' \in ReqType /\ req'.if = req.if /\ req'.reboot = req.reboot /\ req'.ip = req.ip
        /\ req'.mask = req.mask /\ req'.gw = req.gw /\ req'.port = v /\ req'.slot = None
    BY <1>1, <2>1 DEF ReqType
  <2>3. TypeInv'
    BY <1>1, <2>1, <2>2 DEF TypeInv, Saving
  <2>4. CutInv' /\ SaveInv'
    BY <1>1, <2>1 DEF CutInv, SaveInv
  <2>5. NetInv'
    BY <1>1, <2>1, <2>2 DEF NetInv, Saving
  <2>6. DoneInv'
    BY <1>1, <1>4, <2>1, <2>2 DEF DoneInv, Saving
  <2>7. Promised(ghost, req').port = ghost.port /\ Promised(ghost, req').on = ghost.on
    <3>1. req'.slot \notin Slots
      BY <1>n, <2>2
    <3>2. /\ Promised(ghost, req').port = IF req'.port = Absent \/ req'.if \notin Ifs THEN ghost.port
                                          ELSE [ghost.port EXCEPT ![req'.if] = req'.port]
          /\ Promised(ghost, req').on = IF req'.slot \notin Slots THEN ghost.on
                                        ELSE [ghost.on EXCEPT ![req'.slot] = req'.on]
      BY <1>1, <2>2, PromisedFacts, Zenon
    <3>3. ASSUME req'.port # Absent, req'.if \in Ifs
          PROVE  [ghost.port EXCEPT ![req'.if] = req'.port] = ghost.port
      BY <1>2, <1>4, <2>2, <3>3
    <3> QED
      BY <3>1, <3>2, <3>3, Zenon
  <2>8. PromiseInv'
    BY <1>1, <1>2, <2>1, <2>7 DEF PromiseInv, Saving
  <2> QED
    BY <2>3, <2>4, <2>5, <2>6, <2>8
<1> QED
  BY <1>3, <1>4

\* The link switch of a slot.
LEMMA LinkSet == ASSUME Inv, NEW s \in ValidSlots, NEW v \in {0, 1}, LinkcheckSet(s, v) PROVE Inv'
<1> USE DEF Inv
<1>1. /\ run = "up" /\ pc = "idle" /\ req = NoReq /\ pc \notin Saving /\ ghost \in GhostType /\ mem \in MemType
      /\ UNCHANGED <<run, file, net, listen, version, ghost>>
      /\ tree' = JsonWriteConfigParam(tree, mem') /\ pc' = "open" /\ ans' = "none"
  BY DEF LinkcheckSet, TypeInv, Saving
<1>2. left' \in [reqs : Nat, ends : Nat, updates : Nat] /\ left'.updates = left.updates
  BY DEF LinkcheckSet, TypeInv
<1>3. /\ req' \in ReqType /\ req'.if = None /\ req'.slot = s /\ req'.on = v /\ ~req'.reboot
      /\ req'.ip = Absent /\ req'.mask = Absent /\ req'.gw = Absent /\ req'.port = Absent
  <2>1. req' = [NoReq EXCEPT !.slot = s, !.on = v]
    BY DEF LinkcheckSet
  <2> QED
    BY <2>1 DEF NoReq, ReqType
<1>4. mem.port = ghost.port /\ mem.on = ghost.on /\ mem.on \in [Slots -> {0, 1}]
  BY <1>1 DEF PromiseInv, MemType
<1>5. PICK o : o = IF s \in Slots THEN [mem.on EXCEPT ![s] = v] ELSE mem.on
  OBVIOUS
<1>6. o \in [Slots -> {0, 1}]
  BY <1>4, <1>5
<1>7. mem' \in MemType /\ mem'.port = mem.port /\ mem'.on = o /\ mem'.addr = mem.addr
  <2>1. CASE s \in Slots
    <3>1. mem' = [mem EXCEPT !.on = o]
      BY <1>5, <2>1 DEF LinkcheckSet
    <3> QED
      BY <1>1, <1>6, <3>1 DEF MemType
  <2>2. CASE s \notin Slots
    BY <1>1, <1>5, <2>2 DEF LinkcheckSet
  <2> QED
    BY <2>1, <2>2
<1>8. /\ tree' \in Trees /\ CutInv' /\ SaveInv'
      /\ ~ghost.unsaved => file.port = ghost.port /\ file.on = ghost.on
  BY <1>1, <1>3, <1>7, SaveBegins
<1>9. TypeInv'
  BY <1>1, <1>2, <1>3, <1>7, <1>8 DEF TypeInv, Saving
<1>10. NetInv'
  BY <1>1, <1>3, <1>7, NoReqFacts DEF NetInv, Saving
<1>11. DoneInv'
  BY <1>1, <1>3 DEF DoneInv, Saving
<1>12. Promised(ghost, req').port = ghost.port /\ Promised(ghost, req').on = o
  <2>1. /\ Promised(ghost, req').port = IF req'.port = Absent \/ req'.if \notin Ifs THEN ghost.port
                                        ELSE [ghost.port EXCEPT ![req'.if] = req'.port]
        /\ Promised(ghost, req').on = IF req'.slot \notin Slots THEN ghost.on
                                      ELSE [ghost.on EXCEPT ![req'.slot] = req'.on]
    BY <1>1, <1>3, PromisedFacts, Zenon
  <2>2. Promised(ghost, req').port = ghost.port
    BY <1>3, <2>1, Zenon
  <2>3. Promised(ghost, req').on = IF s \notin Slots THEN ghost.on ELSE [ghost.on EXCEPT ![s] = v]
    BY <1>3, <2>1, Zenon
  <2> QED
    BY <1>4, <1>5, <2>2, <2>3
<1>13. PromiseInv'
  BY <1>1, <1>4, <1>7, <1>8, <1>12 DEF PromiseInv, Saving
<1> QED
  BY <1>8, <1>9, <1>10, <1>11, <1>13
-----------------------------------------------------------------------------
(* The theorems.                                                             *)

\* Every step keeps the invariant.
LEMMA InvNext == Inv /\ [Next]_vars => Inv'
<1> SUFFICES ASSUME Inv, [Next]_vars PROVE Inv'
  OBVIOUS
<1>1. CASE UNCHANGED vars
  BY <1>1 DEF vars, Inv, TypeInv, CutInv, SaveInv, NetInv, DoneInv, PromiseInv, Kept
<1>2. CASE Next
  BY <1>2, ReadFails, ReadFile, InitConfig, OpenRefused, OpenCut, Wrote, Answered, KilledFacts, Updated,
     NetBegun, IpAddrTaken, NetmaskTaken, GatewayTaken, PortTaken, LinkSet, Zenon DEF Next
<1> QED
  BY <1>1, <1>2

\* A start finds a whole file.
LEMMA InvInit == Init => Inv
<1> SUFFICES ASSUME Init PROVE Inv
  OBVIOUS
<1>1. PICK p \in Ports, a \in Addrs :
        /\ run = "down" /\ pc = "idle"
        /\ mem = None /\ tree = None /\ listen = None
        /\ file = [port |-> [i \in Ifs |-> p], on |-> [s \in Slots |-> 0], ver |-> 0]
        /\ net = [i \in Devs |-> [ip |-> a, mask |-> a,
                                  gw |-> IF i = CHOOSE d \in Devs : TRUE
                                         THEN a ELSE NoRoute]]
        /\ req = NoReq /\ ans = "none" /\ version = 0
        /\ left = [reqs |-> MaxReqs, ends |-> MaxEnds, updates |-> MaxUpdates]
        /\ ghost = [cut |-> FALSE, unsaved |-> FALSE, refused |-> {},
                    port |-> [i \in Ifs |-> p], on |-> [s \in Slots |-> 0],
                    open |-> NoReq]
  BY DEF Init
<1>2. MaxReqs \in Nat /\ MaxEnds \in Nat /\ MaxUpdates \in Nat
  BY ConfigAssumption
<1>3. [i \in Ifs |-> p] \in [Ifs -> Ports] /\ [s \in Slots |-> 0] \in [Slots -> {0, 1}]
  OBVIOUS
<1>4. file \in Trees /\ file # Empty
  BY <1>1, <1>2, <1>3, EmptyAssumption DEF Trees
<1>5. net \in NetType
  BY <1>1 DEF NetType
<1>6. ghost \in GhostType
  BY <1>1, <1>3, NoReqFacts DEF GhostType
<1>7. TypeInv
  BY <1>1, <1>2, <1>4, <1>5, <1>6, NoReqFacts DEF TypeInv
<1>8. CutInv /\ SaveInv /\ NetInv
  BY <1>1, <1>4 DEF CutInv, SaveInv, NetInv
<1>9. DoneInv
  BY <1>1, NoReqFacts DEF DoneInv, Saving
<1>10. PromiseInv
  BY <1>1 DEF PromiseInv, Kept
<1> QED
  BY <1>7, <1>8, <1>9, <1>10 DEF Inv

\* At every point the process may be killed at, the memory, the tree, the file
\* and the servers are related as Inv says.
THEOREM EveryPointKnown == Spec => []Inv
BY InvInit, InvNext, PTL DEF Spec

\* File, memory and what the board does agree between two requests, and every
\* kill but one in the middle of the write leaves a file the board starts with.
THEOREM ConfigStaysSound == Spec => []ConfigSound
<1>1. Inv => ConfigSound
  <2> SUFFICES ASSUME TypeInv, CutInv, SaveInv, NetInv, DoneInv PROVE ConfigSound
    BY DEF Inv
  <2>1. TypeOK
    <3>1. version \in 0 .. MaxUpdates
      BY DEF TypeInv
    <3>2. mem \in MemType \cup {None} /\ tree \in Trees \cup {None}
      BY DEF TypeInv
    <3>3. listen \in [Ifs \cap Devs -> [ip : Addrs, port : Ports]] \cup {None}
      BY DEF TypeInv
    <3> QED
      BY <3>1, <3>2, <3>3 DEF TypeInv, TypeOK, MemType, NetType, ReqType, Saving
  <2>2. FileIsMemory
    BY DEF SaveInv, FileIsMemory, Quiet
  <2>3. OnlyACutKills
    BY DEF CutInv, TypeInv, OnlyACutKills
  <2>4. ListensWhereConfigured
    BY NoReqFacts DEF NetInv, TypeInv, ListensWhereConfigured, Quiet
  <2>5. AcceptedIsDone
    BY DEF DoneInv, AcceptedIsDone
  <2> QED
    BY <2>1, <2>2, <2>3, <2>4, <2>5 DEF ConfigSound
<1> QED
  BY <1>1, EveryPointKnown, PTL

\* A start finds what the requests before it were promised.
LEMMA StartKeepsPromises == ASSUME Inv, Next PROVE KeepsPromises
<1> SUFFICES ASSUME run = "boot", run' = "up"
             PROVE  /\ \A i \in Ifs : \/ mem'.port[i] = ghost.port[i]
                                      \/ ghost.open.if = i /\ mem'.port[i] = ghost.open.port
                    /\ \A s \in Slots : \/ mem'.on[s] = ghost.on[s]
                                        \/ ghost.open.slot = s /\ mem'.on[s] = ghost.open.on
  BY Zenon DEF KeepsPromises
<1>1. ConfigInit
  <2>1. /\ ~JsonReadFails /\ ~JsonReadFile /\ ~OpenFails /\ ~OpenCuts /\ ~WriteFile
        /\ ~Answer /\ ~Killed /\ ~Update
    BY DEF JsonReadFails, JsonReadFile, OpenFails, OpenCuts, WriteFile, Answer, Killed, Update
  <2>2. ~(\E n \in Names \cup {NoName} : NetBegin(n)) /\ ~(\E v \in Ports \cup {Absent} : Port(v))
    BY DEF NetBegin, Port
  <2>3. ~\E v \in Addrs \cup {Absent, Bad} : IpAddr(v) \/ Netmask(v) \/ Gateway(v)
    BY DEF IpAddr, Netmask, Gateway
  <2>4. ~\E s \in ValidSlots, v \in {0, 1} : LinkcheckSet(s, v)
    BY DEF LinkcheckSet
  <2> QED
    BY <2>1, <2>2, <2>3, <2>4, Zenon DEF Next
<1>2. mem'.port = tree.port /\ mem'.on = tree.on
  BY <1>1 DEF ConfigInit
<1>3. Kept(tree)
  BY DEF Inv, PromiseInv
<1> QED
  BY <1>2, <1>3 DEF Kept

\* What has been answered is found again after the next start, however often
\* the process is killed on the way; what was asked for and not answered is
\* found or is not.
THEOREM PromisesAreKept == Spec => [][KeepsPromises]_vars
<1>1. Inv /\ [Next]_vars => [KeepsPromises]_vars
  BY StartKeepsPromises
<1> QED
  BY <1>1, EveryPointKnown, PTL DEF Spec
-----------------------------------------------------------------------------
(* The components that MCCommands puts side by side: each runs as it does alone. *)

\* A step of the sum is for every part one of its own steps, or none.
LEMMA CommandParts ==
    ASSUME [MCNext]_mcVars
    PROVE  /\ [Next]_vars /\ [Radio!Next]_(Radio!vars)
           /\ [Record!Next]_(Record!vars) /\ [File!Next]_(File!vars)
<1>1. Next \/ UNCHANGED vars
  BY DEF MCNext, mcVars
<1>2. Radio!Next \/ UNCHANGED RadioVars
  BY DEF MCNext, mcVars
<1>3. Record!Next \/ UNCHANGED RecordVars
  BY DEF MCNext, mcVars
<1>4. File!Next \/ UNCHANGED FileVars
  BY DEF MCNext, mcVars
<1>5. [File!Next]_(File!vars)
  BY <1>4 DEF FileVars, File!vars, File!cl, File!resp
<1> QED BY <1>1, <1>2, <1>3, <1>5 DEF RadioVars, RecordVars, Radio!vars, Record!vars
-----------------------------------------------------------------------------
(* RadioParams: the parameters of a radio channel.                             *)

FftPair == {"fftSize", "freqResolution"}

\* What a field holds after any request: the value last accepted for it.
ParamInv ==
    /\ rSent \in [Radio!Fields -> Int]
    /\ \A f \in Radio!Fields \ (FftPair \cup {"audioSampleRate"}) :
          rSent[f] # Radio!NoValue => rCfg[f] = rSent[f] /\ Radio!Fits(f, rSent[f])

\* Whichever of the two was set last, the other is what the table has for it.
FftInv ==
    /\ rSent["fftSize"] # Radio!NoValue =>
          /\ rCfg["fftSize"] = rSent["fftSize"]
          /\ rCfg["freqResolution"] = Radio!config_get_resolution_by_fft(rSent["fftSize"])
    /\ rSent["freqResolution"] # Radio!NoValue =>
          /\ rCfg["freqResolution"] = rSent["freqResolution"]
          /\ rCfg["fftSize"] = Radio!config_get_fft_by_resolution(rSent["freqResolution"])

RadioInv == Radio!TypeOK /\ ParamInv /\ FftInv

\* The widths: what is left of a number in a field of one or two bytes.
LEMMA WidthsHold ==
    ASSUME NEW v \in Int
    PROVE  /\ {Radio!U8(v), Radio!S8(v), Radio!U16(v), Radio!S16(v)} \subseteq Int
           /\ Radio!Within(Radio!U8(v), 0, 255) /\ (Radio!Within(v, 0, 255) => Radio!U8(v) = v)
           /\ Radio!Within(Radio!S8(v), -128, 127) /\ (Radio!Within(v, -128, 127) => Radio!S8(v) = v)
           /\ Radio!Within(Radio!U16(v), 0, 65535) /\ (Radio!Within(v, 0, 65535) => Radio!U16(v) = v)
           /\ Radio!Within(Radio!S16(v), -32768, 32767) /\ (Radio!Within(v, -32768, 32767) => Radio!S16(v) = v)
<1>1. Radio!Within(Radio!U8(v), 0, 255) /\ (Radio!Within(v, 0, 255) => Radio!U8(v) = v)
  BY SMT DEF Radio!U8, Radio!Within
<1>2. Radio!Within(Radio!S8(v), -128, 127) /\ (Radio!Within(v, -128, 127) => Radio!S8(v) = v)
  BY SMT DEF Radio!S8, Radio!Within
<1>3. Radio!Within(Radio!U16(v), 0, 65535) /\ (Radio!Within(v, 0, 65535) => Radio!U16(v) = v)
  BY SMT DEF Radio!U16, Radio!Within
<1>4. Radio!Within(Radio!S16(v), -32768, 32767) /\ (Radio!Within(v, -32768, 32767) => Radio!S16(v) = v)
  BY SMT DEF Radio!S16, Radio!Within
<1>5. {Radio!U8(v), Radio!S8(v), Radio!U16(v), Radio!S16(v)} \subseteq Int
  BY SMT DEF Radio!U8, Radio!S8, Radio!U16, Radio!S16
<1> QED BY <1>1, <1>2, <1>3, <1>4, <1>5

\* A field stores a number, and a value it can hold unchanged.
LEMMA StoreHolds ==
    ASSUME NEW t, NEW v \in Int
    PROVE  /\ Radio!Store(t, v) \in Int
           /\ t # "audioSampleRate" /\ Radio!Fits(t, v) => Radio!Store(t, v) = v
           /\ t = "muteThreshold" => Radio!Within(Radio!Store(t, v), -128, 127)
           /\ t \in {"windowType", "decMethodId"} => Radio!Within(Radio!Store(t, v), 0, 255)
           /\ t = "muteSwitch" => Radio!Store(t, v) = Radio!U8(v)
           /\ t = "smoothTimes" => Radio!Within(Radio!Store(t, v), 0, 65535)
<1>1. /\ {Radio!U8(v), Radio!S8(v), Radio!U16(v), Radio!S16(v)} \subseteq Int
      /\ Radio!Within(Radio!U8(v), 0, 255) /\ (Radio!Within(v, 0, 255) => Radio!U8(v) = v)
      /\ Radio!Within(Radio!S8(v), -128, 127) /\ (Radio!Within(v, -128, 127) => Radio!S8(v) = v)
      /\ Radio!Within(Radio!U16(v), 0, 65535) /\ (Radio!Within(v, 0, 65535) => Radio!U16(v) = v)
      /\ Radio!Within(Radio!S16(v), -32768, 32767) /\ (Radio!Within(v, -32768, 32767) => Radio!S16(v) = v)
  BY WidthsHold
<1>2. CASE t \in {"muteSwitch", "decMethodId", "windowType", "modeCode", "gainMode"}
  <2>1. Radio!Store(t, v) = Radio!U8(v) /\ (Radio!Fits(t, v) => Radio!Within(v, 0, 255))
    BY <1>2 DEF Radio!Store, Radio!Fits, Radio!Within
  <2> QED BY <1>1, <1>2, <2>1
<1>3. CASE t \in {"muteThreshold", "mgcGain", "agcOutPutAmp", "rfAttenuation"}
  <2>1. Radio!Store(t, v) = Radio!S8(v) /\ (Radio!Fits(t, v) => Radio!Within(v, -128, 127))
    BY <1>3 DEF Radio!Store, Radio!Fits
  <2> QED BY <1>1, <1>3, <2>1
<1>4. CASE t \in {"smoothTimes", "smoothMode", "smoothThreshold"}
  <2>1. Radio!Store(t, v) = Radio!U16(v) /\ (Radio!Fits(t, v) => Radio!Within(v, 0, 65535))
    BY <1>4 DEF Radio!Store, Radio!Fits
  <2> QED BY <1>1, <1>4, <2>1
<1>5. CASE t = "audioVolume"
  <2>1. Radio!Store(t, v) = Radio!S16(v) /\ (Radio!Fits(t, v) => Radio!Within(v, -32768, 32767))
    BY <1>5 DEF Radio!Store, Radio!Fits
  <2> QED BY <1>1, <1>5, <2>1
<1>6. CASE t = "audioSampleRate"
  BY <1>6 DEF Radio!Store, Radio!FloatOfBits
<1>7. CASE t \notin {"muteSwitch", "decMethodId", "windowType", "modeCode", "gainMode", "muteThreshold", "mgcGain",
                    "agcOutPutAmp", "rfAttenuation", "smoothTimes", "smoothMode", "smoothThreshold", "audioVolume",
                    "audioSampleRate"}
  <2>1. Radio!Store(t, v) = v
    BY <1>7 DEF Radio!Store
  <2> QED BY <1>7, <2>1
<1> QED BY <1>2, <1>3, <1>4, <1>5, <1>6, <1>7

\* The table of FFT sizes and resolutions: what it gives is a number, and a size and
\* the resolution it gives are made for one rate.
LEMMA FftTableFits ==
    ASSUME NEW v \in Int
    PROVE  /\ Radio!config_get_resolution_by_fft(v) \in Int
           /\ v \in {512, 1024, 2048, 4096, 8192, 16384} => v * Radio!config_get_resolution_by_fft(v) = 51200000
           /\ Radio!config_get_fft_by_resolution(v) \in Int
           /\ v \in {100000, 50000, 25000, 12500, 6250, 3125} => Radio!config_get_fft_by_resolution(v) * v = 51200000
<1>1. \A e \in Radio!fft_table : e[1] \in Int /\ e[2] \in Int /\ e[1] * e[2] = 51200000
  BY DEF Radio!fft_table
<1>2. /\ \A n \in {512, 1024, 2048, 4096, 8192, 16384} : \E e \in Radio!fft_table : e[1] = n
      /\ \A n \in {100000, 50000, 25000, 12500, 6250, 3125} : \E e \in Radio!fft_table : e[2] = n
  BY DEF Radio!fft_table
<1>3. ASSUME \E e \in Radio!fft_table : e[1] = v
      PROVE  /\ Radio!config_get_resolution_by_fft(v) \in Int
             /\ v * Radio!config_get_resolution_by_fft(v) = 51200000
  <2>1. PICK e \in Radio!fft_table : e[1] = v /\ Radio!config_get_resolution_by_fft(v) = e[2]
    <3>1. PICK e : e = CHOOSE f \in Radio!fft_table : f[1] = v
      OBVIOUS
    <3>2. e \in Radio!fft_table /\ e[1] = v
      BY <1>3, <3>1, Zenon
    <3>3. Radio!config_get_resolution_by_fft(v) = e[2]
      <4>1. Radio!config_get_resolution_by_fft(v) = (CHOOSE f \in Radio!fft_table : f[1] = v)[2]
        BY <1>3 DEF Radio!config_get_resolution_by_fft
      <4> QED BY <3>1, <4>1
    <3> QED BY <3>2, <3>3
  <2> QED BY <1>1, <2>1
<1>4. ASSUME ~ \E e \in Radio!fft_table : e[1] = v
      PROVE  /\ Radio!config_get_resolution_by_fft(v) \in Int
             /\ v \notin {512, 1024, 2048, 4096, 8192, 16384}
  BY <1>2, <1>4 DEF Radio!config_get_resolution_by_fft
<1>5. ASSUME \E e \in Radio!fft_table : e[2] = v
      PROVE  /\ Radio!config_get_fft_by_resolution(v) \in Int
             /\ Radio!config_get_fft_by_resolution(v) * v = 51200000
  <2>1. PICK e \in Radio!fft_table : e[2] = v /\ Radio!config_get_fft_by_resolution(v) = e[1]
    <3>1. PICK e : e = CHOOSE f \in Radio!fft_table : f[2] = v
      OBVIOUS
    <3>2. e \in Radio!fft_table /\ e[2] = v
      BY <1>5, <3>1, Zenon
    <3>3. Radio!config_get_fft_by_resolution(v) = e[1]
      <4>1. Radio!config_get_fft_by_resolution(v) = (CHOOSE f \in Radio!fft_table : f[2] = v)[1]
        BY <1>5 DEF Radio!config_get_fft_by_resolution
      <4> QED BY <3>1, <4>1
    <3> QED BY <3>2, <3>3
  <2> QED BY <1>1, <2>1
<1>6. ASSUME ~ \E e \in Radio!fft_table : e[2] = v
      PROVE  /\ Radio!config_get_fft_by_resolution(v) \in Int
             /\ v \notin {100000, 50000, 25000, 12500, 6250, 3125}
  BY <1>2, <1>6 DEF Radio!config_get_fft_by_resolution
<1> QED BY <1>3, <1>4, <1>5, <1>6

\* What config_write_data makes of the parameters: one field changes, or the two of
\* the pair together.
LEMMA WriteChanges ==
    ASSUME rCfg \in [Radio!Fields -> Int], NEW t, NEW v \in Int, NEW c, c = Radio!config_write_data(t, v)
    PROVE  /\ c \in [Radio!Fields -> Int]
           /\ \A f \in Radio!Fields \ FftPair : f # t => c[f] = rCfg[f]
           /\ t \notin FftPair => \A f \in FftPair : c[f] = rCfg[f]
           /\ t \in Radio!Fields \ (FftPair \cup {"muteSwitch"}) => c[t] = Radio!Store(t, v)
           /\ t = "muteSwitch" => c[t] = IF Radio!U8(v) > 1 THEN rCfg[t] ELSE Radio!U8(v)
           /\ t = "fftSize" => c[t] = v /\ c["freqResolution"] = Radio!config_get_resolution_by_fft(v)
           /\ t = "freqResolution" => c[t] = v /\ c["fftSize"] = Radio!config_get_fft_by_resolution(v)
<1>1. FftPair \subseteq Radio!Fields /\ "muteSwitch" \in Radio!Fields /\ "muteSwitch" \notin FftPair
  BY DEF FftPair, Radio!Fields, Radio!IfWords, Radio!IfBytes
<1>2. Radio!Store(t, v) \in Int /\ (t = "muteSwitch" => Radio!Store(t, v) = Radio!U8(v)) /\ Radio!U8(v) \in Int
  BY StoreHolds, WidthsHold
<1>3. Radio!config_get_resolution_by_fft(v) \in Int /\ Radio!config_get_fft_by_resolution(v) \in Int
  BY FftTableFits
<1>4. CASE t = "muteSwitch" /\ Radio!U8(v) > 1
  <2>1. c = rCfg
    BY <1>2, <1>4 DEF Radio!config_write_data
  <2> QED BY <1>1, <1>4, <2>1 DEF FftPair
<1>5. CASE t = "fftSize"
  <2>1. c = [rCfg EXCEPT !["fftSize"] = v, !["freqResolution"] = Radio!config_get_resolution_by_fft(v)]
    BY <1>5 DEF Radio!config_write_data
  <2> QED BY <1>1, <1>3, <1>5, <2>1 DEF FftPair
<1>6. CASE t = "freqResolution"
  <2>1. c = [rCfg EXCEPT !["freqResolution"] = v, !["fftSize"] = Radio!config_get_fft_by_resolution(v)]
    BY <1>6 DEF Radio!config_write_data
  <2> QED BY <1>1, <1>3, <1>6, <2>1 DEF FftPair
<1>7. CASE t \in Radio!Fields /\ t \notin FftPair /\ ~(t = "muteSwitch" /\ Radio!U8(v) > 1)
  <2>1. c = [rCfg EXCEPT ![t] = Radio!Store(t, v)]
    BY <1>2, <1>7 DEF Radio!config_write_data, FftPair
  <2> QED BY <1>1, <1>2, <1>7, <2>1 DEF FftPair
<1>8. CASE t \notin Radio!Fields
  <2>1. c = rCfg
    BY <1>1, <1>8 DEF Radio!config_write_data, FftPair
  <2> QED BY <1>1, <1>8, <2>1 DEF FftPair
<1> QED BY <1>4, <1>5, <1>6, <1>7, <1>8 DEF FftPair

\* A value stored keeps every field within its width and the reader in step.
LEMMA SetKeeps ==
    ASSUME RadioInv, NEW t, NEW v \in Int, rCfg' = Radio!config_write_data(t, v), rSent' = Radio!Accepted(t, v),
           UNCHANGED <<rFlags, rBits>>
    PROVE  RadioInv'
<1>1. rCfg \in [Radio!Fields -> Int] /\ rSent \in [Radio!Fields -> Int]
  BY DEF RadioInv, Radio!TypeOK, ParamInv
<1>2. /\ FftPair \subseteq Radio!Fields
      /\ {"muteSwitch", "muteThreshold", "windowType", "decMethodId", "smoothTimes"} \subseteq Radio!Fields \ FftPair
  BY DEF FftPair, Radio!Fields, Radio!IfWords, Radio!IfBytes
<1>3. /\ rCfg' \in [Radio!Fields -> Int]
      /\ \A f \in Radio!Fields \ FftPair : f # t => rCfg'[f] = rCfg[f]
      /\ t \notin FftPair => \A f \in FftPair : rCfg'[f] = rCfg[f]
      /\ t \in Radio!Fields \ (FftPair \cup {"muteSwitch"}) => rCfg'[t] = Radio!Store(t, v)
      /\ t = "muteSwitch" => rCfg'[t] = IF Radio!U8(v) > 1 THEN rCfg[t] ELSE Radio!U8(v)
      /\ t = "fftSize" => rCfg'[t] = v /\ rCfg'["freqResolution"] = Radio!config_get_resolution_by_fft(v)
      /\ t = "freqResolution" => rCfg'[t] = v /\ rCfg'["fftSize"] = Radio!config_get_fft_by_resolution(v)
  BY <1>1, WriteChanges
<1>4. /\ t # "audioSampleRate" /\ Radio!Fits(t, v) => Radio!Store(t, v) = v
      /\ t = "muteThreshold" => Radio!Within(Radio!Store(t, v), -128, 127)
      /\ t \in {"windowType", "decMethodId"} => Radio!Within(Radio!Store(t, v), 0, 255)
      /\ t = "smoothTimes" => Radio!Within(Radio!Store(t, v), 0, 65535)
      /\ Radio!U8(v) \in Int /\ Radio!Within(Radio!U8(v), 0, 255) /\ (v \in {0, 1} => Radio!U8(v) = v)
  <2>1. v \in {0, 1} => Radio!Within(v, 0, 255)
    BY DEF Radio!Within
  <2> QED BY <2>1, StoreHolds, WidthsHold
<1>5. Radio!TypeOK'
  <2>1. /\ rFlags \subseteq Radio!Outputs /\ rBits \in 0 .. 7 /\ Radio!Within(rCfg["muteThreshold"], -128, 127)
        /\ Radio!Within(rCfg["windowType"], 0, 255) /\ Radio!Within(rCfg["decMethodId"], 0, 255)
        /\ rCfg["muteSwitch"] \in {0, 1} /\ Radio!Within(rCfg["smoothTimes"], 0, 65535)
    BY DEF RadioInv, Radio!TypeOK
  <2>2. rCfg'["muteSwitch"] \in {0, 1}
    <3>1. CASE t = "muteSwitch"
      BY <1>3, <1>4, <2>1, <3>1 DEF Radio!Within
    <3>2. CASE t # "muteSwitch"
      BY <1>2, <1>3, <2>1, <3>2
    <3> QED BY <3>1, <3>2
  <2>3. Radio!Within(rCfg'["muteThreshold"], -128, 127)
    <3>1. CASE t = "muteThreshold"
      BY <1>2, <1>3, <1>4, <3>1
    <3>2. CASE t # "muteThreshold"
      <4>1. rCfg'["muteThreshold"] = rCfg["muteThreshold"]
        BY <1>2, <1>3, <3>2
      <4> QED BY <2>1, <4>1
    <3> QED BY <3>1, <3>2
  <2>4. Radio!Within(rCfg'["windowType"], 0, 255)
    <3>1. CASE t = "windowType"
      BY <1>2, <1>3, <1>4, <3>1
    <3>2. CASE t # "windowType"
      <4>1. rCfg'["windowType"] = rCfg["windowType"]
        BY <1>2, <1>3, <3>2
      <4> QED BY <2>1, <4>1
    <3> QED BY <3>1, <3>2
  <2>5. Radio!Within(rCfg'["decMethodId"], 0, 255)
    <3>1. CASE t = "decMethodId"
      BY <1>2, <1>3, <1>4, <3>1
    <3>2. CASE t # "decMethodId"
      <4>1. rCfg'["decMethodId"] = rCfg["decMethodId"]
        BY <1>2, <1>3, <3>2
      <4> QED BY <2>1, <4>1
    <3> QED BY <3>1, <3>2
  <2>6. Radio!Within(rCfg'["smoothTimes"], 0, 65535)
    <3>1. CASE t = "smoothTimes"
      BY <1>2, <1>3, <1>4, <3>1
    <3>2. CASE t # "smoothTimes"
      <4>1. rCfg'["smoothTimes"] = rCfg["smoothTimes"]
        BY <1>2, <1>3, <3>2
      <4> QED BY <2>1, <4>1
    <3> QED BY <3>1, <3>2
  <2>7. rFlags' \subseteq Radio!Outputs /\ rBits' \in 0 .. 7
    BY <2>1
  <2> QED BY <1>3, <2>2, <2>3, <2>4, <2>5, <2>6, <2>7 DEF Radio!TypeOK, Radio!Within
<1>6. CASE t \in Radio!Fields
  <2>1. /\ rSent' \in [Radio!Fields -> Int]
        /\ \A f \in Radio!Fields : f # t /\ {f, t} # FftPair => rSent'[f] = rSent[f]
        /\ \A f \in Radio!Fields : f # t /\ {f, t} = FftPair => rSent'[f] = Radio!NoValue
        /\ rSent'[t] = IF Radio!Fits(t, v) THEN v ELSE Radio!NoValue
    <3>1. Radio!NoValue \in Int
      BY DEF Radio!NoValue
    <3> QED BY <1>1, <1>6, <3>1 DEF Radio!Accepted, FftPair
  <2>2. ParamInv'
    <3> SUFFICES ASSUME NEW f \in Radio!Fields \ (FftPair \cup {"audioSampleRate"}), rSent'[f] # Radio!NoValue
                 PROVE  rCfg'[f] = rSent'[f] /\ Radio!Fits(f, rSent'[f])
      BY <2>1 DEF ParamInv
    <3>1. CASE f # t
      <4>1. {f, t} # FftPair
        BY DEF FftPair
      <4> QED BY <1>3, <2>1, <3>1, <4>1 DEF RadioInv, ParamInv
    <3>2. CASE f = t
      <4>1. Radio!Fits(t, v) /\ rSent'[t] = v
        BY <2>1, <3>2
      <4>2. t = "muteSwitch" => v \in {0, 1}
        BY <4>1 DEF Radio!Fits
      <4>3. CASE t = "muteSwitch"
        BY <1>3, <1>4, <3>2, <4>1, <4>2, <4>3
      <4>4. CASE t # "muteSwitch"
        BY <1>3, <1>4, <3>2, <4>1, <4>4
      <4> QED BY <4>3, <4>4
    <3> QED BY <3>1, <3>2
  <2>3. FftInv'
    <3>1. CASE t \notin FftPair
      <4>1. \A f \in FftPair : rSent'[f] = rSent[f] /\ rCfg'[f] = rCfg[f]
        BY <1>2, <1>3, <2>1, <3>1
      <4>2. rSent'["fftSize"] = rSent["fftSize"] /\ rCfg'["fftSize"] = rCfg["fftSize"]
            /\ rSent'["freqResolution"] = rSent["freqResolution"] /\ rCfg'["freqResolution"] = rCfg["freqResolution"]
        BY <4>1 DEF FftPair
      <4> QED BY <4>2 DEF RadioInv, FftInv
    <3>2. CASE t = "fftSize"
      <4>1. rSent'["freqResolution"] = Radio!NoValue
        BY <1>2, <2>1, <3>2 DEF FftPair
      <4> QED BY <1>3, <2>1, <3>2, <4>1 DEF FftInv
    <3>3. CASE t = "freqResolution"
      <4>1. rSent'["fftSize"] = Radio!NoValue
        BY <1>2, <2>1, <3>3 DEF FftPair
      <4> QED BY <1>3, <2>1, <3>3, <4>1 DEF FftInv
    <3> QED BY <3>1, <3>2, <3>3 DEF FftPair
  <2> QED BY <1>5, <2>2, <2>3 DEF RadioInv
<1>7. CASE t \notin Radio!Fields
  <2>1. rSent' = rSent
    BY <1>7 DEF Radio!Accepted
  <2>2. \A f \in Radio!Fields : rCfg'[f] = rCfg[f]
    BY <1>2, <1>3, <1>7
  <2>3. ParamInv'
    BY <2>1, <2>2 DEF RadioInv, ParamInv
  <2>4. "fftSize" \in Radio!Fields /\ "freqResolution" \in Radio!Fields
    BY <1>2 DEF FftPair
  <2>5. FftInv'
    BY <2>1, <2>2, <2>4 DEF RadioInv, FftInv
  <2> QED BY <1>5, <2>3, <2>5 DEF RadioInv
<1> QED BY <1>6, <1>7

\* An output switched keeps the outputs and their bits within their types.
LEMMA EnableKeeps ==
    ASSUME RadioInv, NEW t, NEW v, NEW ch, Radio!Enable(t, v, ch)
    PROVE  RadioInv'
<1>1. /\ rFlags' \subseteq Radio!Outputs /\ rBits' \in 0 .. 7 /\ UNCHANGED <<rCfg, rSent>>
  <2>1. rFlags \subseteq Radio!Outputs /\ rBits \in 0 .. 7
    BY DEF RadioInv, Radio!TypeOK
  <2>2. \A s : Radio!BitsOf(s) \in 0 .. 7
    BY DEF Radio!BitsOf
  <2>3. rFlags' \subseteq Radio!Outputs
    BY <2>1 DEF Radio!Enable
  <2>4. rBits' = rBits \/ rBits' = Radio!BitsOf(rFlags')
    BY DEF Radio!Enable
  <2> QED BY <2>1, <2>2, <2>3, <2>4 DEF Radio!Enable
<1>2. Radio!TypeOK'
  BY <1>1 DEF RadioInv, Radio!TypeOK, Radio!Within
<1>3. ParamInv' /\ FftInv'
  BY <1>1 DEF RadioInv, ParamInv, FftInv
<1> QED BY <1>2, <1>3 DEF RadioInv

\* No request breaks it.
LEMMA RadioStep ==
    ASSUME Radio!RadioAssumption, RadioInv, [Radio!Next]_(Radio!vars)
    PROVE  RadioInv'
<1>1. ASSUME UNCHANGED <<rCfg, rFlags, rBits, rSent>> PROVE RadioInv'
  BY <1>1 DEF RadioInv, Radio!TypeOK, Radio!Within, ParamInv, FftInv
<1>2. ASSUME NEW t, NEW v \in Int, NEW ch, Radio!SetValue(t, v, ch) PROVE RadioInv'
  <2>1. \/ UNCHANGED <<rCfg, rFlags, rBits, rSent>>
        \/ /\ rCfg' = Radio!config_write_data(t, v) /\ rSent' = Radio!Accepted(t, v)
           /\ UNCHANGED <<rFlags, rBits>>
    BY <1>2 DEF Radio!SetValue
  <2> QED BY <1>1, <2>1, SetKeeps
<1>3. ASSUME NEW t, NEW ch, Radio!SetNothing(t, ch) PROVE RadioInv'
  BY <1>1, <1>3 DEF Radio!SetNothing
<1>4. CASE UNCHANGED Radio!vars
  BY <1>1, <1>4 DEF Radio!vars
<1>5. \A v \in ByteValues \cup {-10} \cup WordValues : v \in Int
  BY DEF Radio!RadioAssumption
<1>6. CASE Radio!Next
  <2>1. PICK ch \in Chs :
          \/ \E t \in Radio!IfBytes \cup Radio!RfBytes \cup Radio!Unknown, v \in ByteValues \cup {-10} : Radio!SetValue(t, v, ch)
          \/ \E t \in Radio!IfWords \cup Radio!RfWords \cup Radio!Unstored, v \in WordValues : Radio!SetValue(t, v, ch)
          \/ \E t \in Radio!Fields : Radio!SetNothing(t, ch)
          \/ \E t \in Radio!Outputs \cup Radio!Unknown, v \in {0, 1, 2} : Radio!Enable(t, v, ch)
    BY <1>6, Zenon DEF Radio!Next
  <2>2. \/ \E t, v : v \in Int /\ Radio!SetValue(t, v, ch)
        \/ \E t : Radio!SetNothing(t, ch)
        \/ \E t, v : Radio!Enable(t, v, ch)
    BY <1>5, <2>1, Zenon
  <2> QED BY <1>2, <1>3, <2>2, EnableKeeps, Zenon
<1> QED BY <1>4, <1>6

\* Nothing has been set at the beginning.
LEMMA RadioInit ==
    ASSUME Radio!Init
    PROVE  RadioInv
<1> USE DEF Radio!Init
<1>1. {"fftSize", "freqResolution", "muteSwitch", "muteThreshold", "windowType", "decMethodId", "smoothTimes"}
        \subseteq Radio!Fields
  BY DEF Radio!Fields, Radio!IfWords, Radio!IfBytes
<1>2. rCfg \in [Radio!Fields -> Int] /\ \A f \in Radio!Fields : rCfg[f] = 0 /\ rSent[f] = Radio!NoValue
  OBVIOUS
<1>3. Radio!TypeOK
  BY <1>1, <1>2 DEF Radio!TypeOK, Radio!Within
<1>4. Radio!NoValue \in Int
  BY DEF Radio!NoValue
<1>5. rSent \in [Radio!Fields -> Int]
  BY <1>4
<1>6. ParamInv
  BY <1>2, <1>5 DEF ParamInv
<1>7. FftInv
  BY <1>1, <1>2 DEF FftInv
<1> QED BY <1>3, <1>6, <1>7 DEF RadioInv

\* What the inductive invariant says to a reader of the configuration.
LEMMA RadioMeans ==
    ASSUME RadioInv
    PROVE  Radio!RadioSound
<1>1. /\ Radio!TypeOK /\ ParamInv /\ FftInv /\ rCfg \in [Radio!Fields -> Int] /\ rSent \in [Radio!Fields -> Int]
  BY DEF RadioInv, Radio!TypeOK, ParamInv
<1>2. Radio!ReadsWhatWasSet
  <2> SUFFICES ASSUME NEW t \in Radio!Readable \ {"audioSampleRate"}, rSent[t] # Radio!NoValue
               PROVE  Radio!config_read_by_cmd(t) =
                         IF t = "rfBandwidth" /\ rFixed # 0 THEN rFixed
                         ELSE IF t = "rfBandwidth" /\ rSent[t] = 0 THEN Radio!DEFAULT_BW_HZ ELSE rSent[t]
    BY DEF Radio!ReadsWhatWasSet
  <2>1. t \in Radio!Fields \ (FftPair \cup {"audioSampleRate"})
    BY DEF Radio!Readable, Radio!Fields, Radio!IfBytes, Radio!IfWords, Radio!RfBytes, Radio!RfWords, FftPair
  <2>2. rCfg[t] = rSent[t] /\ Radio!Fits(t, rSent[t]) /\ rSent[t] \in Int
    BY <1>1, <2>1 DEF ParamInv
  <2>3. t = "rfBandwidth" => rSent[t] >= 0
    BY <2>2 DEF Radio!Fits
  <2> QED BY <2>2, <2>3 DEF Radio!config_read_by_cmd
<1>3. Radio!FftFitsResolution
  <2>0. "fftSize" \in Radio!Fields /\ "freqResolution" \in Radio!Fields
    BY DEF Radio!Fields, Radio!IfWords
  <2>1. PICK a \in Int : a = rSent["fftSize"]
    BY <1>1, <2>0
  <2>2. PICK b \in Int : b = rSent["freqResolution"]
    BY <1>1, <2>0
  <2>3. ASSUME a \in {512, 1024, 2048, 4096, 8192, 16384} PROVE rCfg["fftSize"] * rCfg["freqResolution"] = 51200000
    <3>1. a # Radio!NoValue
      BY <2>3 DEF Radio!NoValue
    <3>2. rCfg["fftSize"] = a /\ rCfg["freqResolution"] = Radio!config_get_resolution_by_fft(a)
      BY <1>1, <2>1, <3>1 DEF FftInv
    <3>3. a * Radio!config_get_resolution_by_fft(a) = 51200000
      BY <2>3, FftTableFits
    <3> QED BY <3>2, <3>3
  <2>4. ASSUME b \in {100000, 50000, 25000, 12500, 6250, 3125} PROVE rCfg["fftSize"] * rCfg["freqResolution"] = 51200000
    <3>1. b # Radio!NoValue
      BY <2>4 DEF Radio!NoValue
    <3>2. rCfg["freqResolution"] = b /\ rCfg["fftSize"] = Radio!config_get_fft_by_resolution(b)
      BY <1>1, <2>2, <3>1 DEF FftInv
    <3>3. Radio!config_get_fft_by_resolution(b) * b = 51200000
      BY <2>4, FftTableFits
    <3> QED BY <3>2, <3>3
  <2> QED BY <2>1, <2>2, <2>3, <2>4 DEF Radio!FftFitsResolution
<1> QED BY <1>1, <1>2, <1>3 DEF Radio!RadioSound

\* Whatever requests come in whatever order, a reader of the configuration gets what
\* was last accepted, and FFT size and resolution belong together
\* (config_write_data, config_read_by_cmd).
THEOREM RadioStaysSound == (Radio!Spec => []Radio!RadioSound) /\ (MCSpec => []RadioSound)
<1>1. Radio!Init => RadioInv
  BY MCCommandsAssumption, RadioInit
<1>2. RadioInv /\ [Radio!Next]_(Radio!vars) => RadioInv'
  BY MCCommandsAssumption, RadioStep
<1>3. RadioInv => Radio!RadioSound /\ RadioSound
  BY RadioMeans DEF RadioSound
<1>4. MCInit => Radio!Init
  BY DEF MCInit
<1>5. [MCNext]_mcVars => [Radio!Next]_(Radio!vars)
  BY CommandParts
<1> QED BY <1>1, <1>2, <1>3, <1>4, <1>5, PTL DEF Radio!Spec, MCSpec

\* A request that is answered with an error changes no parameter and no output.
LEMMA RefusedKeeps == ASSUME Radio!Next PROVE Radio!RefusalKeeps
<1>1. ASSUME NEW t, NEW v, NEW ch, Radio!SetValue(t, v, ch) \/ Radio!Enable(t, v, ch)
      PROVE  Radio!RefusalKeeps
  BY <1>1 DEF Radio!SetValue, Radio!Enable, Radio!RefusalKeeps
<1>2. ASSUME NEW t, NEW ch, Radio!SetNothing(t, ch) PROVE Radio!RefusalKeeps
  BY <1>2 DEF Radio!SetNothing, Radio!RefusalKeeps
<1> QED BY <1>1, <1>2, Zenon DEF Radio!Next

\* A request that is answered with an error changes no parameter and no output
\* (cmd_if_single_value_set, cmd_rf_single_value_set, cmd_ch_enable_set).
THEOREM RefusedRequestsKeep == Radio!Spec => [][Radio!RefusalKeeps]_(Radio!vars)
<1>1. [Radio!Next]_(Radio!vars) => [Radio!RefusalKeeps]_(Radio!vars)
  BY RefusedKeeps
<1> QED BY <1>1, PTL DEF Radio!Spec

\* What has been answered is found again after the next start, whatever was killed
\* (config_save_all, config_init), and a request that is answered with an error leaves
\* every parameter and output of the radio as it was (cmd_ch_enable_set).
THEOREM RequestsStepSoundly == MCSpec => RequestSteps
<1>1. MCInit => Init
  BY DEF MCInit
<1>2. [MCNext]_mcVars => [Next]_vars
  BY CommandParts
<1>3. Inv /\ [MCNext]_mcVars =>
         [(part = "config" => KeepsPromises) /\ (part = "radio" => Radio!RefusalKeeps)]_mcVars
  <2>1. ASSUME MCNext PROVE (part = "config" => Next) /\ (part = "radio" => Radio!Next)
    BY <2>1 DEF MCNext
  <2> QED BY <2>1, StartKeepsPromises, RefusedKeeps
<1> QED BY <1>1, <1>2, <1>3, InvInit, InvNext, PTL DEF MCSpec, RequestSteps

-----------------------------------------------------------------------------
(* FileRecord: recordings and playbacks, whose timers are on that list.        *)

ThreadT ==
    [kind : Record!Kinds, pc : {"init", "loop", "got", "stop", "cancel", "check", "exit", "ended"},
     cancelled : BOOLEAN, policy : Record!Policies, fd : 1 .. MaxFd, timer : BOOLEAN,
     nbyte : Nat, split : Nat, block : Nat, error : BOOLEAN, wentOn : BOOLEAN]

\* The types, and the numbers a thread goes by.
RecTypes ==
    /\ fTh \in Seq(ThreadT)
    /\ fReg \in [Record!Kinds -> 0 .. Len(fTh)] /\ fFds \in [1 .. MaxFd -> 0 .. Len(fTh)]
    /\ fAdc \in BOOLEAN /\ fBt \in BOOLEAN /\ fFull \in BOOLEAN /\ fEnded \in BOOLEAN
    /\ fMisfit \in BOOLEAN /\ fStale \in BOOLEAN /\ fLeaked \subseteq 1 .. MaxFd

\* A thread: only a recording takes blocks and has a timer; a recording that has
\* its size is on its way out, and one that is not registered is cancelled.
ThreadOK(t, r) ==
    /\ r.pc \in {"init", "got", "stop", "cancel"} => r.kind = "save"
    /\ r.timer => r.kind = "save" /\ r.pc # "ended"
    /\ r.kind = "play" => r.policy = "FREE"
    /\ r.pc = "got" => r.block \in BlockSizes
    /\ r.policy = "SIZE" => r.nbyte < SizeAsked + Record!Largest(BlockSizes)
    /\ r.policy = "SIZE" /\ r.nbyte >= SizeAsked =>
          r.pc \in {"stop", "cancel", "exit", "ended"} \/ (r.pc = "check" /\ r.cancelled)
    /\ r.kind = "save" /\ ~r.cancelled => fReg["save"] = t

ThreadsInv == \A t \in 1 .. Len(fTh) : ThreadOK(t, fTh[t])

\* The descriptors: an open one is lost or a thread's that has not ended.
FdInv ==
    ~fMisfit => /\ \A d \in 1 .. MaxFd : fFds[d] # 0 <=>
                      d \in fLeaked \/ \E t \in 1 .. Len(fTh) : fTh[t].pc # "ended" /\ fTh[t].fd = d
                /\ \A t \in 1 .. Len(fTh) : fTh[t].pc # "ended" => fFds[fTh[t].fd] = t /\ fTh[t].fd \notin fLeaked

\* The sampling runs for a recording that is registered and has not stopped it.
SampleInv ==
    ~fStale /\ ~fEnded => (fAdc <=> fReg["save"] # 0 /\ fTh[fReg["save"]].pc # "cancel")

PlayInv ==
    fBt /\ ~fStale => \E t \in 1 .. Len(fTh) :
         fTh[t].kind = "play" /\ fTh[t].pc # "ended" /\ (fReg["play"] = t \/ fTh[t].pc = "exit")

RecInv == RecTypes /\ ThreadsInv /\ FdInv /\ SampleInv /\ PlayInv

\* Every nonempty set of numbers has a least.
LEMMA LeastNumber ==
    ASSUME NEW T, T \subseteq Nat, T # {}
    PROVE  \E n \in T : \A m \in T : n <= m
  <1>1. \A m, n \in Nat : m < n => <<m, n>> \in OpToRel(<, Nat)
    BY DEF OpToRel
  <1>2. \E R : IsWellFoundedOn(R, Nat) /\ \A m, n \in Nat : m < n => <<m, n>> \in R
    BY <1>1, NatLessThanWellFounded
  <1>3. PICK R : IsWellFoundedOn(R, Nat) /\ \A m, n \in Nat : m < n => <<m, n>> \in R
    BY <1>2
  <1>4. IsWellFoundedOn(R, Nat)
    BY <1>3, Zenon
  <1>5. \E n \in T : \A m \in T : ~(<<m, n>> \in R)
    BY <1>4, WFMin, Zenon
  <1>6. PICK n \in T : \A m \in T : ~(<<m, n>> \in R)
    BY <1>5, Zenon
  <1>7. ASSUME NEW m \in T PROVE n <= m
    <2>1. n \in Nat /\ m \in Nat
      OBVIOUS
    <2>2. ~(m < n)
      BY <2>1, <1>3, <1>6, Zenon
    <2> QED
      BY <2>1, <2>2
  <1> QED
    BY <1>7, Zenon

\* The numbers of a sequence have an upper bound.
LEMMA SequenceBounded ==
    ASSUME NEW l \in Nat, NEW s, \A i \in 1 .. l : s[i] \in Nat
    PROVE  \E m \in Nat : \A i \in 1 .. l : s[i] <= m
<1> DEFINE Free == {n \in 0 .. l : ~ \E m \in Nat : \A i \in 1 .. n : s[i] <= m}
<1>1. l \in Nat /\ \A i \in 1 .. l : s[i] \in Nat
  OBVIOUS
<1>2. Free = {}
  <2> SUFFICES ASSUME Free # {} PROVE FALSE
    OBVIOUS
  <2>1. Free \subseteq Nat
    BY <1>1
  <2>2. PICK n \in Free : \A m \in Free : n <= m
    <3> HIDE DEF Free
    <3> QED BY <2>1, LeastNumber
  <2>3. n \in 0 .. l /\ ~ \E m \in Nat : \A i \in 1 .. n : s[i] <= m
    BY <2>2
  <2>4. n # 0
    <3> SUFFICES ASSUME n = 0 PROVE FALSE
      OBVIOUS
    <3>1. \A i \in 1 .. n : s[i] <= 0
      OBVIOUS
    <3> QED BY <2>3, <3>1
  <2>5. n - 1 \in 0 .. l /\ n - 1 \notin Free
    <3>1. n \in Nat /\ n - 1 \in 0 .. l /\ ~(n <= n - 1)
      BY <1>1, <2>3, <2>4
    <3> HIDE DEF Free
    <3> QED BY <2>2, <3>1
  <2>6. PICK m \in Nat : \A i \in 1 .. n - 1 : s[i] <= m
    BY <2>5
  <2>7. s[n] \in Nat
    BY <1>1, <2>3, <2>4
  <2>8. \A i \in 1 .. n : s[i] <= m + s[n]
    <3> SUFFICES ASSUME NEW i \in 1 .. n PROVE s[i] <= m + s[n]
      OBVIOUS
    <3>1. CASE i = n
      BY <2>6, <2>7, <3>1
    <3>2. CASE i # n
      <4>1. i \in 1 .. n - 1 /\ i \in 1 .. l
        BY <1>1, <2>3, <3>2
      <4>2. s[i] <= m /\ s[i] \in Nat
        BY <1>1, <2>6, <4>1
      <4> QED BY <2>6, <2>7, <4>2
    <3> QED BY <3>1, <3>2
  <2>9. m + s[n] \in Nat
    BY <2>6, <2>7
  <2> QED BY <2>3, <2>8, <2>9
<1>3. l \in 0 .. l
  BY <1>1
<1> QED BY <1>2, <1>3, Zenon

\* No block is longer than the longest.
LEMMA LargestBounds ==
    ASSUME Record!RecordAssumption
    PROVE  Record!Largest(BlockSizes) \in Nat /\ \A n \in BlockSizes : n \in Nat /\ n <= Record!Largest(BlockSizes)
<1> DEFINE Bounds == {m \in Nat : \A n \in BlockSizes : n <= m}
<1>1. BlockSizes \subseteq Nat \ {0} /\ BlockSizes # {}
  BY DEF Record!RecordAssumption
<1>2. PICK s \in Seq(BlockSizes) : \A n \in BlockSizes : \E i \in 1 .. Len(s) : s[i] = n
  BY DEF Record!RecordAssumption, Record!IsFiniteSet
<1>3. PICK b \in Nat : \A i \in 1 .. Len(s) : s[i] <= b
  <2>1. Len(s) \in Nat /\ \A i \in 1 .. Len(s) : s[i] \in BlockSizes
    BY <1>2
  <2>2. \A i \in 1 .. Len(s) : s[i] \in Nat
    BY <1>1, <2>1, Zenon
  <2> QED BY <2>1, <2>2, SequenceBounded
<1>4. b \in Bounds
  BY <1>2, <1>3
<1>5. PICK m \in Bounds : \A k \in Bounds : m <= k
  <2>1. Bounds \subseteq Nat /\ Bounds # {}
    BY <1>4
  <2> HIDE DEF Bounds
  <2> QED BY <2>1, LeastNumber
<1>6. m \in BlockSizes
  <2> SUFFICES ASSUME m \notin BlockSizes PROVE FALSE
    OBVIOUS
  <2>1. m \in Nat /\ \A n \in BlockSizes : n \in Nat /\ n > 0 /\ n < m
    BY <1>1, <1>5
  <2>2. PICK e \in BlockSizes : e \in Nat /\ e > 0 /\ e < m
    BY <1>1, <2>1
  <2>3. m - 1 \in Nat /\ ~(m <= m - 1)
    BY <2>1, <2>2
  <2>4. ASSUME NEW n \in BlockSizes PROVE n <= m - 1
    <3>1. n \in Nat /\ n < m /\ m \in Nat
      BY <2>1
    <3> QED BY <3>1
  <2> QED BY <1>5, <2>3, <2>4
<1>7. \A n \in BlockSizes : m >= n
  BY <1>1, <1>5
<1>8. Record!Largest(BlockSizes) \in BlockSizes /\ \A n \in BlockSizes : Record!Largest(BlockSizes) >= n
  BY <1>6, <1>7 DEF Record!Largest
<1> QED BY <1>1, <1>8

\* A free descriptor is found, the lowest one.
LEMMA LowestFound ==
    ASSUME NEW S, S \subseteq 1 .. MaxFd, S # {}
    PROVE  Record!Lowest(S) \in S
<1>1. S \subseteq Nat
  OBVIOUS
<1>2. PICK d \in S : \A e \in S : d <= e
  BY <1>1, LeastNumber
<1> QED BY <1>2 DEF Record!Lowest

\* One thread of the table changed.
LEMMA ChangedThread ==
    ASSUME NEW T, NEW s \in Seq(T), NEW t \in 1 .. Len(s), NEW r \in T, NEW n, n = [s EXCEPT ![t] = r]
    PROVE  /\ n \in Seq(T) /\ Len(n) = Len(s) /\ n[t] = r
           /\ \A u \in 1 .. Len(s) : u # t => n[u] = s[u]
  OBVIOUS

\* A thread that is marked stays a thread.
LEMMA CancelTyped ==
    ASSUME NEW r \in ThreadT
    PROVE  [r EXCEPT !.cancelled = TRUE] \in ThreadT
  BY DEF ThreadT

\* pthread_cancel_by_name marks the thread that is registered.
LEMMA CancelledThread ==
    ASSUME RecTypes, NEW k \in Record!Kinds, NEW n, n = Record!CancelNamed(fTh, k)
    PROVE  /\ n \in Seq(ThreadT) /\ Len(n) = Len(fTh)
           /\ \A u \in 1 .. Len(fTh) :
                 n[u] = IF u = fReg[k] THEN [fTh[u] EXCEPT !.cancelled = TRUE] ELSE fTh[u]
<1>1. fTh \in Seq(ThreadT) /\ fReg[k] \in 0 .. Len(fTh) /\ Len(fTh) \in Nat
  BY DEF RecTypes
<1>2. CASE fReg[k] = 0
  BY <1>1, <1>2 DEF Record!CancelNamed
<1>3. CASE fReg[k] # 0
  <2>1. fReg[k] \in 1 .. Len(fTh)
    BY <1>1, <1>3
  <2>a. fTh[fReg[k]] \in ThreadT
    BY <1>1, <2>1
  <2>b. [fTh[fReg[k]] EXCEPT !.cancelled = TRUE] \in ThreadT
    BY <2>a, CancelTyped
  <2>2. PICK r \in ThreadT : r = [fTh[fReg[k]] EXCEPT !.cancelled = TRUE]
    BY <2>b
  <2>3. PICK t \in 1 .. Len(fTh) : t = fReg[k]
    BY <2>1
  <2>4. n = [fTh EXCEPT ![t] = r]
    BY <1>3, <2>2, <2>3 DEF Record!CancelNamed
  <2>5. /\ n \in Seq(ThreadT) /\ Len(n) = Len(fTh) /\ n[t] = r
        /\ \A u \in 1 .. Len(fTh) : u # t => n[u] = fTh[u]
    BY <1>1, <2>2, <2>4, ChangedThread
  <2> QED BY <2>2, <2>3, <2>5
<1> QED BY <1>2, <1>3

\* Nothing runs at the beginning.
LEMMA RecInit ==
    ASSUME Record!RecordAssumption, Record!Init
    PROVE  RecInv
<1> USE DEF Record!Init
<1>1. Len(fTh) = 0 /\ 1 .. Len(fTh) = {} /\ fTh \in Seq(ThreadT)
  OBVIOUS
<1>2. RecTypes
  <2>1. fReg \in [Record!Kinds -> 0 .. Len(fTh)] /\ fFds \in [1 .. MaxFd -> 0 .. Len(fTh)]
    BY <1>1
  <2> QED BY <1>1, <2>1 DEF RecTypes
<1>3. ThreadsInv /\ PlayInv
  BY <1>1 DEF ThreadsInv, PlayInv
<1>4. FdInv
  BY <1>1 DEF FdInv
<1>5. SampleInv
  BY DEF SampleInv, Record!Kinds
<1> QED BY <1>2, <1>3, <1>4, <1>5 DEF RecInv

\* What the types say of every thread.
LEMMA ThreadTyped ==
    ASSUME RecTypes
    PROVE  /\ Len(fTh) \in Nat /\ fFds \in [1 .. MaxFd -> 0 .. Len(fTh)]
           /\ \A u \in 1 .. Len(fTh) : fTh[u] \in ThreadT /\ fTh[u].fd \in 1 .. MaxFd
<1>1. Len(fTh) \in Nat /\ fFds \in [1 .. MaxFd -> 0 .. Len(fTh)] /\ \A u \in 1 .. Len(fTh) : fTh[u] \in ThreadT
  BY DEF RecTypes
<1>2. \A r \in ThreadT : r.fd \in 1 .. MaxFd
  BY DEF ThreadT
<1> QED BY <1>1, <1>2

\* The descriptors stay straight when no thread ends and none gets another file.
LEMMA FdKept ==
    ASSUME FdInv, Len(fTh') = Len(fTh), fFds' = fFds, fLeaked' = fLeaked, fMisfit' = fMisfit,
           \A u \in 1 .. Len(fTh) : fTh'[u].fd = fTh[u].fd /\ (fTh'[u].pc = "ended" <=> fTh[u].pc = "ended")
    PROVE  FdInv'
<1> SUFFICES ASSUME ~fMisfit
             PROVE  /\ \A d \in 1 .. MaxFd : fFds[d] # 0 <=>
                          d \in fLeaked \/ \E t \in 1 .. Len(fTh) : fTh'[t].pc # "ended" /\ fTh'[t].fd = d
                    /\ \A t \in 1 .. Len(fTh) : fTh'[t].pc # "ended" => fFds[fTh'[t].fd] = t /\ fTh'[t].fd \notin fLeaked
  BY DEF FdInv
<1> QED BY DEF FdInv

\* A file opened for a new thread is nobody else's.
LEMMA FdOpened ==
    ASSUME RecTypes, FdInv, NEW d \in 1 .. MaxFd, fFds[d] = 0, fFds' = [fFds EXCEPT ![d] = Len(fTh) + 1],
           Len(fTh') = Len(fTh) + 1, \A u \in 1 .. Len(fTh) : fTh'[u] = fTh[u],
           fTh'[Len(fTh) + 1].fd = d, fTh'[Len(fTh) + 1].pc # "ended", fLeaked' = fLeaked, fMisfit' = fMisfit
    PROVE  FdInv'
<1>1. Len(fTh) \in Nat /\ fFds \in [1 .. MaxFd -> 0 .. Len(fTh)] /\ \A u \in 1 .. Len(fTh) : fTh[u].fd \in 1 .. MaxFd
  BY ThreadTyped
<1>2. PICK n \in Nat : n = Len(fTh) + 1 /\ n \in 1 .. n /\ n # 0 /\ \A u \in 1 .. n : u = n \/ u \in 1 .. Len(fTh)
  BY <1>1
<1>3. 1 .. Len(fTh') = 1 .. n /\ \A u \in 1 .. Len(fTh) : u \in 1 .. n
  BY <1>1, <1>2
<1> SUFFICES ASSUME ~fMisfit
             PROVE  /\ \A e \in 1 .. MaxFd : fFds'[e] # 0 <=>
                          e \in fLeaked \/ \E t \in 1 .. n : fTh'[t].pc # "ended" /\ fTh'[t].fd = e
                    /\ \A t \in 1 .. n : fTh'[t].pc # "ended" => fFds'[fTh'[t].fd] = t /\ fTh'[t].fd \notin fLeaked
  BY <1>3 DEF FdInv
<1>4. d \notin fLeaked /\ \A u \in 1 .. Len(fTh) : fTh[u].pc # "ended" => fTh[u].fd # d
  BY DEF FdInv
<1>5. fFds'[d] = n /\ \A e \in 1 .. MaxFd : e # d => fFds'[e] = fFds[e]
  BY <1>1, <1>2
<1>6. ASSUME NEW e \in 1 .. MaxFd
      PROVE  fFds'[e] # 0 <=> e \in fLeaked \/ \E t \in 1 .. n : fTh'[t].pc # "ended" /\ fTh'[t].fd = e
  <2>1. CASE e = d
    BY <1>2, <1>5, <2>1
  <2>2. CASE e # d
    <3>1. (\E t \in 1 .. n : fTh'[t].pc # "ended" /\ fTh'[t].fd = e)
             <=> (\E t \in 1 .. Len(fTh) : fTh[t].pc # "ended" /\ fTh[t].fd = e)
      BY <1>2, <1>3, <2>2
    <3> QED BY <1>5, <2>2, <3>1 DEF FdInv
  <2> QED BY <2>1, <2>2
<1>7. ASSUME NEW t \in 1 .. n, fTh'[t].pc # "ended"
      PROVE  fFds'[fTh'[t].fd] = t /\ fTh'[t].fd \notin fLeaked
  <2>1. CASE t = n
    BY <1>2, <1>4, <1>5, <2>1
  <2>2. CASE t # n
    <3>1. t \in 1 .. Len(fTh) /\ fTh'[t] = fTh[t] /\ fTh[t].fd \in 1 .. MaxFd
      BY <1>1, <1>2, <2>2
    <3> QED BY <1>4, <1>5, <1>7, <3>1 DEF FdInv
  <2> QED BY <2>1, <2>2
<1> QED BY <1>6, <1>7

\* A thread that ends closes its file and no other.
LEMMA FdClosed ==
    ASSUME RecTypes, FdInv, NEW t \in 1 .. Len(fTh), fTh[t].pc # "ended", fFds' = [fFds EXCEPT ![fTh[t].fd] = 0],
           Len(fTh') = Len(fTh), \A u \in 1 .. Len(fTh) : u # t => fTh'[u] = fTh[u],
           fTh'[t].pc = "ended", fLeaked' = fLeaked, fMisfit' = fMisfit
    PROVE  FdInv'
<1>1. Len(fTh) \in Nat /\ fFds \in [1 .. MaxFd -> 0 .. Len(fTh)] /\ \A u \in 1 .. Len(fTh) : fTh[u].fd \in 1 .. MaxFd
  BY ThreadTyped
<1>2. PICK f \in 1 .. MaxFd : f = fTh[t].fd
  BY <1>1
<1>3. fFds'[f] = 0 /\ \A e \in 1 .. MaxFd : e # f => fFds'[e] = fFds[e]
  BY <1>1, <1>2
<1> SUFFICES ASSUME ~fMisfit
             PROVE  /\ \A e \in 1 .. MaxFd : fFds'[e] # 0 <=>
                          e \in fLeaked \/ \E u \in 1 .. Len(fTh) : fTh'[u].pc # "ended" /\ fTh'[u].fd = e
                    /\ \A u \in 1 .. Len(fTh) : fTh'[u].pc # "ended" => fFds'[fTh'[u].fd] = u /\ fTh'[u].fd \notin fLeaked
  BY DEF FdInv
<1>4. f \notin fLeaked /\ \A u \in 1 .. Len(fTh) : u # t /\ fTh[u].pc # "ended" => fTh[u].fd # f
  BY <1>2 DEF FdInv
<1>5. ASSUME NEW e \in 1 .. MaxFd
      PROVE  fFds'[e] # 0 <=> e \in fLeaked \/ \E u \in 1 .. Len(fTh) : fTh'[u].pc # "ended" /\ fTh'[u].fd = e
  <2>1. CASE e = f
    BY <1>3, <1>4, <2>1
  <2>2. CASE e # f
    <3>1. (\E u \in 1 .. Len(fTh) : fTh'[u].pc # "ended" /\ fTh'[u].fd = e)
             <=> (\E u \in 1 .. Len(fTh) : fTh[u].pc # "ended" /\ fTh[u].fd = e)
      BY <1>2, <2>2
    <3> QED BY <1>3, <2>2, <3>1 DEF FdInv
  <2> QED BY <2>1, <2>2
<1>6. ASSUME NEW u \in 1 .. Len(fTh), fTh'[u].pc # "ended"
      PROVE  fFds'[fTh'[u].fd] = u /\ fTh'[u].fd \notin fLeaked
  <2>1. u # t /\ fTh'[u] = fTh[u] /\ fTh[u].fd \in 1 .. MaxFd
    BY <1>1, <1>6
  <2> QED BY <1>3, <1>4, <1>6, <2>1 DEF FdInv
<1> QED BY <1>5, <1>6

\* A new file for an old one: _fs_split_file.
LEMMA FdSwapped ==
    ASSUME RecTypes, FdInv, NEW t \in 1 .. Len(fTh), fTh[t].pc # "ended", NEW d \in 1 .. MaxFd,
           fFds[d] = 0 \/ d = fTh[t].fd, fFds' = [fFds EXCEPT ![fTh[t].fd] = 0, ![d] = t],
           Len(fTh') = Len(fTh), \A u \in 1 .. Len(fTh) : u # t => fTh'[u] = fTh[u],
           fTh'[t].pc # "ended", fTh'[t].fd = d, fLeaked' = fLeaked, fMisfit' = fMisfit
    PROVE  FdInv'
<1>1. Len(fTh) \in Nat /\ fFds \in [1 .. MaxFd -> 0 .. Len(fTh)] /\ \A u \in 1 .. Len(fTh) : fTh[u].fd \in 1 .. MaxFd
  BY ThreadTyped
<1>2. PICK f \in 1 .. MaxFd : f = fTh[t].fd
  BY <1>1
<1>3. /\ fFds'[d] = t /\ t # 0 /\ (f # d => fFds'[f] = 0)
      /\ \A e \in 1 .. MaxFd : e # f /\ e # d => fFds'[e] = fFds[e]
  BY <1>1, <1>2
<1> SUFFICES ASSUME ~fMisfit
             PROVE  /\ \A e \in 1 .. MaxFd : fFds'[e] # 0 <=>
                          e \in fLeaked \/ \E u \in 1 .. Len(fTh) : fTh'[u].pc # "ended" /\ fTh'[u].fd = e
                    /\ \A u \in 1 .. Len(fTh) : fTh'[u].pc # "ended" => fFds'[fTh'[u].fd] = u /\ fTh'[u].fd \notin fLeaked
  BY ZenonT(30) DEF FdInv
<1>4. /\ f \notin fLeaked /\ d \notin fLeaked
      /\ \A u \in 1 .. Len(fTh) : u # t /\ fTh[u].pc # "ended" => fTh[u].fd # f /\ fTh[u].fd # d
  <2>1. f \notin fLeaked /\ \A u \in 1 .. Len(fTh) : u # t /\ fTh[u].pc # "ended" => fTh[u].fd # f
    BY <1>2 DEF FdInv
  <2>2. CASE d = f
    BY <2>1, <2>2
  <2>3. CASE fFds[d] = 0
    BY <2>1, <2>3 DEF FdInv
  <2> QED BY <1>2, <2>2, <2>3
<1>5. ASSUME NEW e \in 1 .. MaxFd
      PROVE  fFds'[e] # 0 <=> e \in fLeaked \/ \E u \in 1 .. Len(fTh) : fTh'[u].pc # "ended" /\ fTh'[u].fd = e
  <2>1. CASE e = d
    BY <1>3, <2>1
  <2>2. CASE e # d /\ e = f
    BY <1>3, <1>4, <2>2
  <2>3. CASE e # d /\ e # f
    <3>1. (\E u \in 1 .. Len(fTh) : fTh'[u].pc # "ended" /\ fTh'[u].fd = e)
             <=> (\E u \in 1 .. Len(fTh) : fTh[u].pc # "ended" /\ fTh[u].fd = e)
      BY <1>2, <2>3
    <3> QED BY <1>3, <2>3, <3>1 DEF FdInv
  <2> QED BY <2>1, <2>2, <2>3
<1>6. ASSUME NEW u \in 1 .. Len(fTh), fTh'[u].pc # "ended"
      PROVE  fFds'[fTh'[u].fd] = u /\ fTh'[u].fd \notin fLeaked
  <2>1. CASE u = t
    BY <1>3, <1>4, <2>1
  <2>2. CASE u # t
    <3>1. fTh'[u] = fTh[u] /\ fTh[u].fd \in 1 .. MaxFd
      BY <1>1, <2>2
    <3>2. PICK e \in 1 .. MaxFd : e = fTh[u].fd
      BY <3>1
    <3>3. e # f /\ e # d
      BY <1>4, <1>6, <2>2, <3>1, <3>2
    <3>4. fFds[e] = u /\ e \notin fLeaked
      BY <1>6, <3>1, <3>2 DEF FdInv
    <3> QED BY <1>3, <3>1, <3>2, <3>3, <3>4, ZenonT(30)
  <2> QED BY <2>1, <2>2
<1> QED BY <1>5, <1>6

\* The sampling stays right when nobody stops it.
LEMMA SamplesKept ==
    ASSUME RecTypes, SampleInv, fReg'["save"] = fReg["save"], fAdc' = fAdc, fEnded' = fEnded, fStale => fStale',
           \A u \in 1 .. Len(fTh) : fTh'[u].pc = "cancel" <=> fTh[u].pc = "cancel"
    PROVE  SampleInv'
<1>1. fReg["save"] \in 0 .. Len(fTh) /\ Len(fTh) \in Nat
  BY DEF RecTypes, Record!Kinds
<1>2. fReg["save"] # 0 => fReg["save"] \in 1 .. Len(fTh)
  BY <1>1
<1> QED BY <1>2 DEF SampleInv

\* The playing stays right when nobody stops it.
LEMMA PlayKept ==
    ASSUME PlayInv, Len(fTh) \in Nat, Len(fTh') \in Nat, Len(fTh') >= Len(fTh), fReg'["play"] = fReg["play"],
           fBt' => fBt, fStale => fStale',
           \A u \in 1 .. Len(fTh) :
              fTh'[u].kind = fTh[u].kind /\ (fTh[u].kind = "play" =>
                  (fTh'[u].pc = "ended" => fTh[u].pc = "ended") /\ (fTh[u].pc = "exit" => fTh'[u].pc = "exit"))
    PROVE  PlayInv'
<1> SUFFICES ASSUME fBt', ~fStale'
             PROVE  \E t \in 1 .. Len(fTh') :
                       fTh'[t].kind = "play" /\ fTh'[t].pc # "ended" /\ (fReg'["play"] = t \/ fTh'[t].pc = "exit")
  BY DEF PlayInv
<1>1. PICK t \in 1 .. Len(fTh) :
        fTh[t].kind = "play" /\ fTh[t].pc # "ended" /\ (fReg["play"] = t \/ fTh[t].pc = "exit")
  BY DEF PlayInv
<1>2. t \in 1 .. Len(fTh')
  OBVIOUS
<1> QED BY <1>1, <1>2

\* A step of one thread that keeps its invariant keeps everybody's.
LEMMA OneThread ==
    ASSUME RecTypes, ThreadsInv, NEW t \in 1 .. Len(fTh), NEW r \in ThreadT, fTh' = [fTh EXCEPT ![t] = r],
           fReg'["save"] = fReg["save"], ThreadOK(t, r)
    PROVE  /\ fTh' \in Seq(ThreadT) /\ Len(fTh') = Len(fTh) /\ Len(fTh) \in Nat /\ fTh'[t] = r
           /\ \A u \in 1 .. Len(fTh) : u # t => fTh'[u] = fTh[u]
           /\ ThreadsInv'
<1>1. fTh \in Seq(ThreadT)
  BY DEF RecTypes
<1>2. /\ fTh' \in Seq(ThreadT) /\ Len(fTh') = Len(fTh) /\ Len(fTh) \in Nat /\ fTh'[t] = r
      /\ \A u \in 1 .. Len(fTh) : u # t => fTh'[u] = fTh[u]
  BY <1>1, ChangedThread
<1>3. ASSUME NEW u \in 1 .. Len(fTh) PROVE ThreadOK(u, fTh[u])'
  <2>1. PICK q : q = fTh'[u] /\ ThreadOK(u, q)
    BY <1>2 DEF ThreadsInv
  <2> QED BY <2>1 DEF ThreadOK
<1> QED BY <1>2, <1>3 DEF ThreadsInv

\* The steps of a thread that are nobody else's business.
LEMMA ThreadStep ==
    ASSUME RecInv, NEW t \in 1 .. Len(fTh), NEW r \in ThreadT, fTh' = [fTh EXCEPT ![t] = r], ThreadOK(t, r),
           r.kind = fTh[t].kind, r.fd = fTh[t].fd, r.pc = "ended" <=> fTh[t].pc = "ended",
           r.pc = "cancel" <=> fTh[t].pc = "cancel", fTh[t].pc = "exit" => r.pc = "exit",
           UNCHANGED <<fReg, fFds, fAdc, fBt, fFull, fLeaked, fEnded, fMisfit, fStale>>
    PROVE  RecInv'
<1>1. RecTypes /\ ThreadsInv /\ FdInv /\ SampleInv /\ PlayInv
  BY DEF RecInv
<1>2. /\ fTh' \in Seq(ThreadT) /\ Len(fTh') = Len(fTh) /\ Len(fTh) \in Nat /\ fTh'[t] = r
      /\ \A u \in 1 .. Len(fTh) : u # t => fTh'[u] = fTh[u]
      /\ ThreadsInv'
  BY <1>1, OneThread
<1>3. RecTypes'
  BY <1>1, <1>2, Zenon DEF RecTypes
<1>4. \A u \in 1 .. Len(fTh) : /\ fTh'[u].fd = fTh[u].fd /\ (fTh'[u].pc = "ended" <=> fTh[u].pc = "ended")
                               /\ (fTh'[u].pc = "cancel" <=> fTh[u].pc = "cancel")
                               /\ fTh'[u].kind = fTh[u].kind /\ (fTh[u].pc = "exit" => fTh'[u].pc = "exit")
  BY <1>2
<1>5. FdInv'
  BY <1>1, <1>2, <1>4, FdKept
<1>6. SampleInv'
  BY <1>1, <1>4, SamplesKept
<1>7. PlayInv'
  BY <1>1, <1>2, <1>4, PlayKept
<1> QED BY <1>2, <1>3, <1>5, <1>6, <1>7 DEF RecInv

\* _fs_save_init, and a block taken from the DMA.
LEMMA InitBlockHolds ==
    ASSUME Record!RecordAssumption, RecInv, NEW t \in 1 .. Len(fTh),
           Record!SaveInit(t) \/ \E n \in BlockSizes : Record!TakeBlock(t, n)
    PROVE  RecInv'
<1>1. RecTypes /\ fTh[t] \in ThreadT /\ ThreadOK(t, fTh[t])
  BY ThreadTyped DEF RecInv, ThreadsInv
<1>2. CASE Record!SaveInit(t)
  <2>1. PICK b \in BOOLEAN : b = (fTh[t].policy = "TIMER")
    OBVIOUS
  <2>2. PICK r : r = [fTh[t] EXCEPT !.pc = "loop", !.timer = b]
    OBVIOUS
  <2>3. /\ r \in ThreadT /\ r.kind = fTh[t].kind /\ r.fd = fTh[t].fd /\ r.pc = "loop" /\ r.policy = fTh[t].policy
        /\ r.nbyte = fTh[t].nbyte /\ r.cancelled = fTh[t].cancelled
    BY <1>1, <2>2 DEF ThreadT
  <2>4. fTh[t].pc = "init" /\ fTh' = [fTh EXCEPT ![t] = r] /\ UNCHANGED <<fReg, fFds, fAdc, fBt, fFull, fLeaked, fEnded, fMisfit, fStale>>
    BY <1>2, <2>1, <2>2 DEF Record!SaveInit
  <2>5. ThreadOK(t, r)
    BY <1>1, <2>3, <2>4 DEF ThreadOK
  <2> QED BY <2>3, <2>4, <2>5, ThreadStep
<1>3. ASSUME NEW n \in BlockSizes, Record!TakeBlock(t, n) PROVE RecInv'
  <2>0. n \in Nat
    BY DEF Record!RecordAssumption
  <2>2. PICK r : r = [fTh[t] EXCEPT !.pc = "got", !.block = n]
    OBVIOUS
  <2>3. /\ r \in ThreadT /\ r.kind = fTh[t].kind /\ r.fd = fTh[t].fd /\ r.pc = "got" /\ r.policy = fTh[t].policy
        /\ r.nbyte = fTh[t].nbyte /\ r.cancelled = fTh[t].cancelled /\ r.block = n /\ r.timer = fTh[t].timer
    BY <1>1, <2>0, <2>2 DEF ThreadT
  <2>4. /\ fTh[t].pc = "loop" /\ fTh[t].kind = "save" /\ fTh' = [fTh EXCEPT ![t] = r]
        /\ UNCHANGED <<fReg, fFds, fAdc, fBt, fFull, fLeaked, fEnded, fMisfit, fStale>>
    BY <1>3, <2>2 DEF Record!TakeBlock
  <2>5. ThreadOK(t, r)
    BY <1>1, <2>3, <2>4 DEF ThreadOK
  <2> QED BY <2>3, <2>4, <2>5, ThreadStep
<1> QED BY <1>2, <1>3

\* A full disk, the look at the cancellation, a part of a file played.
LEMMA TurnHolds ==
    ASSUME Record!RecordAssumption, RecInv, NEW t \in 1 .. Len(fTh),
           Record!DiskFull(t) \/ Record!CheckCancel(t) \/ Record!PlayBlock(t)
    PROVE  RecInv'
<1>1. RecTypes /\ fTh[t] \in ThreadT /\ ThreadOK(t, fTh[t])
  BY ThreadTyped DEF RecInv, ThreadsInv
<1>2. PICK p \in {"stop", "exit", "loop", "check"} :
        /\ fTh' = [fTh EXCEPT ![t] = [fTh[t] EXCEPT !.pc = p]]
        /\ UNCHANGED <<fReg, fFds, fAdc, fBt, fFull, fLeaked, fEnded, fMisfit, fStale>>
        /\ \/ fTh[t].pc = "got" /\ p = "stop"
           \/ fTh[t].pc = "check" /\ p = IF fTh[t].cancelled THEN "exit" ELSE "loop"
           \/ fTh[t].pc = "loop" /\ fTh[t].kind = "play" /\ p = "check"
  BY DEF Record!DiskFull, Record!CheckCancel, Record!PlayBlock
<1>3. PICK r : r = [fTh[t] EXCEPT !.pc = p]
  OBVIOUS
<1>4. /\ r \in ThreadT /\ r.kind = fTh[t].kind /\ r.fd = fTh[t].fd /\ r.pc = p /\ r.policy = fTh[t].policy
      /\ r.nbyte = fTh[t].nbyte /\ r.cancelled = fTh[t].cancelled /\ r.timer = fTh[t].timer
  BY <1>1, <1>3 DEF ThreadT
<1>5. ThreadOK(t, r)
  BY <1>1, <1>2, <1>4 DEF ThreadOK
<1> QED BY <1>2, <1>3, <1>4, <1>5, ThreadStep

\* The state of a thread after a block: its size is not exceeded by more than a block.
LEMMA StoredFacts ==
    ASSUME Record!RecordAssumption, RecInv, NEW t \in 1 .. Len(fTh), fTh[t].pc = "got",
           NEW piece \in Nat, NEW bad \in BOOLEAN, NEW r, r = Record!Stored(t, piece, bad)
    PROVE  /\ r \in ThreadT /\ r.kind = fTh[t].kind /\ r.fd = fTh[t].fd /\ r.pc \in {"stop", "check"}
           /\ ThreadOK(t, r)
<1>1. RecTypes /\ fTh[t] \in ThreadT /\ ThreadOK(t, fTh[t])
  BY ThreadTyped DEF RecInv, ThreadsInv
<1>2. fTh[t].block \in Nat /\ fTh[t].nbyte \in Nat /\ fTh[t].wentOn \in BOOLEAN /\ fTh[t].error \in BOOLEAN
  BY <1>1 DEF ThreadT
<1>3. PICK nb \in Nat, sp \in Nat, w \in BOOLEAN :
         nb = fTh[t].nbyte + fTh[t].block /\ sp = piece + fTh[t].block /\ w = (fTh[t].wentOn \/ fTh[t].error)
  <2>1. fTh[t].nbyte + fTh[t].block \in Nat /\ piece + fTh[t].block \in Nat
    BY <1>2
  <2>2. (fTh[t].wentOn \/ fTh[t].error) \in BOOLEAN
    OBVIOUS
  <2> QED BY <2>1, <2>2
<1>4. PICK q : q = [fTh[t] EXCEPT !.nbyte = nb, !.split = sp, !.block = 0, !.error = bad, !.wentOn = w]
  OBVIOUS
<1>5. PICK p \in {"stop", "check"} : p = IF Record!SizeFull(q) THEN "stop" ELSE "check"
  OBVIOUS
<1>6. r = [q EXCEPT !.pc = p]
  BY <1>3, <1>4, <1>5 DEF Record!Stored
<1>7. /\ q \in ThreadT /\ q.nbyte = nb /\ q.policy = fTh[t].policy /\ q.kind = fTh[t].kind /\ q.fd = fTh[t].fd
      /\ q.cancelled = fTh[t].cancelled /\ q.timer = fTh[t].timer
  BY <1>1, <1>4 DEF ThreadT
<1>8. /\ r \in ThreadT /\ r.nbyte = nb /\ r.policy = fTh[t].policy /\ r.kind = fTh[t].kind /\ r.fd = fTh[t].fd
      /\ r.cancelled = fTh[t].cancelled /\ r.timer = fTh[t].timer /\ r.pc = p
  BY <1>6, <1>7 DEF ThreadT
<1>9. r.policy = "SIZE" => nb < SizeAsked + Record!Largest(BlockSizes) /\ (nb >= SizeAsked => p = "stop")
  <2> SUFFICES ASSUME r.policy = "SIZE"
               PROVE  nb < SizeAsked + Record!Largest(BlockSizes) /\ (nb >= SizeAsked => p = "stop")
    OBVIOUS
  <2>1. SizeAsked \in Nat
    BY DEF Record!RecordAssumption
  <2>2. fTh[t].block \in BlockSizes /\ ~(fTh[t].nbyte >= SizeAsked)
    BY <1>1, <1>8 DEF ThreadOK
  <2>3. PICK l \in Nat : l = Record!Largest(BlockSizes) /\ fTh[t].block <= l
    BY <2>2, LargestBounds
  <2>4. nb < SizeAsked + l
    BY <1>2, <1>3, <2>1, <2>2, <2>3
  <2>5. nb >= SizeAsked => p = "stop"
    BY <1>5, <1>7, <1>8 DEF Record!SizeFull
  <2> QED BY <2>3, <2>4, <2>5
<1>10. ThreadOK(t, r)
  BY <1>1, <1>8, <1>9 DEF ThreadOK
<1> QED BY <1>8, <1>10

\* The same of the term itself.
LEMMA StoredIs ==
    ASSUME Record!RecordAssumption, RecInv, NEW t \in 1 .. Len(fTh), fTh[t].pc = "got",
           NEW piece \in Nat, NEW bad \in BOOLEAN
    PROVE  /\ Record!Stored(t, piece, bad) \in ThreadT
           /\ Record!Stored(t, piece, bad).kind = fTh[t].kind
           /\ Record!Stored(t, piece, bad).pc \in {"stop", "check"}
           /\ ThreadOK(t, Record!Stored(t, piece, bad))
BY StoredFacts

\* A block stored in the file at hand.
LEMMA RecStoreHolds ==
    ASSUME Record!RecordAssumption, RecInv, NEW t \in 1 .. Len(fTh), NEW bad \in BOOLEAN, Record!Store(t, bad)
    PROVE  RecInv'
<1>1. fTh[t] \in ThreadT /\ fTh[t].split \in Nat
  BY ThreadTyped DEF RecInv, ThreadT
<1>2. PICK r : r = Record!Stored(t, fTh[t].split, bad)
  OBVIOUS
<1>3. /\ fTh[t].pc = "got" /\ fTh' = [fTh EXCEPT ![t] = r]
      /\ UNCHANGED <<fReg, fFds, fAdc, fBt, fFull, fLeaked, fEnded, fMisfit, fStale>>
  BY <1>2 DEF Record!Store
<1>4. /\ r \in ThreadT /\ r.kind = fTh[t].kind /\ r.fd = fTh[t].fd /\ r.pc \in {"stop", "check"}
      /\ ThreadOK(t, r)
  BY <1>1, <1>2, <1>3, StoredFacts
<1>5. /\ r.pc = "ended" <=> fTh[t].pc = "ended"
      /\ r.pc = "cancel" <=> fTh[t].pc = "cancel"
      /\ fTh[t].pc = "exit" => r.pc = "exit"
  BY <1>3, <1>4
<1> QED BY <1>3, <1>4, <1>5, ThreadStep

\* A block stored in the next file, or dropped when that cannot be opened.
LEMMA SplitHolds ==
    ASSUME Record!RecordAssumption, RecInv, NEW t \in 1 .. Len(fTh),
           Record!SplitFails(t) \/ \E bad \in BOOLEAN : Record!SplitStore(t, bad)
    PROVE  RecInv'
<1>1. /\ RecTypes /\ ThreadsInv /\ FdInv /\ SampleInv /\ PlayInv /\ fTh[t] \in ThreadT
      /\ Len(fTh) \in Nat /\ fFds \in [1 .. MaxFd -> 0 .. Len(fTh)] /\ fTh[t].fd \in 1 .. MaxFd
  BY ThreadTyped DEF RecInv
<1>3. ASSUME NEW bad \in BOOLEAN, Record!SplitStore(t, bad) PROVE RecInv'
  <2> DEFINE S == Record!FreeFds \cup {fTh[t].fd}
  <2>1. PICK d \in S : d = Record!Lowest(S)
    <3>1. S \subseteq 1 .. MaxFd /\ S # {}
      BY <1>1 DEF Record!FreeFds
    <3> HIDE DEF S
    <3> QED BY <3>1, LowestFound
  <2>2. d \in 1 .. MaxFd /\ (fFds[d] = 0 \/ d = fTh[t].fd)
    BY <1>1, <2>1 DEF Record!FreeFds
  <2>3. PICK q : q = Record!Stored(t, 0, bad)
    OBVIOUS
  <2>4. PICK r : r = [q EXCEPT !.fd = d]
    OBVIOUS
  <2>5. /\ fTh[t].pc = "got" /\ fTh' = [fTh EXCEPT ![t] = r] /\ fFds' = [fFds EXCEPT ![fTh[t].fd] = 0, ![d] = t]
        /\ UNCHANGED <<fReg, fAdc, fBt, fFull, fLeaked, fEnded, fMisfit, fStale>>
    <3>1. /\ fTh[t].pc = "got" /\ fFds' = [fFds EXCEPT ![fTh[t].fd] = 0, ![Record!Lowest(S)] = t]
          /\ fTh' = [fTh EXCEPT ![t] = [Record!Stored(t, 0, bad) EXCEPT !.fd = Record!Lowest(S)]]
          /\ UNCHANGED <<fReg, fAdc, fBt, fFull, fLeaked, fEnded, fMisfit, fStale>>
      BY <1>3, Zenon DEF Record!SplitStore
    <3> HIDE DEF S
    <3> QED BY <2>1, <2>3, <2>4, <3>1, Zenon
  <2>6. q \in ThreadT /\ q.kind = fTh[t].kind /\ q.pc \in {"stop", "check"} /\ ThreadOK(t, q)
    <3>1. fTh[t].pc = "got" /\ 0 \in Nat
      BY <2>5
    <3> HIDE DEF S
    <3>2. /\ Record!Stored(t, 0, bad) \in ThreadT /\ Record!Stored(t, 0, bad).kind = fTh[t].kind
          /\ Record!Stored(t, 0, bad).pc \in {"stop", "check"} /\ ThreadOK(t, Record!Stored(t, 0, bad))
      BY <3>1, StoredIs
    <3> QED BY <2>3, <3>2
  <2>7. /\ r \in ThreadT /\ r.kind = q.kind /\ r.pc = q.pc /\ r.fd = d /\ r.timer = q.timer /\ r.policy = q.policy
        /\ r.block = q.block /\ r.nbyte = q.nbyte /\ r.cancelled = q.cancelled
    BY <2>2, <2>4, <2>6 DEF ThreadT
  <2>8. ThreadOK(t, r)
    BY <2>6, <2>7 DEF ThreadOK
  <2>9. /\ fTh' \in Seq(ThreadT) /\ Len(fTh') = Len(fTh) /\ fTh'[t] = r
        /\ \A u \in 1 .. Len(fTh) : u # t => fTh'[u] = fTh[u]
        /\ ThreadsInv'
    BY <1>1, <2>5, <2>7, <2>8, OneThread
  <2>10. FdInv'
    <3>1. fTh[t].pc # "ended" /\ fTh'[t].pc # "ended" /\ fTh'[t].fd = d
      BY <2>5, <2>6, <2>7, <2>9
    <3> QED BY <1>1, <2>2, <2>5, <2>9, <3>1, FdSwapped
  <2>11. fFds' \in [1 .. MaxFd -> 0 .. Len(fTh)]
    BY <1>1, <2>2, <2>5
  <2>12. RecTypes'
    BY <1>1, <2>5, <2>9, <2>11, Zenon DEF RecTypes
  <2>13. \A u \in 1 .. Len(fTh) : /\ (fTh'[u].pc = "cancel" <=> fTh[u].pc = "cancel") /\ fTh'[u].kind = fTh[u].kind
                                  /\ (fTh'[u].pc = "ended" => fTh[u].pc = "ended") /\ (fTh[u].pc = "exit" => fTh'[u].pc = "exit")
    BY <2>5, <2>6, <2>7, <2>9
  <2>14. SampleInv'
    BY <1>1, <2>5, <2>13, SamplesKept
  <2>15. PlayInv'
    BY <1>1, <2>5, <2>9, <2>13, PlayKept
  <2> QED BY <2>9, <2>10, <2>12, <2>14, <2>15 DEF RecInv
<1>4. ASSUME Record!SplitFails(t) PROVE RecInv'
  <2>0. PICK bad \in BOOLEAN : bad = TRUE
    OBVIOUS
  <2>1. PICK r : r = Record!Stored(t, 0, bad)
    OBVIOUS
  <2>2. /\ fTh[t].pc = "got" /\ fTh' = [fTh EXCEPT ![t] = r] /\ fFds' = [fFds EXCEPT ![fTh[t].fd] = 0]
        /\ fMisfit' = TRUE /\ UNCHANGED <<fReg, fAdc, fBt, fFull, fLeaked, fEnded, fStale>>
    BY <1>4, <2>0, <2>1 DEF Record!SplitFails
  <2>3. r \in ThreadT /\ r.kind = fTh[t].kind /\ r.pc \in {"stop", "check"} /\ ThreadOK(t, r)
    <3>1. fTh[t].pc = "got" /\ 0 \in Nat
      BY <2>2
    <3>2. /\ Record!Stored(t, 0, bad) \in ThreadT /\ Record!Stored(t, 0, bad).kind = fTh[t].kind
          /\ Record!Stored(t, 0, bad).pc \in {"stop", "check"} /\ ThreadOK(t, Record!Stored(t, 0, bad))
      BY <3>1, StoredIs
    <3> QED BY <2>1, <3>2
  <2>4. /\ fTh' \in Seq(ThreadT) /\ Len(fTh') = Len(fTh) /\ fTh'[t] = r
        /\ \A u \in 1 .. Len(fTh) : u # t => fTh'[u] = fTh[u]
        /\ ThreadsInv'
    BY <1>1, <2>2, <2>3, OneThread
  <2>5. FdInv'
    BY <2>2 DEF FdInv
  <2>6. fFds' \in [1 .. MaxFd -> 0 .. Len(fTh)]
    BY <1>1, <2>2
  <2>7. RecTypes'
    BY <1>1, <2>2, <2>4, <2>6, Zenon DEF RecTypes
  <2>8. \A u \in 1 .. Len(fTh) : /\ (fTh'[u].pc = "cancel" <=> fTh[u].pc = "cancel") /\ fTh'[u].kind = fTh[u].kind
                                 /\ (fTh'[u].pc = "ended" => fTh[u].pc = "ended") /\ (fTh[u].pc = "exit" => fTh'[u].pc = "exit")
    BY <2>2, <2>3, <2>4
  <2>9. SampleInv'
    BY <1>1, <2>2, <2>8, SamplesKept
  <2>10. PlayInv'
    BY <1>1, <2>2, <2>4, <2>8, PlayKept
  <2> QED BY <2>4, <2>5, <2>7, <2>9, <2>10 DEF RecInv
<1> QED BY <1>3, <1>4

\* The sampling stopped by the thread of a recording.
LEMMA OwnStopHolds ==
    ASSUME Record!RecordAssumption, RecInv, NEW t \in 1 .. Len(fTh), Record!OwnStop(t)
    PROVE  RecInv'
<1>1. /\ RecTypes /\ ThreadsInv /\ FdInv /\ SampleInv /\ PlayInv /\ fTh[t] \in ThreadT /\ ThreadOK(t, fTh[t])
      /\ Len(fTh) \in Nat /\ fReg["save"] \in 0 .. Len(fTh)
  BY ThreadTyped DEF RecInv, ThreadsInv, RecTypes, Record!Kinds
<1>2. PICK r : r = [fTh[t] EXCEPT !.pc = "cancel"]
  OBVIOUS
<1>3. /\ fTh[t].pc = "stop" /\ fTh' = [fTh EXCEPT ![t] = r] /\ fAdc' = FALSE
      /\ fStale' = (fStale \/ fReg["save"] \notin {0, t}) /\ UNCHANGED <<fReg, fFds, fBt, fFull, fLeaked, fEnded, fMisfit>>
  BY <1>2 DEF Record!OwnStop
<1>4. /\ r \in ThreadT /\ r.kind = fTh[t].kind /\ r.fd = fTh[t].fd /\ r.pc = "cancel" /\ r.policy = fTh[t].policy
      /\ r.nbyte = fTh[t].nbyte /\ r.cancelled = fTh[t].cancelled /\ r.timer = fTh[t].timer
  BY <1>1, <1>2 DEF ThreadT
<1>5. ThreadOK(t, r)
  BY <1>1, <1>3, <1>4 DEF ThreadOK
<1>6. /\ fTh' \in Seq(ThreadT) /\ Len(fTh') = Len(fTh) /\ fTh'[t] = r
      /\ \A u \in 1 .. Len(fTh) : u # t => fTh'[u] = fTh[u]
      /\ ThreadsInv'
  BY <1>1, <1>3, <1>4, <1>5, OneThread
<1>7. (fStale => fStale') /\ fStale' \in BOOLEAN
  BY <1>3, Zenon
<1>8. RecTypes'
  BY <1>1, <1>3, <1>6, <1>7, Zenon DEF RecTypes
<1>9. \A u \in 1 .. Len(fTh) : /\ fTh'[u].fd = fTh[u].fd /\ (fTh'[u].pc = "ended" <=> fTh[u].pc = "ended")
                               /\ fTh'[u].kind = fTh[u].kind /\ (fTh[u].pc = "exit" => fTh'[u].pc = "exit")
  BY <1>3, <1>4, <1>6
<1>10. FdInv'
  BY <1>1, <1>3, <1>6, <1>9, FdKept
<1>11. SampleInv'
  <2> SUFFICES ASSUME ~fStale' PROVE ~(fReg["save"] # 0 /\ fTh'[fReg["save"]].pc # "cancel")
    BY <1>3 DEF SampleInv
  <2>1. fReg["save"] \in {0, t}
    BY <1>3, Zenon
  <2> QED BY <1>4, <1>6, <2>1
<1>12. PlayInv'
  BY <1>1, <1>3, <1>6, <1>7, <1>9, PlayKept
<1> QED BY <1>6, <1>8, <1>10, <1>11, <1>12 DEF RecInv

\* Whoever takes back the name of the recording cancels its thread: every recording
\* that is not ended is cancelled then.
LEMMA CancelSave ==
    ASSUME RecTypes, ThreadsInv, NEW n, n = Record!CancelNamed(fTh, "save")
    PROVE  /\ n \in Seq(ThreadT) /\ Len(n) = Len(fTh) /\ Len(fTh) \in Nat
           /\ \A u \in 1 .. Len(fTh) :
                 /\ n[u] \in ThreadT /\ n[u].kind = fTh[u].kind /\ n[u].pc = fTh[u].pc /\ n[u].policy = fTh[u].policy
                 /\ n[u].fd = fTh[u].fd /\ n[u].timer = fTh[u].timer /\ n[u].nbyte = fTh[u].nbyte /\ n[u].block = fTh[u].block
                 /\ (fTh[u].cancelled => n[u].cancelled) /\ (fTh[u].kind = "save" => n[u].cancelled)
<1>1. "save" \in Record!Kinds
  BY DEF Record!Kinds
<1>2. /\ n \in Seq(ThreadT) /\ Len(n) = Len(fTh)
      /\ \A u \in 1 .. Len(fTh) :
            n[u] = IF u = fReg["save"] THEN [fTh[u] EXCEPT !.cancelled = TRUE] ELSE fTh[u]
  BY <1>1, CancelledThread
<1>3. Len(fTh) \in Nat
  BY ThreadTyped
<1>4. ASSUME NEW u \in 1 .. Len(fTh)
      PROVE  /\ n[u] \in ThreadT /\ n[u].kind = fTh[u].kind /\ n[u].pc = fTh[u].pc /\ n[u].policy = fTh[u].policy
             /\ n[u].fd = fTh[u].fd /\ n[u].timer = fTh[u].timer /\ n[u].nbyte = fTh[u].nbyte /\ n[u].block = fTh[u].block
             /\ (fTh[u].cancelled => n[u].cancelled) /\ (fTh[u].kind = "save" => n[u].cancelled)
  <2>1. fTh[u] \in ThreadT
    BY ThreadTyped
  <2>2. CASE u = fReg["save"]
    <3>1. n[u] = [fTh[u] EXCEPT !.cancelled = TRUE]
      BY <1>2, <2>2
    <3> QED BY <2>1, <3>1 DEF ThreadT
  <2>3. CASE u # fReg["save"]
    <3>1. n[u] = fTh[u]
      BY <1>2, <2>3
    <3>2. fTh[u].kind = "save" => fTh[u].cancelled
      BY <2>3 DEF ThreadsInv, ThreadOK
    <3> QED BY <2>1, <3>1, <3>2
  <2> QED BY <2>2, <2>3
<1> QED BY <1>2, <1>3, <1>4

\* The recording of the channel stopped for a client.
LEMMA StopSaveHolds ==
    ASSUME Record!RecordAssumption, RecInv, Record!StopSave
    PROVE  RecInv'
<1>1. /\ RecTypes /\ ThreadsInv /\ FdInv /\ SampleInv /\ PlayInv /\ fReg \in [Record!Kinds -> 0 .. Len(fTh)]
      /\ \A u \in 1 .. Len(fTh) : ThreadOK(u, fTh[u])
  BY DEF RecInv, RecTypes, ThreadsInv
<1>2. /\ fTh' = Record!CancelNamed(fTh, "save") /\ fAdc' = FALSE /\ fReg' = [fReg EXCEPT !["save"] = 0]
      /\ UNCHANGED <<fFds, fBt, fFull, fLeaked, fEnded, fMisfit, fStale>>
  BY DEF Record!StopSave
<1>3. /\ fTh' \in Seq(ThreadT) /\ Len(fTh') = Len(fTh) /\ Len(fTh) \in Nat
      /\ \A u \in 1 .. Len(fTh) :
            /\ fTh'[u] \in ThreadT /\ fTh'[u].kind = fTh[u].kind /\ fTh'[u].pc = fTh[u].pc /\ fTh'[u].policy = fTh[u].policy
            /\ fTh'[u].fd = fTh[u].fd /\ fTh'[u].timer = fTh[u].timer /\ fTh'[u].nbyte = fTh[u].nbyte
            /\ fTh'[u].block = fTh[u].block
            /\ (fTh[u].cancelled => fTh'[u].cancelled) /\ (fTh[u].kind = "save" => fTh'[u].cancelled)
  BY <1>1, <1>2, CancelSave
<1>4. fReg' \in [Record!Kinds -> 0 .. Len(fTh)] /\ fReg'["save"] = 0 /\ fReg'["play"] = fReg["play"]
  BY <1>1, <1>2, <1>3 DEF Record!Kinds
<1>5. RecTypes'
  BY <1>1, <1>2, <1>3, <1>4, Zenon DEF RecTypes
<1>6. ThreadsInv'
  <2> SUFFICES ASSUME NEW u \in 1 .. Len(fTh) PROVE ThreadOK(u, fTh[u])'
    BY <1>3 DEF ThreadsInv
  <2>1. ThreadOK(u, fTh[u])
    BY <1>1
  <2> QED BY <1>3, <2>1 DEF ThreadOK
<1>7. FdInv'
  BY <1>1, <1>2, <1>3, FdKept
<1>8. SampleInv'
  BY <1>2, <1>4 DEF SampleInv
<1>9. PlayInv'
  BY <1>1, <1>2, <1>3, <1>4, PlayKept
<1> QED BY <1>5, <1>6, <1>7, <1>8, <1>9 DEF RecInv

\* The recording stopped by a timer, whoever set it, or by its own thread.
LEMMA CancelHolds ==
    ASSUME Record!RecordAssumption, RecInv, NEW t \in 1 .. Len(fTh), Record!TimeOut(t) \/ Record!OwnCancel(t)
    PROVE  RecInv'
<1>1. /\ RecTypes /\ ThreadsInv /\ FdInv /\ SampleInv /\ PlayInv /\ fReg \in [Record!Kinds -> 0 .. Len(fTh)]
      /\ \A u \in 1 .. Len(fTh) : ThreadOK(u, fTh[u])
  BY DEF RecInv, RecTypes, ThreadsInv
<1>2. PICK n : n = Record!CancelNamed(fTh, "save")
  OBVIOUS
<1>3. /\ n \in Seq(ThreadT) /\ Len(n) = Len(fTh) /\ Len(fTh) \in Nat
      /\ \A u \in 1 .. Len(fTh) :
            /\ n[u] \in ThreadT /\ n[u].kind = fTh[u].kind /\ n[u].pc = fTh[u].pc /\ n[u].policy = fTh[u].policy
            /\ n[u].fd = fTh[u].fd /\ n[u].timer = fTh[u].timer /\ n[u].nbyte = fTh[u].nbyte /\ n[u].block = fTh[u].block
            /\ (fTh[u].cancelled => n[u].cancelled) /\ (fTh[u].kind = "save" => n[u].cancelled)
  BY <1>1, <1>2, CancelSave
<1>4. /\ fReg' = [fReg EXCEPT !["save"] = 0] /\ fStale' = (fStale \/ fReg["save"] \notin {0, t})
      /\ UNCHANGED <<fFds, fBt, fFull, fLeaked, fEnded, fMisfit>>
  BY DEF Record!TimeOut, Record!OwnCancel
<1>5. fReg' \in [Record!Kinds -> 0 .. Len(fTh)] /\ fReg'["save"] = 0 /\ fReg'["play"] = fReg["play"]
  BY <1>1, <1>3, <1>4 DEF Record!Kinds
<1>6. (fStale => fStale') /\ fStale' \in BOOLEAN
  BY <1>4, Zenon
<1>7. PICK r \in ThreadT :
        /\ fTh' = [n EXCEPT ![t] = r] /\ r.kind = fTh[t].kind /\ r.policy = fTh[t].policy /\ r.fd = fTh[t].fd
        /\ r.nbyte = fTh[t].nbyte /\ r.block = fTh[t].block /\ r.cancelled = n[t].cancelled
        /\ \/ r.timer = FALSE /\ r.pc = fTh[t].pc /\ fAdc' = FALSE
           \/ r.timer = fTh[t].timer /\ fTh[t].pc = "cancel" /\ r.pc = "check" /\ fAdc' = fAdc
  <2>1. CASE Record!TimeOut(t)
    <3>1. PICK r : r = [n[t] EXCEPT !.timer = FALSE]
      OBVIOUS
    <3>2. /\ r \in ThreadT /\ r.kind = n[t].kind /\ r.policy = n[t].policy /\ r.fd = n[t].fd
          /\ r.nbyte = n[t].nbyte /\ r.block = n[t].block /\ r.cancelled = n[t].cancelled
          /\ r.timer = FALSE /\ r.pc = n[t].pc
      BY <1>3, <3>1, ZenonT(30) DEF ThreadT
    <3>3. fTh' = [n EXCEPT ![t] = r] /\ fAdc' = FALSE
      BY <1>2, <2>1, <3>1 DEF Record!TimeOut
    <3> QED BY <1>3, <3>2, <3>3, ZenonT(30)
  <2>2. CASE Record!OwnCancel(t)
    <3>1. PICK r : r = [n[t] EXCEPT !.pc = "check"]
      OBVIOUS
    <3>2. /\ r \in ThreadT /\ r.kind = n[t].kind /\ r.policy = n[t].policy /\ r.fd = n[t].fd
          /\ r.nbyte = n[t].nbyte /\ r.block = n[t].block /\ r.cancelled = n[t].cancelled
          /\ r.timer = n[t].timer /\ r.pc = "check"
      BY <1>3, <3>1, ZenonT(30) DEF ThreadT
    <3>3. fTh' = [n EXCEPT ![t] = r] /\ fAdc' = fAdc /\ fTh[t].pc = "cancel"
      BY <1>2, <2>2, <3>1 DEF Record!OwnCancel
    <3> QED BY <1>3, <3>2, <3>3, ZenonT(30)
  <2> QED BY <2>1, <2>2
<1>8. /\ fTh' \in Seq(ThreadT) /\ Len(fTh') = Len(fTh) /\ fTh'[t] = r
      /\ \A u \in 1 .. Len(fTh) : u # t => fTh'[u] = n[u]
  BY <1>3, <1>7, ChangedThread
<1>9. RecTypes'
  <2>1. fAdc' \in BOOLEAN
    BY <1>1, <1>7 DEF RecTypes
  <2> QED BY <1>1, <1>4, <1>5, <1>6, <1>8, <2>1, Zenon DEF RecTypes
<1>10. ThreadsInv'
  <2> SUFFICES ASSUME NEW u \in 1 .. Len(fTh) PROVE ThreadOK(u, fTh[u])'
    BY <1>8 DEF ThreadsInv
  <2>1. ThreadOK(u, fTh[u])
    BY <1>1
  <2>2. CASE u = t
    <3>1. ThreadOK(u, r)'
      BY <1>3, <1>7, <2>1, <2>2 DEF ThreadOK
    <3> QED BY <1>8, <2>2, <3>1 DEF ThreadOK
  <2>3. CASE u # t
    <3>1. ThreadOK(u, n[u])'
      BY <1>3, <2>1 DEF ThreadOK
    <3> QED BY <1>8, <2>3, <3>1 DEF ThreadOK
  <2> QED BY <2>2, <2>3
<1>11. \A u \in 1 .. Len(fTh) : /\ fTh'[u].fd = fTh[u].fd /\ (fTh'[u].pc = "ended" <=> fTh[u].pc = "ended")
                                /\ fTh'[u].kind = fTh[u].kind /\ (fTh[u].pc = "exit" => fTh'[u].pc = "exit")
  BY <1>3, <1>7, <1>8
<1>12. FdInv'
  BY <1>1, <1>4, <1>8, <1>11, FdKept
<1>13. SampleInv'
  <2> SUFFICES ASSUME ~fStale', ~fEnded' PROVE ~fAdc'
    BY <1>5 DEF SampleInv
  <2>1. ~fStale /\ fReg["save"] \in {0, t}
    BY <1>4, Zenon
  <2>2. CASE fAdc' = FALSE
    BY <2>2
  <2>3. CASE fTh[t].pc = "cancel" /\ fAdc' = fAdc
    BY <1>1, <1>4, <2>1, <2>3 DEF SampleInv
  <2> QED BY <1>7, <2>2, <2>3
<1>14. PlayInv'
  BY <1>1, <1>3, <1>4, <1>5, <1>6, <1>8, <1>11, PlayKept
<1> QED BY <1>9, <1>10, <1>12, <1>13, <1>14 DEF RecInv

\* The exit of a thread: its timer is cancelled, its file closed.
LEMMA ExitHolds ==
    ASSUME Record!RecordAssumption, RecInv, NEW t \in 1 .. Len(fTh), Record!SaveExit(t) \/ Record!PlayExit(t)
    PROVE  RecInv'
<1>1. /\ RecTypes /\ ThreadsInv /\ FdInv /\ SampleInv /\ PlayInv /\ fTh[t] \in ThreadT /\ ThreadOK(t, fTh[t])
      /\ Len(fTh) \in Nat /\ fFds \in [1 .. MaxFd -> 0 .. Len(fTh)] /\ fTh[t].fd \in 1 .. MaxFd
  BY ThreadTyped DEF RecInv, ThreadsInv
<1>2. /\ fTh[t].pc = "exit" /\ fFds' = [fFds EXCEPT ![fTh[t].fd] = 0]
      /\ UNCHANGED <<fReg, fAdc, fFull, fLeaked, fEnded, fMisfit, fStale>>
  BY DEF Record!SaveExit, Record!PlayExit
<1>3. PICK r \in ThreadT :
        /\ fTh' = [fTh EXCEPT ![t] = r] /\ r.kind = fTh[t].kind /\ r.policy = fTh[t].policy /\ r.fd = fTh[t].fd
        /\ r.nbyte = fTh[t].nbyte /\ r.cancelled = fTh[t].cancelled /\ r.pc = "ended" /\ ~r.timer
        /\ (fBt' = FALSE \/ (fBt' = fBt /\ fTh[t].kind = "save"))
  <2>1. CASE Record!SaveExit(t)
    <3>1. PICK r : r = [fTh[t] EXCEPT !.pc = "ended", !.timer = FALSE]
      OBVIOUS
    <3>2. /\ r \in ThreadT /\ r.kind = fTh[t].kind /\ r.policy = fTh[t].policy /\ r.fd = fTh[t].fd
          /\ r.nbyte = fTh[t].nbyte /\ r.cancelled = fTh[t].cancelled /\ r.pc = "ended" /\ r.timer = FALSE
      BY <1>1, <3>1 DEF ThreadT
    <3>3. fTh' = [fTh EXCEPT ![t] = r] /\ fBt' = fBt /\ fTh[t].kind = "save"
      BY <2>1, <3>1 DEF Record!SaveExit
    <3> QED BY <3>2, <3>3
  <2>2. CASE Record!PlayExit(t)
    <3>1. PICK r : r = [fTh[t] EXCEPT !.pc = "ended"]
      OBVIOUS
    <3>2. /\ r \in ThreadT /\ r.kind = fTh[t].kind /\ r.policy = fTh[t].policy /\ r.fd = fTh[t].fd
          /\ r.nbyte = fTh[t].nbyte /\ r.cancelled = fTh[t].cancelled /\ r.pc = "ended" /\ r.timer = fTh[t].timer
      BY <1>1, <3>1 DEF ThreadT
    <3>3. fTh' = [fTh EXCEPT ![t] = r] /\ fBt' = FALSE /\ fTh[t].kind = "play"
      BY <2>2, <3>1 DEF Record!PlayExit
    <3>4. ~fTh[t].timer
      BY <1>1, <3>3 DEF ThreadOK
    <3> QED BY <3>2, <3>3, <3>4
  <2> QED BY <2>1, <2>2
<1>4. ThreadOK(t, r)
  BY <1>1, <1>2, <1>3 DEF ThreadOK
<1>5. /\ fTh' \in Seq(ThreadT) /\ Len(fTh') = Len(fTh) /\ fTh'[t] = r
      /\ \A u \in 1 .. Len(fTh) : u # t => fTh'[u] = fTh[u]
      /\ ThreadsInv'
  BY <1>1, <1>2, <1>3, <1>4, OneThread
<1>6. FdInv'
  <2>1. fTh[t].pc # "ended" /\ fTh'[t].pc = "ended"
    BY <1>2, <1>3, <1>5
  <2> QED BY <1>1, <1>2, <1>5, <2>1, FdClosed
<1>7. RecTypes'
  <2>1. fFds' \in [1 .. MaxFd -> 0 .. Len(fTh)]
    BY <1>1, <1>2
  <2>2. fBt' \in BOOLEAN
    BY <1>1, <1>3 DEF RecTypes
  <2> QED BY <1>1, <1>2, <1>5, <2>1, <2>2, Zenon DEF RecTypes
<1>8. SampleInv'
  <2>1. \A u \in 1 .. Len(fTh) : fTh'[u].pc = "cancel" <=> fTh[u].pc = "cancel"
    BY <1>2, <1>3, <1>5
  <2> QED BY <1>1, <1>2, <2>1, SamplesKept
<1>9. PlayInv'
  <2>1. CASE fBt' = FALSE
    BY <2>1 DEF PlayInv
  <2>2. CASE fBt' = fBt /\ fTh[t].kind = "save"
    <3>1. \A u \in 1 .. Len(fTh) : /\ fTh'[u].kind = fTh[u].kind
                                   /\ (fTh[u].kind = "play" => fTh'[u] = fTh[u])
      BY <1>3, <1>5, <2>2
    <3> QED BY <1>1, <1>2, <1>5, <2>2, <3>1, PlayKept
  <2> QED BY <1>3, <2>1, <2>2
<1> QED BY <1>5, <1>6, <1>7, <1>8, <1>9 DEF RecInv

\* The end of a file that is played back.
LEMMA PlayOverHolds ==
    ASSUME Record!RecordAssumption, RecInv, NEW t \in 1 .. Len(fTh), Record!PlayOver(t)
    PROVE  RecInv'
<1>1. /\ RecTypes /\ ThreadsInv /\ FdInv /\ SampleInv /\ PlayInv /\ fTh[t] \in ThreadT /\ ThreadOK(t, fTh[t])
      /\ Len(fTh) \in Nat /\ fReg \in [Record!Kinds -> 0 .. Len(fTh)]
  BY ThreadTyped DEF RecInv, ThreadsInv, RecTypes
<1>2. PICK p \in {"check", "exit"} : p = IF fReg["play"] = 0 THEN "check" ELSE "exit"
  OBVIOUS
<1>3. PICK r : r = [fTh[t] EXCEPT !.pc = p]
  OBVIOUS
<1>4. /\ fTh[t].pc = "loop" /\ fTh[t].kind = "play" /\ fTh' = [fTh EXCEPT ![t] = r] /\ fReg' = [fReg EXCEPT !["play"] = 0]
      /\ fStale' = (fStale \/ fReg["play"] \notin {0, t}) /\ UNCHANGED <<fFds, fAdc, fBt, fFull, fLeaked, fEnded, fMisfit>>
  BY <1>2, <1>3 DEF Record!PlayOver
<1>5. /\ r \in ThreadT /\ r.kind = "play" /\ r.fd = fTh[t].fd /\ r.pc = p /\ r.policy = fTh[t].policy
      /\ r.nbyte = fTh[t].nbyte /\ r.timer = fTh[t].timer
  BY <1>1, <1>3, <1>4 DEF ThreadT
<1>6. ThreadOK(t, r)
  BY <1>1, <1>2, <1>4, <1>5 DEF ThreadOK
<1>7. fReg' \in [Record!Kinds -> 0 .. Len(fTh)] /\ fReg'["save"] = fReg["save"] /\ fReg'["play"] = 0
  BY <1>1, <1>4 DEF Record!Kinds
<1>8. /\ fTh' \in Seq(ThreadT) /\ Len(fTh') = Len(fTh) /\ fTh'[t] = r
      /\ \A u \in 1 .. Len(fTh) : u # t => fTh'[u] = fTh[u]
      /\ ThreadsInv'
  BY <1>1, <1>4, <1>5, <1>6, <1>7, OneThread
<1>9. (fStale => fStale') /\ fStale' \in BOOLEAN
  BY <1>4, Zenon
<1>10. RecTypes'
  BY <1>1, <1>4, <1>7, <1>8, <1>9, Zenon DEF RecTypes
<1>11. \A u \in 1 .. Len(fTh) : /\ fTh'[u].fd = fTh[u].fd /\ (fTh'[u].pc = "ended" <=> fTh[u].pc = "ended")
                                /\ (fTh'[u].pc = "cancel" <=> fTh[u].pc = "cancel")
  BY <1>2, <1>4, <1>5, <1>8
<1>12. FdInv'
  BY <1>1, <1>4, <1>8, <1>11, FdKept
<1>13. SampleInv'
  BY <1>1, <1>4, <1>7, <1>9, <1>11, SamplesKept
<1>14. PlayInv'
  <2> SUFFICES ASSUME fBt, ~fStale'
               PROVE  \E u \in 1 .. Len(fTh) :
                         fTh'[u].kind = "play" /\ fTh'[u].pc # "ended" /\ (fReg'["play"] = u \/ fTh'[u].pc = "exit")
    BY <1>4, <1>8 DEF PlayInv
  <2>1. ~fStale /\ fReg["play"] \in {0, t}
    BY <1>4, Zenon
  <2>2. CASE fReg["play"] = 0
    <3>1. PICK u \in 1 .. Len(fTh) : fTh[u].kind = "play" /\ fTh[u].pc = "exit"
      BY <1>1, <2>1, <2>2 DEF PlayInv
    <3>2. u # t
      BY <1>4, <3>1
    <3>3. fTh'[u].kind = "play" /\ fTh'[u].pc = "exit"
      BY <1>8, <3>1, <3>2
    <3> QED BY <3>3
  <2>3. CASE fReg["play"] # 0
    BY <1>2, <1>5, <1>8, <2>3
  <2> QED BY <2>2, <2>3
<1> QED BY <1>8, <1>10, <1>12, <1>13, <1>14 DEF RecInv

\* A thread more in the table.
LEMMA MoreThreads ==
    ASSUME NEW T, NEW s \in Seq(T), NEW r \in T, NEW n, n = Append(s, r)
    PROVE  /\ n \in Seq(T) /\ Len(n) = Len(s) + 1 /\ Len(s) \in Nat /\ n[Len(s) + 1] = r
           /\ \A u \in 1 .. Len(s) : n[u] = s[u]
  OBVIOUS

\* A recording or a playback started: a thread that has a file of its own.
LEMMA StartHolds ==
    ASSUME Record!RecordAssumption, RecInv, Record!StartPlay \/ \E p \in Record!Policies : Record!StartSave(p)
    PROVE  RecInv'
<1>1. /\ RecTypes /\ ThreadsInv /\ FdInv /\ SampleInv /\ PlayInv /\ fTh \in Seq(ThreadT) /\ Len(fTh) \in Nat
      /\ fReg \in [Record!Kinds -> 0 .. Len(fTh)] /\ fFds \in [1 .. MaxFd -> 0 .. Len(fTh)]
  BY DEF RecInv, RecTypes
<1>2. PICK d \in Record!FreeFds : d = Record!Lowest(Record!FreeFds)
  <2>1. Record!FreeFds \subseteq 1 .. MaxFd /\ Record!FreeFds # {}
    BY DEF Record!FreeFds, Record!StartPlay, Record!StartSave
  <2> QED BY <2>1, LowestFound
<1>3. d \in 1 .. MaxFd /\ fFds[d] = 0
  BY <1>2 DEF Record!FreeFds
<1>4. PICK n \in Nat : n = Len(fTh) + 1
  BY <1>1
<1>5. PICK r \in ThreadT :
        /\ fTh' = Append(fTh, r) /\ fFds' = [fFds EXCEPT ![d] = n] /\ UNCHANGED <<fFull, fLeaked, fEnded, fMisfit, fStale>>
        /\ r.fd = d /\ r.nbyte = 0 /\ ~r.timer /\ (r.kind = "play" => r.policy = "FREE")
        /\ fReg[r.kind] = 0 /\ fReg' = [fReg EXCEPT ![r.kind] = n]
        /\ \/ r.kind = "save" /\ r.pc = "init" /\ fAdc' = TRUE /\ fBt' = fBt
           \/ r.kind = "play" /\ r.pc = "loop" /\ fBt' = TRUE /\ fAdc' = fAdc
  <2>1. CASE Record!StartPlay
    <3>1. PICK r : r = [Record!NewThread("play", "FREE", d) EXCEPT !.pc = "loop"]
      OBVIOUS
    <3>2. /\ r \in ThreadT /\ r.fd = d /\ r.nbyte = 0 /\ r.timer = FALSE /\ r.kind = "play" /\ r.policy = "FREE"
          /\ r.pc = "loop"
      BY <1>3, <3>1 DEF Record!NewThread, ThreadT, Record!Kinds, Record!Policies
    <3>3. /\ fTh' = Append(fTh, r) /\ fFds' = [fFds EXCEPT ![d] = n] /\ UNCHANGED <<fFull, fLeaked, fEnded, fMisfit, fStale>>
          /\ fReg["play"] = 0 /\ fReg' = [fReg EXCEPT !["play"] = n] /\ fBt' = TRUE /\ fAdc' = fAdc
      BY <1>2, <1>4, <2>1, <3>1 DEF Record!StartPlay
    <3> QED BY <3>2, <3>3
  <2>2. ASSUME NEW p \in Record!Policies, Record!StartSave(p)
        PROVE  \E r \in ThreadT :
                  /\ fTh' = Append(fTh, r) /\ fFds' = [fFds EXCEPT ![d] = n] /\ UNCHANGED <<fFull, fLeaked, fEnded, fMisfit, fStale>>
                  /\ r.fd = d /\ r.nbyte = 0 /\ ~r.timer /\ (r.kind = "play" => r.policy = "FREE")
                  /\ fReg[r.kind] = 0 /\ fReg' = [fReg EXCEPT ![r.kind] = n]
                  /\ \/ r.kind = "save" /\ r.pc = "init" /\ fAdc' = TRUE /\ fBt' = fBt
                     \/ r.kind = "play" /\ r.pc = "loop" /\ fBt' = TRUE /\ fAdc' = fAdc
    <3>1. PICK r : r = Record!NewThread("save", p, d)
      OBVIOUS
    <3>2. r \in ThreadT /\ r.fd = d /\ r.nbyte = 0 /\ r.timer = FALSE /\ r.kind = "save" /\ r.pc = "init"
      BY <1>3, <3>1 DEF Record!NewThread, ThreadT, Record!Kinds
    <3>3. /\ fTh' = Append(fTh, r) /\ fFds' = [fFds EXCEPT ![d] = n] /\ UNCHANGED <<fFull, fLeaked, fEnded, fMisfit, fStale>>
          /\ fReg["save"] = 0 /\ fReg' = [fReg EXCEPT !["save"] = n] /\ fAdc' = TRUE /\ fBt' = fBt
      BY <1>2, <1>4, <2>2, <3>1 DEF Record!StartSave
    <3> QED BY <3>2, <3>3
  <2> QED BY <2>1, <2>2
<1>6. /\ fTh' \in Seq(ThreadT) /\ Len(fTh') = n /\ fTh'[n] = r /\ \A u \in 1 .. Len(fTh) : fTh'[u] = fTh[u]
  BY <1>1, <1>4, <1>5, MoreThreads
<1>7. /\ n \in 1 .. n /\ n # 0 /\ \A u \in 1 .. n : u = n \/ u \in 1 .. Len(fTh)
      /\ 0 .. Len(fTh) \subseteq 0 .. n /\ n \in 0 .. n /\ \A u \in 1 .. Len(fTh) : u \in Nat /\ u # 0
  BY <1>1, <1>4
<1>8. r.kind \in Record!Kinds /\ fReg'[r.kind] = n /\ \A k \in Record!Kinds : k # r.kind => fReg'[k] = fReg[k]
  BY <1>1, <1>5 DEF ThreadT
<1>9. RecTypes'
  <2>1. fReg' \in [Record!Kinds -> 0 .. n] /\ fFds' \in [1 .. MaxFd -> 0 .. n]
    BY <1>1, <1>3, <1>5, <1>7, <1>8
  <2>2. fAdc' \in BOOLEAN /\ fBt' \in BOOLEAN
    BY <1>1, <1>5 DEF RecTypes
  <2> QED BY <1>1, <1>5, <1>6, <2>1, <2>2, Zenon DEF RecTypes
<1>10. ThreadsInv'
  <2> SUFFICES ASSUME NEW u \in 1 .. n PROVE ThreadOK(u, fTh[u])'
    BY <1>6 DEF ThreadsInv
  <2>1. CASE u = n
    <3>1. SizeAsked \in Nat /\ SizeAsked > 0 /\ Record!Largest(BlockSizes) \in Nat
      BY LargestBounds DEF Record!RecordAssumption
    <3>2. 0 < SizeAsked + Record!Largest(BlockSizes) /\ ~(0 >= SizeAsked)
      BY <3>1
    <3>3. PICK q : q = fTh'[u] /\ q = r
      BY <1>6, <2>1
    <3>4. ThreadOK(u, q)'
      BY <1>5, <1>8, <2>1, <3>2, <3>3 DEF ThreadOK
    <3> QED BY <3>3, <3>4 DEF ThreadOK
  <2>2. CASE u # n
    <3>1. u \in 1 .. Len(fTh) /\ fTh'[u] = fTh[u] /\ u # 0
      BY <1>6, <1>7, <2>2
    <3>2. ThreadOK(u, fTh[u])
      BY <1>1, <3>1 DEF ThreadsInv
    <3>3. fTh[u].kind = "save" /\ ~fTh[u].cancelled => fReg'["save"] = u
      BY <1>5, <1>8, <3>1, <3>2 DEF ThreadOK, Record!Kinds
    <3>4. PICK q : q = fTh'[u] /\ q = fTh[u]
      BY <3>1
    <3>5. ThreadOK(u, q)'
      BY <3>2, <3>3, <3>4 DEF ThreadOK
    <3> QED BY <3>4, <3>5 DEF ThreadOK
  <2> QED BY <2>1, <2>2
<1>11. FdInv'
  <2>1. fTh'[Len(fTh) + 1].fd = d /\ fTh'[Len(fTh) + 1].pc # "ended" /\ Len(fTh') = Len(fTh) + 1
    BY <1>4, <1>5, <1>6
  <2> QED BY <1>1, <1>3, <1>4, <1>5, <1>6, <2>1, FdOpened
<1>12. CASE r.kind = "save"
  <2>1. fReg'["save"] = n /\ fReg'["play"] = fReg["play"]
    BY <1>8, <1>12 DEF Record!Kinds
  <2>2. SampleInv'
    BY <1>5, <1>6, <1>7, <1>12, <2>1 DEF SampleInv
  <2>3. Len(fTh') \in Nat /\ Len(fTh') >= Len(fTh) /\ (fBt' => fBt)
    BY <1>1, <1>4, <1>5, <1>6, <1>12
  <2>4. PlayInv'
    BY <1>1, <1>5, <1>6, <2>1, <2>3, PlayKept
  <2> QED BY <1>9, <1>10, <1>11, <2>2, <2>4 DEF RecInv
<1>13. CASE r.kind = "play"
  <2>1. fReg'["play"] = n /\ fReg'["save"] = fReg["save"] /\ fAdc' = fAdc
    BY <1>5, <1>8, <1>13 DEF Record!Kinds
  <2>2. SampleInv'
    BY <1>1, <1>5, <1>6, <2>1, SamplesKept
  <2>3. fTh'[n].kind = "play" /\ fTh'[n].pc # "ended" /\ n \in 1 .. Len(fTh')
    BY <1>5, <1>6, <1>7, <1>13
  <2>4. PlayInv'
    BY <2>1, <2>3 DEF PlayInv
  <2> QED BY <1>9, <1>10, <1>11, <2>2, <2>4 DEF RecInv
<1> QED BY <1>5, <1>12, <1>13

\* A playback refused while one is under way: the new descriptor is lost.
LEMMA PlayAgainHolds ==
    ASSUME Record!RecordAssumption, RecInv, Record!StartPlayAgain
    PROVE  RecInv'
<1>1. /\ RecTypes /\ ThreadsInv /\ FdInv /\ SampleInv /\ PlayInv /\ Len(fTh) \in Nat
      /\ fReg["play"] \in 0 .. Len(fTh) /\ fFds \in [1 .. MaxFd -> 0 .. Len(fTh)] /\ fLeaked \subseteq 1 .. MaxFd
  BY DEF RecInv, RecTypes, Record!Kinds
<1>2. PICK d \in Record!FreeFds : d = Record!Lowest(Record!FreeFds)
  <2>1. Record!FreeFds \subseteq 1 .. MaxFd /\ Record!FreeFds # {}
    BY DEF Record!FreeFds, Record!StartPlayAgain
  <2> QED BY <2>1, LowestFound
<1>3. d \in 1 .. MaxFd /\ fFds[d] = 0
  BY <1>2 DEF Record!FreeFds
<1>4. /\ fReg["play"] # 0 /\ fFds' = [fFds EXCEPT ![d] = fReg["play"]] /\ fLeaked' = fLeaked \cup {d} /\ fBt' = FALSE
      /\ UNCHANGED <<fTh, fReg, fAdc, fFull, fEnded, fMisfit, fStale>>
  BY <1>2 DEF Record!StartPlayAgain
<1>5. fFds' \in [1 .. MaxFd -> 0 .. Len(fTh)] /\ fLeaked' \subseteq 1 .. MaxFd
  BY <1>1, <1>3, <1>4
<1>6. RecTypes'
  BY <1>1, <1>4, <1>5, Zenon DEF RecTypes
<1>7. ThreadsInv'
  BY <1>1, <1>4 DEF ThreadsInv, ThreadOK
<1>8. FdInv'
  <2> SUFFICES ASSUME ~fMisfit
               PROVE  /\ \A e \in 1 .. MaxFd : fFds'[e] # 0 <=>
                            e \in fLeaked' \/ \E t \in 1 .. Len(fTh) : fTh[t].pc # "ended" /\ fTh[t].fd = e
                      /\ \A t \in 1 .. Len(fTh) : fTh[t].pc # "ended" => fFds'[fTh[t].fd] = t /\ fTh[t].fd \notin fLeaked'
    BY <1>4 DEF FdInv
  <2>1. d \notin fLeaked /\ \A u \in 1 .. Len(fTh) : fTh[u].pc # "ended" => fTh[u].fd # d
    BY <1>1, <1>3 DEF FdInv
  <2>2. fFds'[d] # 0 /\ \A e \in 1 .. MaxFd : e # d => fFds'[e] = fFds[e]
    BY <1>1, <1>3, <1>4
  <2>3. \A u \in 1 .. Len(fTh) : fTh[u].fd \in 1 .. MaxFd
    BY <1>1, ThreadTyped
  <2> QED BY <1>1, <1>4, <2>1, <2>2, <2>3 DEF FdInv
<1>9. SampleInv' /\ PlayInv'
  BY <1>1, <1>4 DEF SampleInv, PlayInv
<1> QED BY <1>6, <1>7, <1>8, <1>9 DEF RecInv

\* The playback of the channel stopped for a client.
LEMMA StopPlayHolds ==
    ASSUME Record!RecordAssumption, RecInv, Record!StopPlay
    PROVE  RecInv'
<1>1. /\ RecTypes /\ ThreadsInv /\ FdInv /\ SampleInv /\ PlayInv /\ fReg \in [Record!Kinds -> 0 .. Len(fTh)]
      /\ Len(fTh) \in Nat /\ "play" \in Record!Kinds
  BY DEF RecInv, RecTypes, Record!Kinds
<1>2. /\ fTh' = Record!CancelNamed(fTh, "play") /\ fBt' = FALSE /\ fReg' = [fReg EXCEPT !["play"] = 0]
      /\ UNCHANGED <<fFds, fAdc, fFull, fLeaked, fEnded, fMisfit, fStale>>
  BY DEF Record!StopPlay
<1>3. /\ fTh' \in Seq(ThreadT) /\ Len(fTh') = Len(fTh)
      /\ \A u \in 1 .. Len(fTh) :
            fTh'[u] = IF u = fReg["play"] THEN [fTh[u] EXCEPT !.cancelled = TRUE] ELSE fTh[u]
  BY <1>1, <1>2, CancelledThread
<1>4. fReg' \in [Record!Kinds -> 0 .. Len(fTh)] /\ fReg'["save"] = fReg["save"]
  BY <1>1, <1>2 DEF Record!Kinds
<1>5. RecTypes'
  BY <1>1, <1>2, <1>3, <1>4, Zenon DEF RecTypes
<1>6. ASSUME NEW u \in 1 .. Len(fTh)
      PROVE  /\ fTh'[u].kind = fTh[u].kind /\ fTh'[u].pc = fTh[u].pc /\ fTh'[u].policy = fTh[u].policy
             /\ fTh'[u].fd = fTh[u].fd /\ fTh'[u].timer = fTh[u].timer /\ fTh'[u].nbyte = fTh[u].nbyte
             /\ fTh'[u].block = fTh[u].block /\ (fTh[u].cancelled => fTh'[u].cancelled)
  <2>1. fTh[u] \in ThreadT
    BY <1>1, ThreadTyped
  <2>2. CASE u = fReg["play"]
    <3>1. fTh'[u] = [fTh[u] EXCEPT !.cancelled = TRUE]
      BY <1>3, <2>2
    <3> QED BY <2>1, <3>1 DEF ThreadT
  <2>3. CASE u # fReg["play"]
    <3>1. fTh'[u] = fTh[u]
      BY <1>3, <2>3
    <3> QED BY <3>1
  <2> QED BY <2>2, <2>3
<1>7. ThreadsInv'
  <2> SUFFICES ASSUME NEW u \in 1 .. Len(fTh) PROVE ThreadOK(u, fTh[u])'
    BY <1>3 DEF ThreadsInv
  <2>1. ThreadOK(u, fTh[u])
    BY <1>1 DEF ThreadsInv
  <2> QED BY <1>4, <1>6, <2>1 DEF ThreadOK
<1>8. FdInv'
  BY <1>1, <1>2, <1>3, <1>6, FdKept
<1>9. SampleInv'
  BY <1>1, <1>2, <1>4, <1>6, SamplesKept
<1>10. PlayInv'
  BY <1>2 DEF PlayInv
<1> QED BY <1>5, <1>7, <1>8, <1>9, <1>10 DEF RecInv

\* A recording refused because one is under way ends the program; the check of the
\* disk only sets its alert.
LEMMA RefusedHolds ==
    ASSUME Record!RecordAssumption, RecInv, Record!StartSaveAgain \/ Record!DiskCheck \/ UNCHANGED Record!vars
    PROVE  RecInv'
<1>1. RecTypes /\ ThreadsInv /\ FdInv /\ SampleInv /\ PlayInv
  BY DEF RecInv
<1>2. /\ UNCHANGED <<fTh, fReg, fFds, fBt, fLeaked, fMisfit, fStale>> /\ fFull' \in BOOLEAN
      /\ (fEnded' = TRUE /\ fAdc' = TRUE) \/ (fEnded' = fEnded /\ fAdc' = fAdc)
  BY <1>1 DEF Record!StartSaveAgain, Record!DiskCheck, Record!vars, RecTypes
<1>3. RecTypes'
  <2>1. fEnded' \in BOOLEAN /\ fAdc' \in BOOLEAN
    BY <1>1, <1>2 DEF RecTypes
  <2> QED BY <1>1, <1>2, <2>1, Zenon DEF RecTypes
<1>4. ThreadsInv'
  BY <1>1, <1>2 DEF ThreadsInv, ThreadOK
<1>5. FdInv' /\ PlayInv'
  BY <1>1, <1>2 DEF FdInv, PlayInv
<1>6. SampleInv'
  BY <1>1, <1>2 DEF SampleInv
<1> QED BY <1>3, <1>4, <1>5, <1>6 DEF RecInv

\* No step of a recording, a playback or uloop breaks it.
LEMMA RecStep ==
    ASSUME Record!RecordAssumption, RecInv, [Record!Next]_(Record!vars)
    PROVE  RecInv'
<1>1. CASE Record!Uloop
  <2>1. ASSUME NEW t \in Record!Tids, Record!TimeOut(t) PROVE RecInv'
    BY <2>1, CancelHolds DEF Record!Tids
  <2> QED BY <1>1, <2>1, StartHolds, RefusedHolds, StopSaveHolds, PlayAgainHolds, StopPlayHolds DEF Record!Uloop
<1>2. ASSUME NEW t \in 1 .. Len(fTh), Record!Works(t) PROVE RecInv'
  BY <1>2, InitBlockHolds, TurnHolds, RecStoreHolds, SplitHolds, OwnStopHolds, CancelHolds, ExitHolds DEF Record!Works
<1>3. ASSUME NEW t \in 1 .. Len(fTh), Record!Plays(t) PROVE RecInv'
  BY <1>3, TurnHolds, PlayOverHolds, ExitHolds DEF Record!Plays
<1>4. ASSUME NEW t \in 1 .. Len(fTh), NEW n \in BlockSizes, Record!TakeBlock(t, n) PROVE RecInv'
  BY <1>4, InitBlockHolds
<1>5. CASE Record!DiskCheck \/ UNCHANGED Record!vars
  BY <1>5, RefusedHolds
<1> QED BY <1>1, <1>2, <1>3, <1>4, <1>5 DEF Record!Next, Record!Tids

\* What the inductive invariant says to a reader.
LEMMA RecMeans ==
    ASSUME RecInv
    PROVE  Record!RecordSound
<1>1. /\ RecTypes /\ FdInv /\ SampleInv /\ PlayInv /\ Len(fTh) \in Nat
      /\ \A u \in 1 .. Len(fTh) : fTh[u] \in ThreadT /\ ThreadOK(u, fTh[u]) /\ fTh[u].fd \in 1 .. MaxFd
  BY ThreadTyped DEF RecInv, ThreadsInv
<1>2. Record!TypeOK
  <2>1. ASSUME NEW r \in ThreadT
        PROVE  /\ r.kind \in Record!Kinds /\ r.policy \in Record!Policies /\ r.fd \in 1 .. MaxFd
               /\ r.pc \in {"init", "loop", "got", "stop", "cancel", "check", "exit", "ended"}
               /\ {r.nbyte, r.split, r.block} \subseteq Nat
               /\ {r.cancelled, r.timer, r.error, r.wentOn} \subseteq BOOLEAN
    BY DEF ThreadT
  <2>2. {fAdc, fBt, fFull, fEnded, fMisfit, fStale} \subseteq BOOLEAN
    BY <1>1 DEF RecTypes
  <2>3. fReg \in [Record!Kinds -> 0 .. Len(fTh)] /\ fFds \in [1 .. MaxFd -> 0 .. Len(fTh)] /\ fLeaked \subseteq 1 .. MaxFd
    BY <1>1 DEF RecTypes
  <2> QED BY <1>1, <2>1, <2>2, <2>3, Zenon DEF Record!TypeOK, Record!Tids
<1>3. Record!FdsOwned
  <2> SUFFICES ASSUME ~fMisfit
               PROVE  /\ {d \in 1 .. MaxFd : fFds[d] # 0} = fLeaked \cup {fTh[t].fd : t \in {u \in 1 .. Len(fTh) : fTh[u].pc # "ended"}}
                      /\ \A t \in 1 .. Len(fTh) : fTh[t].pc # "ended" => fFds[fTh[t].fd] = t /\ fTh[t].fd \notin fLeaked
    BY DEF Record!FdsOwned, Record!Tids, Record!Alive
  <2>1. fLeaked \subseteq 1 .. MaxFd
    BY <1>1 DEF RecTypes
  <2>2. ~fMisfit => /\ \A d \in 1 .. MaxFd : fFds[d] # 0 <=>
                           d \in fLeaked \/ \E t \in 1 .. Len(fTh) : fTh[t].pc # "ended" /\ fTh[t].fd = d
                    /\ \A t \in 1 .. Len(fTh) : fTh[t].pc # "ended" => fFds[fTh[t].fd] = t /\ fTh[t].fd \notin fLeaked
    BY <1>1, Zenon DEF FdInv
  <2>3. PICK A : A = {u \in 1 .. Len(fTh) : fTh[u].pc # "ended"}
    OBVIOUS
  <2>4. PICK B : B = {fTh[t].fd : t \in A}
    OBVIOUS
  <2>5. \A d : d \in B <=> \E t \in 1 .. Len(fTh) : fTh[t].pc # "ended" /\ fTh[t].fd = d
    BY <2>3, <2>4
  <2>6. B \subseteq 1 .. MaxFd
    BY <1>1, <2>5
  <2>7. {d \in 1 .. MaxFd : fFds[d] # 0} = fLeaked \cup B
    BY <2>1, <2>2, <2>5, <2>6, ZenonT(30)
  <2> QED BY <2>2, <2>3, <2>4, <2>7
<1>4. Record!SamplesForRecording
  <2>1. fReg["save"] # 0 => fReg["save"] \in 1 .. Len(fTh)
    BY <1>1 DEF RecTypes, Record!Kinds
  <2> QED BY <1>1, <2>1 DEF SampleInv, Record!SamplesForRecording, Record!Tids
<1>5. Record!PlaysForPlayback
  BY <1>1 DEF PlayInv, Record!PlaysForPlayback, Record!Tids, Record!Alive
<1>6. Record!SizeKept /\ Record!TimerInMemory
  BY <1>1 DEF ThreadOK, Record!SizeKept, Record!TimerInMemory, Record!Tids, Record!Alive
<1> QED BY <1>2, <1>3, <1>4, <1>5, <1>6 DEF Record!RecordSound

\* The threads of recordings and playbacks, their names, their files and the
\* hardware stay in step: a recording that is not registered is cancelled, a file is
\* open for one thread, the hardware samples and plays for somebody.
THEOREM RecordingsStayInStep == (Record!Spec => []RecInv) /\ (MCSpec => []RecInv)
<1>1. Record!Init => RecInv
  BY MCCommandsAssumption, RecInit
<1>2. RecInv /\ [Record!Next]_(Record!vars) => RecInv'
  BY MCCommandsAssumption, RecStep
<1>3. MCInit => Record!Init
  BY DEF MCInit
<1>4. [MCNext]_mcVars => [Record!Next]_(Record!vars)
  BY CommandParts
<1> QED BY <1>1, <1>2, <1>3, <1>4, PTL DEF Record!Spec, MCSpec

\* Recordings and playbacks that start, stop, fail and are cancelled in any order:
\* nobody closes or writes the file of another, a recording has its size, and a
\* timer never outlives the memory it is in (fs/fs.c).
THEOREM RecordsStaySound == (Record!Spec => []Record!RecordSound) /\ (MCSpec => []RecordSound)
<1>1. RecInv => Record!RecordSound /\ RecordSound
  BY MCCommandsAssumption, RecMeans DEF RecordSound
<1> QED BY <1>1, RecordingsStayInStep, PTL
-----------------------------------------------------------------------------
(* HttpFile: the files that are sent.                                          *)

GetRange == [offset : 0 .. MaxSize, length : 0 .. MaxSize]

\* The types; a descriptor is open while a file is sent and belongs to the dispatch.
GetTypes ==
    /\ hSize \in [Files -> 0 .. MaxSize] /\ hFile \in Files /\ hSt_size \in 0 .. MaxSize
    /\ hRange \in GetRange /\ hFirst \in 0 .. MaxSize /\ hPos \in Nat /\ hEdits \in Nat
    /\ hStatus \in {0, 200, 206, 304, 416} /\ hAnnounced \in 0 .. MaxSize
    /\ hSent \in Seq(Nat) /\ hPc \in {"idle", "send", "wait"}
    /\ hFree \in BOOLEAN /\ (hFree <=> hPc # "idle") /\ hFds = IF hPc = "idle" THEN 0 ELSE 1

\* While a file is sent, what is left of the range follows what has gone: the last
\* part leaves the offset where it was, since the range is then empty.
LeftInv ==
    hPc # "idle" =>
        /\ hStatus \in {200, 206}
        /\ hRange.length = hAnnounced - Len(hSent)
        /\ hRange.length > 0 => /\ hRange.offset = hFirst + Len(hSent)
                                /\ hPc = "send" => hPos = hRange.offset

\* Until bytes of it are lost, the file has the whole range.
ThereInv ==
    hPc # "idle" /\ ~hOdd /\ ~hCut => hFirst + hAnnounced <= hSize[hFile]

GetInv ==
    /\ GetTypes /\ LeftInv /\ ThereInv
    /\ File!BodyIsRange /\ File!RangeInside /\ File!BodyAsAnnounced

\* Every range that is answered lies in the file, and is empty only if the file is.
LEMMA RangeIs ==
    ASSUME File!FileAssumption, NEW x \in File!Specs, NEW m \in BOOLEAN, NEW s \in 0 .. MaxSize,
           NEW r \in File!uh_file_if_range(x, m, s), hRange \in GetRange, r # File!Refused
    PROVE  /\ r \in GetRange
           /\ ~(x.form = "nodash" /\ m) => r.offset + r.length <= s /\ (r.length # s => r.length > 0)
<1> MaxSize \in Nat
  BY DEF File!FileAssumption
<1>1. CASE r = File!Whole(s)
  BY <1>1 DEF File!Whole, GetRange
<1>2. CASE x.form = "nodash" /\ m /\ r = hRange
  BY <1>2
<1>3. CASE r \in File!uh_prase_range(x, s)
  <2>1. CASE x.form = "last" /\ x.n + 1 <= s
    <3>1. x.n \in 0 .. MaxSize
      BY <2>1 DEF File!Specs
    <3>2. r = [offset |-> s - (x.n + 1), length |-> x.n + 1]
      BY <1>3, <2>1 DEF File!uh_prase_range
    <3> QED BY <2>1, <3>1, <3>2 DEF GetRange
  <2>2. CASE x.form = "from" /\ x.a < s
    <3>1. x.a \in 0 .. MaxSize
      BY <2>2 DEF File!Specs
    <3>2. r = [offset |-> x.a, length |-> s - x.a]
      BY <1>3, <2>2 DEF File!uh_prase_range
    <3> QED BY <2>2, <3>1, <3>2 DEF GetRange
  <2>3. CASE x.form = "part" /\ x.b < s /\ x.a <= x.b
    <3>1. x.a \in 0 .. MaxSize /\ x.b \in 0 .. MaxSize
      BY <2>3 DEF File!Specs
    <3>2. r = [offset |-> x.a, length |-> x.b - x.a + 1]
      BY <1>3, <2>3 DEF File!uh_prase_range
    <3> QED BY <2>3, <3>1, <3>2 DEF GetRange
  <2> QED BY <1>3, <2>1, <2>2, <2>3 DEF File!uh_prase_range
<1> QED BY <1>1, <1>2, <1>3, Zenon DEF File!uh_file_if_range

\* The answer of a request begins well.
LEMMA GetRequest ==
    ASSUME File!FileAssumption, GetInv, NEW f \in Files, NEW x \in File!Specs,
           NEW m \in BOOLEAN, NEW old \in BOOLEAN, File!uh_file_request(f, x, m, old)
    PROVE  GetInv'
<1>1. hPc = "idle" /\ hFile' = f /\ hSt_size' = hSize[f] /\ hSize' = hSize /\ hEdits' = hEdits
      /\ hOdd' = (x.form = "nodash" /\ m /\ ~old)
  BY DEF File!uh_file_request
<1>2. hSize[f] \in 0 .. MaxSize /\ MaxSize \in Nat
  BY DEF GetInv, GetTypes, File!FileAssumption
<1>3. ASSUME NEW code \in {304, 416}, NEW n \in 0 .. MaxSize, File!Refuse(code, n)
      PROVE  GetInv'
  <2>1. hStatus' = code /\ hAnnounced' = n /\ hSent' = <<>>
        /\ UNCHANGED <<hFds, hFree, hPc, hPos, hRange, hFirst>>
    BY <1>3 DEF File!Refuse
  <2>2. GetTypes'
    BY <1>1, <1>2, <2>1 DEF GetInv, GetTypes
  <2>3. LeftInv' /\ ThereInv' /\ File!RangeInside' /\ File!BodyAsAnnounced'
    BY <1>1, <2>1 DEF LeftInv, ThereInv, File!RangeInside, File!BodyAsAnnounced
  <2>4. File!BodyIsRange'
    BY <1>2, <2>1 DEF File!BodyIsRange
  <2> QED BY <2>2, <2>3, <2>4 DEF GetInv
<1>4. ASSUME NEW r \in File!uh_file_if_range(x, m, hSize[f]), r # File!Refused, ~old, File!Begin(r)
      PROVE  GetInv'
  <2>1. hRange' = r /\ hFirst' = r.offset /\ hAnnounced' = r.length /\ hSent' = <<>>
        /\ hStatus' = (IF r.length = hSt_size' THEN 200 ELSE 206)
        /\ hPos' = r.offset /\ hFds' = hFds + 1 /\ hFree' = TRUE /\ hPc' = "send"
    BY <1>4 DEF File!Begin
  <2>2. r \in GetRange /\ (~hOdd' => r.offset + r.length <= hSize[f] /\ (r.length # hSize[f] => r.length > 0))
    <3>1. hRange \in GetRange
      BY DEF GetInv, GetTypes
    <3> QED BY <1>1, <1>2, <1>4, <3>1, RangeIs
  <2>3. r.offset \in 0 .. MaxSize /\ r.length \in 0 .. MaxSize
    BY <2>2 DEF GetRange
  <2>4. GetTypes'
    BY <1>1, <1>2, <2>1, <2>2, <2>3 DEF GetInv, GetTypes
  <2>5. LeftInv' /\ File!BodyIsRange'
    BY <1>2, <2>1, <2>3 DEF LeftInv, File!BodyIsRange
  <2>6. ThereInv' /\ File!RangeInside' /\ File!BodyAsAnnounced'
    BY <1>1, <1>2, <2>1, <2>2, <2>3 DEF ThereInv, File!RangeInside, File!BodyAsAnnounced
  <2> QED BY <2>4, <2>5, <2>6 DEF GetInv
<1>5. CASE old
  <2>1. File!Refuse(304, 0)
    BY <1>5 DEF File!uh_file_request
  <2>2. 0 \in 0 .. MaxSize
    BY <1>2
  <2> QED BY <1>3, <2>1, <2>2
<1>6. CASE ~old
  <2>1. PICK r \in File!uh_file_if_range(x, m, hSize[f]) :
           IF r = File!Refused THEN File!Refuse(416, hSize[f]) ELSE File!Begin(r)
    BY <1>6, Zenon DEF File!uh_file_request
  <2> QED BY <1>2, <1>3, <1>4, <1>6, <2>1
<1> QED BY <1>5, <1>6

\* A part goes out: the next bytes of the range, and no others.
LEMMA GetWrites ==
    ASSUME File!FileAssumption, GetInv, File!WriteCb
    PROVE  GetInv' /\ (hPc' = "idle" \/ Len(hSent') > Len(hSent))
<1> DEFINE r == IF hPos >= hSize[hFile] THEN 0 ELSE File!Least(Chunk, hSize[hFile] - hPos)
           n == File!Least(r, hRange.length)
<1>1. /\ hPc = "send"
      /\ UNCHANGED <<hSize, hFile, hSt_size, hStatus, hAnnounced, hFirst, hOdd, hCut, hEdits>>
  BY DEF File!WriteCb
<1>2. /\ MaxSize \in Nat /\ Chunk \in Nat \ {0}
      /\ hSize[hFile] \in 0 .. MaxSize /\ hPos \in Nat
      /\ hRange \in GetRange /\ hRange.offset \in 0 .. MaxSize /\ hRange.length \in 0 .. MaxSize
      /\ hFirst \in 0 .. MaxSize /\ hAnnounced \in 0 .. MaxSize /\ hSent \in Seq(Nat)
  BY DEF GetInv, GetTypes, GetRange, File!FileAssumption
<1>3. /\ hStatus \in {200, 206} /\ hRange.length = hAnnounced - Len(hSent)
      /\ hRange.length > 0 => hRange.offset = hFirst + Len(hSent) /\ hPos = hRange.offset
  BY <1>1 DEF GetInv, LeftInv
<1>4. /\ r \in Nat /\ n \in Nat /\ n <= r /\ n <= hRange.length /\ (n = r \/ n = hRange.length)
      /\ r = 0 <=> hPos >= hSize[hFile]
      /\ r > 0 => hPos + r <= hSize[hFile]
  BY <1>2 DEF File!Least
<1> HIDE DEF r, n
<1>5. CASE r = 0 \/ hRange.length = 0
  <2>1. hPc' = "idle" /\ hFree' = FALSE /\ hFds' = hFds - 1 /\ UNCHANGED <<hRange, hPos, hSent>>
    BY <1>5 DEF File!WriteCb, File!Done, r
  <2>2. GetTypes' /\ LeftInv' /\ ThereInv' /\ File!BodyIsRange' /\ File!RangeInside'
    <3>0. hFds' = 0
      BY <1>1, <2>1 DEF GetInv, GetTypes
    <3>1. GetTypes'
      BY <1>1, <2>1, <3>0 DEF GetInv, GetTypes
    <3>2. LeftInv' /\ ThereInv'
      BY <2>1 DEF LeftInv, ThereInv
    <3> QED BY <1>1, <2>1, <3>1, <3>2 DEF GetInv, File!BodyIsRange, File!RangeInside
  <2>3. ~hOdd /\ ~hCut => hFirst + hAnnounced <= hSize[hFile]
    BY <1>1 DEF GetInv, ThereInv
  <2>4. ~hOdd /\ ~hCut => Len(hSent) = hAnnounced
    <3>1. Len(hSent) \in Nat
      BY <1>2
    <3> QED BY <1>2, <1>3, <1>4, <1>5, <2>3, <3>1
  <2> QED BY <1>1, <2>1, <2>2, <2>4 DEF GetInv, File!BodyAsAnnounced
<1>6. CASE r # 0 /\ hRange.length # 0
  <2> DEFINE w == [k \in 1 .. n |-> hPos + k - 1]
  <2>1. /\ hSent' = hSent \o w /\ hPos' = hPos + r /\ hPc' \in {"send", "wait"} /\ UNCHANGED <<hFree, hFds>>
        /\ hRange' = IF r <= hRange.length
                       THEN [offset |-> hRange.offset + r, length |-> hRange.length - r]
                       ELSE [hRange EXCEPT !.length = 0]
    BY <1>6 DEF File!WriteCb, r, n
  <2>2. w \in Seq(Nat) /\ Len(w) = n /\ \A k \in 1 .. n : w[k] = hPos + k - 1
    BY <1>2, <1>4
  <2>3. /\ hSent' \in Seq(Nat) /\ Len(hSent') = Len(hSent) + n
        /\ \A k \in 1 .. Len(hSent) : hSent'[k] = hSent[k]
        /\ \A k \in 1 .. n : hSent'[Len(hSent) + k] = w[k]
    <3> HIDE DEF w
    <3>1. Len(hSent) \in Nat /\ hSent' = hSent \o w
      BY <1>2, <2>1
    <3>2. hSent \o w \in Seq(Nat) /\ Len(hSent \o w) = Len(hSent) + n
      <4>1. \A u, v \in Seq(Nat) : u \o v \in Seq(Nat) /\ Len(u \o v) = Len(u) + Len(v)
        OBVIOUS
      <4> QED BY <1>2, <2>2, <4>1
    <3>3. \A k \in 1 .. Len(hSent) : (hSent \o w)[k] = hSent[k]
      BY <1>2, <2>2
    <3>4. \A k \in 1 .. n : (hSent \o w)[Len(hSent) + k] = w[k]
      BY <1>2, <1>4, <2>2, <3>1
    <3> QED BY <3>1, <3>2, <3>3, <3>4
  <2> HIDE DEF w
  <2>4. Len(hSent) \in Nat /\ hPos = hFirst + Len(hSent) /\ hPos = hRange.offset /\ hRange.length > 0 /\ n > 0
    BY <1>2, <1>3, <1>4, <1>6
  <2>5. /\ hRange' \in GetRange /\ hRange'.length = hRange.length - n
        /\ hRange'.length > 0 => hRange'.offset = hRange.offset + n /\ hPos' = hRange'.offset
    <3>1. CASE r <= hRange.length
      <4>1. n = r
        BY <1>2, <1>4, <3>1
      <4>2. hRange' = [offset |-> hRange.offset + r, length |-> hRange.length - r]
        BY <2>1, <3>1
      <4>3. hRange.offset + r \in 0 .. MaxSize /\ hRange.length - r \in 0 .. MaxSize
        BY <1>2, <1>4, <1>6, <2>4, <3>1
      <4> QED BY <2>1, <2>4, <4>1, <4>2, <4>3 DEF GetRange
    <3>2. CASE ~(r <= hRange.length)
      <4>1. n = hRange.length
        BY <1>2, <1>4, <3>2
      <4>2. hRange' = [hRange EXCEPT !.length = 0]
        BY <2>1, <3>2
      <4> QED BY <1>2, <4>1, <4>2 DEF GetRange
    <3> QED BY <3>1, <3>2
  <2>6. GetTypes'
    <3>1. hPos' \in Nat
      BY <1>2, <1>4, <2>1
    <3> QED BY <1>1, <2>1, <2>3, <2>5, <3>1 DEF GetInv, GetTypes
  <2>7. LeftInv'
    <3>1. hRange'.length = hAnnounced' - Len(hSent')
      BY <1>1, <1>2, <1>3, <2>3, <2>4, <2>5, <1>4
    <3>2. hRange'.length > 0 => hRange'.offset = hFirst' + Len(hSent') /\ hPos' = hRange'.offset
      BY <1>1, <1>2, <1>4, <2>3, <2>4, <2>5
    <3> QED BY <1>1, <1>3, <3>1, <3>2 DEF LeftInv
  <2>8. ThereInv' /\ File!RangeInside' /\ File!BodyAsAnnounced'
    BY <1>1, <2>1 DEF GetInv, ThereInv, File!RangeInside, File!BodyAsAnnounced
  <2>9. File!BodyIsRange'
    <3>1. ASSUME NEW k \in 1 .. Len(hSent') PROVE hSent'[k] = hFirst' + k - 1
      <4>1. CASE k <= Len(hSent)
        <5>1. k \in 1 .. Len(hSent)
          BY <2>3, <2>4, <4>1
        <5> QED BY <1>1, <2>3, <5>1 DEF GetInv, File!BodyIsRange
      <4>2. CASE ~(k <= Len(hSent))
        <5>1. k - Len(hSent) \in 1 .. n /\ Len(hSent) + (k - Len(hSent)) = k
          BY <1>4, <2>3, <2>4, <4>2
        <5>2. hSent'[k] = hPos + (k - Len(hSent)) - 1
          BY <2>2, <2>3, <5>1
        <5> QED BY <1>1, <1>2, <2>4, <5>2
      <4> QED BY <4>1, <4>2
    <3>2. Len(hSent') <= hAnnounced'
      BY <1>1, <1>2, <1>3, <1>4, <2>3, <2>4
    <3> QED BY <3>1, <3>2 DEF File!BodyIsRange
  <2>10. Len(hSent') > Len(hSent)
    BY <1>4, <2>3, <2>4
  <2> QED BY <2>6, <2>7, <2>8, <2>9, <2>10 DEF GetInv
<1> QED BY <1>5, <1>6

\* Every other step: a read that fails, the peer that has read, the end of the
\* connection, another program.
LEMMA GetRests ==
    ASSUME File!FileAssumption, GetInv,
           File!ReadFails \/ File!Drained \/ File!ClientFree \/ File!Edit \/ UNCHANGED FileVars
    PROVE  GetInv'
<1>0. MaxSize \in Nat /\ 0 \in 0 .. MaxSize
  BY DEF File!FileAssumption
<1>1. CASE File!ReadFails
  <2>1. /\ hPc = "send" /\ hPc' = "idle" /\ hFree' = FALSE /\ hFds' = hFds - 1 /\ hCut' = TRUE
        /\ UNCHANGED <<hSize, hFile, hSt_size, hRange, hPos, hStatus, hAnnounced, hSent, hFirst, hOdd, hEdits>>
    BY <1>1 DEF File!ReadFails, File!Done, File!resp
  <2>2. GetTypes'
    <3>1. hFds' = 0
      BY <2>1 DEF GetInv, GetTypes
    <3> QED BY <2>1, <3>1 DEF GetInv, GetTypes
  <2>3. LeftInv' /\ ThereInv' /\ File!BodyAsAnnounced'
    BY <2>1 DEF LeftInv, ThereInv, File!BodyAsAnnounced
  <2> QED BY <2>1, <2>2, <2>3 DEF GetInv, File!BodyIsRange, File!RangeInside
<1>2. CASE File!Drained
  <2>1. /\ hPc = "wait" /\ hPc' = "send" /\ hPos' = hRange.offset
        /\ UNCHANGED <<hSize, hFile, hSt_size, hRange, hFree, hFds, hStatus, hAnnounced, hSent, hFirst,
                       hOdd, hCut, hEdits>>
    BY <1>2 DEF File!Drained, File!resp
  <2>2. hRange.offset \in Nat
    BY <1>0 DEF GetInv, GetTypes, GetRange
  <2>3. GetTypes' /\ LeftInv'
    BY <2>1, <2>2 DEF GetInv, GetTypes, LeftInv
  <2> QED BY <2>1, <2>3 DEF GetInv, ThereInv, File!BodyIsRange, File!RangeInside, File!BodyAsAnnounced
<1>3. CASE File!ClientFree
  <2>1. /\ hFds' = (IF hFree THEN hFds - 1 ELSE hFds) /\ hFree' = FALSE /\ hPc' = "idle"
        /\ hRange' = [offset |-> 0, length |-> 0] /\ hStatus' = 0 /\ hAnnounced' = 0 /\ hSent' = <<>> /\ hFirst' = 0
        /\ UNCHANGED <<hSize, hFile, hSt_size, hPos, hEdits>>
    BY <1>3 DEF File!ClientFree, File!Whole
  <2>2. GetTypes'
    <3>1. hRange' \in GetRange /\ <<>> \in Seq(Nat)
      BY <1>0, <2>1 DEF GetRange
    <3>2. hFds' = 0
      BY <2>1 DEF GetInv, GetTypes
    <3> QED BY <1>0, <2>1, <3>1, <3>2 DEF GetInv, GetTypes
  <2>3. LeftInv' /\ ThereInv' /\ File!BodyIsRange' /\ File!RangeInside' /\ File!BodyAsAnnounced'
    BY <2>1 DEF LeftInv, ThereInv, File!BodyIsRange, File!RangeInside, File!BodyAsAnnounced
  <2> QED BY <2>2, <2>3 DEF GetInv
<1>4. CASE File!Edit
  <2>1. PICK f \in Files, n \in 0 .. MaxSize :
           /\ hSize' = [hSize EXCEPT ![f] = n]
           /\ hCut' = (hCut \/ (f = hFile /\ hPc # "idle" /\ n < hFirst + hAnnounced))
    BY <1>4 DEF File!Edit
  <2>2. /\ hEdits' = hEdits + 1
        /\ UNCHANGED <<hFile, hSt_size, hRange, hFree, hPc, hPos, hFds, hStatus, hAnnounced, hSent, hFirst, hOdd>>
    BY <1>4 DEF File!Edit, File!cl, File!resp
  <2>3. GetTypes' /\ LeftInv' /\ File!BodyIsRange' /\ File!RangeInside'
    BY <2>1, <2>2 DEF GetInv, GetTypes, LeftInv, File!BodyIsRange, File!RangeInside
  <2>4. File!BodyAsAnnounced'
    BY <2>1, <2>2 DEF GetInv, File!BodyAsAnnounced
  <2>5. ThereInv'
    <3>1. hFirst \in Nat /\ hAnnounced \in Nat /\ hSize \in [Files -> 0 .. MaxSize]
      BY <1>0 DEF GetInv, GetTypes
    <3>2. ASSUME hPc # "idle", ~hOdd, ~hCut' PROVE hFirst + hAnnounced <= hSize'[hFile]
      <4>1. ~hCut /\ hFile \in Files /\ hFirst + hAnnounced <= hSize[hFile]
        BY <2>1, <3>2, Zenon DEF GetInv, ThereInv, GetTypes
      <4>2. CASE f = hFile
        <5>1. ~(n < hFirst + hAnnounced)
          BY <2>1, <3>2, <4>2
        <5>2. hSize'[hFile] = n
          BY <2>1, <3>1, <4>1, <4>2
        <5> QED BY <1>0, <3>1, <5>1, <5>2
      <4>3. CASE f # hFile
        BY <2>1, <3>1, <4>1, <4>3
      <4> QED BY <4>2, <4>3
    <3> QED BY <2>2, <3>2 DEF ThereInv
  <2> QED BY <2>3, <2>4, <2>5 DEF GetInv
<1>5. CASE UNCHANGED FileVars
  BY <1>5 DEF FileVars, GetInv, GetTypes, LeftInv, ThereInv, File!BodyIsRange, File!RangeInside,
              File!BodyAsAnnounced
<1> QED BY <1>1, <1>2, <1>3, <1>4, <1>5

LEMMA GetInit == ASSUME File!FileAssumption, File!Init PROVE GetInv
<1>0. MaxSize \in Nat /\ 0 \in 0 .. MaxSize
  BY DEF File!FileAssumption
<1>1. hRange \in GetRange /\ <<>> \in Seq(Nat)
  BY <1>0 DEF File!Init, File!Whole, GetRange
<1>2. GetTypes
  BY <1>0, <1>1 DEF File!Init, GetTypes
<1> QED BY <1>2 DEF File!Init, GetInv, LeftInv, ThereInv, File!BodyIsRange, File!RangeInside,
                    File!BodyAsAnnounced

LEMMA GetStep ==
    ASSUME File!FileAssumption, GetInv, [File!Next]_(File!vars)
    PROVE  GetInv'
<1>1. File!Next \/ UNCHANGED FileVars
  BY DEF File!vars, File!cl, File!resp, FileVars
<1> QED BY <1>1, GetRequest, GetWrites, GetRests, Zenon DEF File!Next

\* Where the file sender stands in its range, in the file and with its descriptor
\* is known between any two steps.
THEOREM FilesStayInStep == (File!Spec => []GetInv) /\ (MCSpec => []GetInv)
<1>1. File!Init => GetInv
  BY MCCommandsAssumption, GetInit
<1>2. GetInv /\ [File!Next]_(File!vars) => GetInv'
  BY MCCommandsAssumption, GetStep
<1>3. MCInit => File!Init
  BY DEF MCInit
<1>4. [MCNext]_mcVars => [File!Next]_(File!vars)
  BY CommandParts
<1> QED BY <1>1, <1>2, <1>3, <1>4, PTL DEF File!Spec, MCSpec

\* What is sent of a file is the range that was announced, each byte once and in
\* order, however the peer reads and the file changes meanwhile, and its descriptor
\* is closed (uh_file_request, file_write_cb).
THEOREM FilesAreSentRight == (File!Spec => []File!FileSound) /\ (MCSpec => []FileRight)
<1>1. ASSUME GetInv PROVE File!FileSound /\ FileRight
  <2>1. File!TypeOK
    BY <1>1 DEF GetInv, GetTypes, GetRange, File!TypeOK
  <2>2. File!FdOwned
    BY <1>1 DEF GetInv, GetTypes, File!FdOwned
  <2> QED BY <1>1, <2>1, <2>2 DEF GetInv, FileRight, File!FileSound
<1> QED BY <1>1, FilesStayInStep, PTL

\* Every turn of the loop of file_write_cb sends a byte of the range or ends the
\* request, however the file grows.
LEMMA TurnSends == ASSUME File!FileAssumption, GetInv, File!Next PROVE File!SendsOn
<1> SUFFICES ASSUME hPc = "send", hEdits' = hEdits
             PROVE  hPc' = "idle" \/ Len(hSent') > Len(hSent)
  BY DEF File!SendsOn
<1>1. CASE File!WriteCb
  BY <1>1, GetWrites
<1>2. CASE File!ReadFails
  BY <1>2 DEF File!ReadFails, File!Done
<1>3. ~File!Edit
  <2>1. hEdits \in Nat
    BY DEF GetInv, GetTypes
  <2> QED BY <2>1 DEF File!Edit
<1>4. ~File!Drained /\ ~File!ClientFree
  BY DEF File!Drained, File!ClientFree
<1>5. ASSUME NEW f, NEW x, NEW m, NEW old PROVE ~File!uh_file_request(f, x, m, old)
  BY DEF File!uh_file_request
<1> QED BY <1>1, <1>2, <1>3, <1>4, <1>5, Zenon DEF File!Next

\* A file that keeps growing is sent to the end of the range and no further, and its
\* request completes (file_write_cb): every turn sends a byte of the range, which is
\* bounded, or ends the request.
THEOREM FilesAreSentOn == (File!Spec => [][File!SendsOn]_(File!vars)) /\ (MCSpec => SendEnds)
<1>1. GetInv /\ [File!Next]_(File!vars) => [File!SendsOn]_(File!vars)
  BY MCCommandsAssumption, TurnSends
<1>2. GetInv /\ [MCNext]_mcVars => [part = "file" => File!SendsOn]_mcVars
  <2>1. ASSUME MCNext PROVE part = "file" => File!Next
    BY <2>1 DEF MCNext
  <2> QED BY <2>1, MCCommandsAssumption, TurnSends
<1> QED BY <1>1, <1>2, FilesStayInStep, PTL DEF File!Spec, MCSpec, SendEnds
=============================================================================
