---------------------------- MODULE ConfigStore ----------------------------
(***************************************************************************)
(* The configuration of the board: the structure in memory (conf/conf.c),  *)
(* the JSON tree it was read from and its file (dao/oal/json/json-oal.c),  *)
(* the addresses of the interfaces, which the script /etc/netset.sh sets,  *)
(* and the two requests that change any of it, POST /net (parse_json_net)  *)
(* and the link switch of a slot (cmd_linkcheck_set).  Everything runs in  *)
(* the event loop's thread, so requests do not interleave; what can happen *)
(* between any two steps is the end of the process (power, a signal), and  *)
(* at the next start the memory is built again from the file.              *)
(***************************************************************************)
EXTENDS Naturals, FiniteSets

CONSTANTS
    Ifs,            \* the interfaces named in the configuration file
    Devs,           \* the interfaces the device has
    Names,          \* the names a request may carry
    NoName,         \* a body that is not JSON, or has no ifname
    Slots,          \* the slots the file has a linkSwitch entry for
    ValidSlots,     \* the slots check_valid_slot_id lets through
    Addrs,          \* addresses, masks, gateways
    NoRoute,        \* an interface /proc/net/route has no line for
    Ports,          \* command ports
    Absent,         \* a field the body does not have
    Bad,            \* a field inet_pton refuses
    Empty,          \* a configuration file cut off by fopen(, "w")
    None,
    MaxReqs,        \* bound: requests in a behaviour
    MaxEnds,        \* bound: times the process is killed
    MaxUpdates      \* bound: new versions of the program installed

ASSUME ConfigAssumption ==
    /\ Slots \subseteq ValidSlots
    /\ NoRoute \notin Addrs /\ Absent \notin Addrs /\ Bad \notin Addrs
    /\ Absent \notin Ports /\ NoName \notin Names
    /\ None \notin ValidSlots
    /\ {MaxReqs, MaxEnds, MaxUpdates} \subseteq Nat

VARIABLES
    run,        \* "down", "boot", "up", or "dead": no start succeeds any more
    pc,         \* where the handler in the event loop is
    mem,        \* struct poal_config: ports, addresses, link switches
    tree,       \* root_json
    file,       \* what is on the disk
    net,        \* the addresses the interfaces really have
    listen,     \* the address and port each command server is bound to
    req,        \* the request being handled
    ans,        \* the code of the last answer
    version,    \* get_version_string() of the installed program
    left,       \* requests, kills and updates still allowed
    ghost       \* what the properties remember

vars == <<run, pc, mem, tree, file, net, listen, req, ans, version, left, ghost>>

AddrRecs == [ip : Addrs, mask : Addrs, gw : Addrs]
Trees == [port : [Ifs -> Ports], on : [Slots -> {0, 1}], ver : 0 .. MaxUpdates]
\* A file that was cut off is no text of a tree.
ASSUME EmptyAssumption == Empty \notin Trees

NoReq == [if |-> None, ip |-> Absent, mask |-> Absent, gw |-> Absent,
          port |-> Absent, slot |-> None, on |-> 0, reboot |-> FALSE]

\* The types of the state: a file is a whole tree or was cut off by fopen.
TypeOK ==
    /\ run \in {"down", "boot", "up", "dead"}
    /\ pc \in {"idle", "ip", "netmask", "gateway", "port", "open", "write", "answer"}
    /\ mem \in [port : [Ifs -> Ports], on : [Slots -> {0, 1}],
                addr : [Ifs -> AddrRecs]] \cup {None}
    /\ tree \in Trees \cup {None}
    /\ file \in Trees \cup {Empty}
    /\ net \in [Devs -> [ip : Addrs, mask : Addrs, gw : Addrs \cup {NoRoute}]]
    /\ listen \in [Ifs \cap Devs -> [ip : Addrs, port : Ports]] \cup {None}
    /\ req \in [if : Names \cup {None}, ip : Addrs \cup {Absent},
                mask : Addrs \cup {Absent}, gw : Addrs \cup {Absent},
                port : Ports \cup {Absent}, slot : ValidSlots \cup {None},
                on : {0, 1}, reboot : BOOLEAN]
    /\ ans \in {"none", "ok", "reboot", "parse_err", "execmd_err"}
    /\ version \in 0 .. MaxUpdates

(***************************************************************************)
(* What a start finds: any values for the interfaces and switches.         *)
(***************************************************************************)
Init ==
    \E p \in Ports, a \in Addrs :
        /\ run = "down" /\ pc = "idle"
        /\ mem = None /\ tree = None /\ listen = None
        /\ file = [port |-> [i \in Ifs |-> p], on |-> [s \in Slots |-> 0], ver |-> 0]
        /\ net = [i \in Devs |-> [ip |-> a, mask |-> a,
                                  gw |-> IF i = CHOOSE d \in Devs : TRUE
                                         THEN a ELSE NoRoute]]
        /\ req = NoReq /\ ans = "none" /\ version = 0
        /\ left = [reqs |-> MaxReqs, ends |-> MaxEnds, updates |-> MaxUpdates]
        /\ ghost = [cut |-> FALSE, unsaved |-> FALSE, refused |-> {},
                    port |-> [i \in Ifs |-> p], on |-> [s \in Slots |-> 0],
                    open |-> NoReq]

(***************************************************************************)
(* config_load_network reads the addresses of an interface into a local    *)
(* structure whose fields stay uninitialised when the read fails.          *)
(***************************************************************************)
Loads(i, os) ==
    IF i \in Devs
    THEN {r \in AddrRecs : /\ r.ip = os[i].ip /\ r.mask = os[i].mask
                           /\ os[i].gw # NoRoute => r.gw = os[i].gw}
    ELSE AddrRecs

ConfigLoadNetwork(i, os) ==
    IF i \in Ifs
    THEN \E r \in Loads(i, os) : mem' = [mem EXCEPT !.addr[i] = r]
    ELSE mem' = mem

(***************************************************************************)
(* Start-up.  json_read_config_file exits when there is nothing to parse,  *)
(* and writes the file back at once when the program's version is new.     *)
(***************************************************************************)
FaultReadFails ==
    /\ run = "down" /\ (file = Empty \/ file.ver # version)
    /\ run' = "dead"
    /\ UNCHANGED <<pc, mem, tree, file, net, listen, req, ans, version, left, ghost>>

JsonReadFails ==
    /\ run = "down" /\ file = Empty
    /\ run' = "dead"
    /\ UNCHANGED <<pc, mem, tree, file, net, listen, req, ans, version, left, ghost>>

JsonReadFile ==
    /\ run = "down" /\ file # Empty
    /\ run' = "boot"
    /\ tree' = [file EXCEPT !.ver = version]
    /\ pc' = IF file.ver = version THEN "answer" ELSE "open"
    /\ ghost' = IF ghost.unsaved        \* what was not saved is lost
                THEN [ghost EXCEPT !.port = file.port, !.on = file.on,
                                   !.unsaved = FALSE]
                ELSE ghost
    /\ UNCHANGED <<mem, file, net, listen, req, ans, version, left>>

\* the rest of json_parse_config_param, then config_init and server_init
ConfigInit ==
    /\ run = "boot" /\ pc = "answer"
    /\ \E a \in [Ifs -> UNION {Loads(i, net) : i \in Ifs}] :
          /\ \A i \in Ifs : a[i] \in Loads(i, net)
          /\ mem' = [port |-> tree.port, on |-> tree.on, addr |-> a]
    /\ listen' = [i \in Ifs \cap Devs |-> [ip |-> net[i].ip, port |-> tree.port[i]]]
    /\ run' = "up" /\ pc' = "idle" /\ ans' = "none"
    /\ ghost' = [ghost EXCEPT !.port = tree.port, !.on = tree.on, !.open = NoReq,
                              !.refused = {}]
    /\ UNCHANGED <<tree, file, net, req, version, left>>

(***************************************************************************)
(* json_write_config_param: the ports and the link switches go from the    *)
(* memory into the tree, then json_write_file opens the file with "w",     *)
(* which cuts it to nothing, and writes the text of the tree.              *)
(***************************************************************************)
FaultWriteParam(t, m) == [t EXCEPT !.port = m.port]

JsonWriteConfigParam(t, m) == [t EXCEPT !.port = m.port, !.on = m.on]

\* the open is refused: json_write_file returns -1 and nobody looks
OpenFails ==
    /\ pc = "open"
    /\ pc' = "answer"
    /\ ghost' = [ghost EXCEPT !.unsaved = TRUE]
    /\ UNCHANGED <<run, mem, tree, file, net, listen, req, ans, version, left>>

OpenCuts ==
    /\ pc = "open"
    /\ file' = Empty
    /\ pc' = "write"
    /\ UNCHANGED <<run, mem, tree, net, listen, req, ans, version, left, ghost>>

WriteFile ==
    /\ pc = "write"
    /\ file' = tree
    /\ pc' = "answer"
    /\ ghost' = [ghost EXCEPT !.unsaved = FALSE]
    /\ UNCHANGED <<run, mem, tree, net, listen, req, ans, version, left>>

(***************************************************************************)
(* Answers.  http_on_request exits after it has sent RESP_CODE_EXECMD_-    *)
(* REBOOT.                                                                 *)
(***************************************************************************)
Promised(g, r) ==
    [g EXCEPT !.port = IF r.port = Absent \/ r.if \notin Ifs THEN g.port
                       ELSE [g.port EXCEPT ![r.if] = r.port],
              !.on = IF r.slot \notin Slots THEN g.on
                     ELSE [g.on EXCEPT ![r.slot] = r.on]]

Refuse(code) ==
    /\ ans' = code /\ pc' = "idle" /\ req' = NoReq
    /\ ghost' = [ghost EXCEPT !.refused = @ \cup {req.if}]

Answer ==
    /\ run = "up" /\ pc = "answer"
    /\ pc' = "idle" /\ req' = NoReq
    /\ ghost' = Promised(ghost, req)
    /\ IF req.reboot
       THEN /\ ans' = "reboot" /\ run' = "down"
            /\ mem' = None /\ tree' = None /\ listen' = None
       ELSE /\ ans' = "ok" /\ UNCHANGED <<run, mem, tree, listen>>
    /\ UNCHANGED <<file, net, version, left>>

(***************************************************************************)
(* POST /net: the fields are taken one after the other and each is set     *)
(* before the next one is looked at.                                       *)
(***************************************************************************)
NetBegin(n) ==
    /\ run = "up" /\ pc = "idle" /\ left.reqs > 0
    /\ left' = [left EXCEPT !.reqs = @ - 1]
    /\ IF n = NoName
       THEN /\ ans' = "parse_err" /\ UNCHANGED <<pc, req>>
       ELSE /\ req' = [NoReq EXCEPT !.if = n] /\ pc' = "ip" /\ ans' = "none"
    /\ UNCHANGED <<run, mem, tree, file, net, listen, version, ghost>>

FaultMatchIpaddr(n, v) == \E i \in Ifs : mem.addr[i].ip = v

MatchIpaddr(n, v) == n \in Ifs /\ mem.addr[n].ip = v

MatchNetmask(n, v) == n \in Ifs /\ mem.addr[n].mask = v

\* config_match_gateway_addr does not look at the name
MatchGateway(n, v) == \E i \in Ifs : mem.addr[i].gw = v

\* config_set_netaddr: the script, then the addresses are read again
SetNetaddr(n, f, v, next) ==
    \/ /\ n \notin Devs
       /\ Refuse("execmd_err")
       /\ UNCHANGED <<mem, net>>
    \/ /\ n \in Devs
       /\ net' = [net EXCEPT ![n][f] = v]
       /\ ConfigLoadNetwork(n, net')
       /\ next
    \/ /\ n \in Devs                \* the script fails, and changes no address
       /\ UNCHANGED net
       /\ ConfigLoadNetwork(n, net)
       /\ Refuse("execmd_err")

IpAddr(v) ==
    /\ pc = "ip"
    /\ \/ /\ v = Bad /\ Refuse("parse_err") /\ UNCHANGED <<mem, net>>
       \/ /\ v = Absent \/ (v \in Addrs /\ MatchIpaddr(req.if, v))
          /\ req' = [req EXCEPT !.ip = v]
          /\ pc' = "netmask" /\ UNCHANGED <<mem, net, ans, ghost>>
       \/ /\ v \in Addrs /\ ~MatchIpaddr(req.if, v)
          /\ SetNetaddr(req.if, "ip", v,
                /\ req' = [req EXCEPT !.ip = v, !.reboot = TRUE]
                /\ pc' = "netmask" /\ UNCHANGED <<ans, ghost>>)
    /\ UNCHANGED <<run, tree, file, listen, version, left>>

Netmask(v) ==
    /\ pc = "netmask"
    /\ \/ /\ v = Bad /\ Refuse("parse_err") /\ UNCHANGED <<mem, net>>
       \/ /\ v = Absent \/ (v \in Addrs /\ MatchNetmask(req.if, v))
          /\ req' = [req EXCEPT !.mask = v]
          /\ pc' = "gateway" /\ UNCHANGED <<mem, net, ans, ghost>>
       \/ /\ v \in Addrs /\ ~MatchNetmask(req.if, v)
          /\ SetNetaddr(req.if, "mask", v,
                /\ req' = [req EXCEPT !.mask = v]
                /\ pc' = "gateway" /\ UNCHANGED <<ans, ghost>>)
    /\ UNCHANGED <<run, tree, file, listen, version, left>>

Gateway(v) ==
    /\ pc = "gateway"
    /\ \/ /\ v = Bad /\ Refuse("parse_err") /\ UNCHANGED <<mem, net>>
       \/ /\ v = Absent \/ (v \in Addrs /\ MatchGateway(req.if, v))
          /\ req' = [req EXCEPT !.gw = v]
          /\ pc' = "port" /\ UNCHANGED <<mem, net, ans, ghost>>
       \/ /\ v \in Addrs /\ ~MatchGateway(req.if, v)
          /\ SetNetaddr(req.if, "gw", v,
                /\ req' = [req EXCEPT !.gw = v]
                /\ pc' = "port" /\ UNCHANGED <<ans, ghost>>)
    /\ UNCHANGED <<run, tree, file, listen, version, left>>

\* config_set_if_cmd_port: a port the interface has already, or an interface
\* that is not in the configuration, changes nothing
FaultPort(v) ==
    /\ pc = "port"
    /\ IF v # Absent /\ req.if \in Ifs /\ mem.port[req.if] # v
       THEN /\ mem' = [mem EXCEPT !.port[req.if] = v]
            /\ tree' = JsonWriteConfigParam(tree, mem')
            /\ req' = [req EXCEPT !.port = v]
            /\ pc' = "open"
       ELSE /\ req' = [req EXCEPT !.port = v] /\ pc' = "answer"
            /\ UNCHANGED <<mem, tree>>
    /\ UNCHANGED <<run, file, net, listen, ans, version, left, ghost>>

Port(v) ==
    /\ pc = "port"
    /\ IF v # Absent /\ req.if \in Ifs /\ mem.port[req.if] # v
       THEN /\ mem' = [mem EXCEPT !.port[req.if] = v]
            /\ tree' = JsonWriteConfigParam(tree, mem')
            /\ req' = [req EXCEPT !.port = v, !.reboot = TRUE]
            /\ pc' = "open"
       ELSE /\ req' = [req EXCEPT !.port = v] /\ pc' = "answer"
            /\ UNCHANGED <<mem, tree>>
    /\ UNCHANGED <<run, file, net, listen, ans, version, left, ghost>>

(***************************************************************************)
(* The link switch of a slot: config_set_link_switch changes it only when  *)
(* the file has an entry for the slot, and saves in every case.            *)
(***************************************************************************)
FaultLinkcheckSet(s, v) ==
    /\ run = "up" /\ pc = "idle" /\ left.reqs > 0
    /\ left' = [left EXCEPT !.reqs = @ - 1]
    /\ mem' = [mem EXCEPT !.on[IF s \in Slots THEN s ELSE CHOOSE t \in Slots : TRUE] = v]
    /\ tree' = JsonWriteConfigParam(tree, mem')
    /\ req' = [NoReq EXCEPT !.slot = s, !.on = v]
    /\ pc' = "open" /\ ans' = "none"
    /\ UNCHANGED <<run, file, net, listen, version, ghost>>

LinkcheckSet(s, v) ==
    /\ run = "up" /\ pc = "idle" /\ left.reqs > 0
    /\ left' = [left EXCEPT !.reqs = @ - 1]
    /\ mem' = IF s \in Slots THEN [mem EXCEPT !.on[s] = v] ELSE mem
    /\ tree' = JsonWriteConfigParam(tree, mem')
    /\ req' = [NoReq EXCEPT !.slot = s, !.on = v]
    /\ pc' = "open" /\ ans' = "none"
    /\ UNCHANGED <<run, file, net, listen, version, ghost>>

(***************************************************************************)
(* The process ends at any point; a new version may be installed then.     *)
(***************************************************************************)
Killed ==
    /\ run \in {"up", "boot"} /\ left.ends > 0
    /\ left' = [left EXCEPT !.ends = @ - 1]
    /\ run' = "down" /\ pc' = "idle" /\ req' = NoReq /\ ans' = "none"
    /\ mem' = None /\ tree' = None /\ listen' = None
    /\ ghost' = [ghost EXCEPT !.cut = @ \/ pc = "write",
                              !.open = IF run = "up" THEN req ELSE @]
    /\ UNCHANGED <<file, net, version>>

Update ==
    /\ run = "down" /\ left.updates > 0
    /\ left' = [left EXCEPT !.updates = @ - 1]
    /\ version' = version + 1
    /\ UNCHANGED <<run, pc, mem, tree, file, net, listen, req, ans, ghost>>

Next ==
    \/ JsonReadFails \/ JsonReadFile \/ ConfigInit
    \/ OpenFails \/ OpenCuts \/ WriteFile \/ Answer \/ Killed \/ Update
    \/ \E n \in Names \cup {NoName} : NetBegin(n)
    \/ \E v \in Addrs \cup {Absent, Bad} : IpAddr(v) \/ Netmask(v) \/ Gateway(v)
    \/ \E v \in Ports \cup {Absent} : Port(v)
    \/ \E s \in ValidSlots, v \in {0, 1} : LinkcheckSet(s, v)

Spec == Init /\ [][Next]_vars

(***************************************************************************)
(* Properties                                                              *)
(***************************************************************************)
Quiet == run = "up" /\ pc = "idle"

\* Whenever no request is being handled, the memory and the tree agree on the
\* ports and the switches, and unless the last save could not open the file
\* (json_write_file's -1, which config_save_all ignores) so does the file.
FileIsMemory ==
    Quiet => /\ tree.port = mem.port /\ tree.on = mem.on
             /\ ~ghost.unsaved => file = tree

\* Only a kill between fopen(, "w") and the end of the write leaves a board
\* that cannot start: no request, answer, refused open, update or kill at
\* another point makes json_read_config_file exit.
OnlyACutKills == (run = "dead" \/ (run = "down" /\ file = Empty)) => ghost.cut

\* After an accepted request or a restart, each command server listens on the
\* port the memory has; and on the address its interface has, unless a
\* request for that interface was refused after it had changed something.
ListensWhereConfigured ==
    Quiet => \A i \in Ifs \cap Devs :
        /\ listen[i].port = mem.port[i]
        /\ i \notin ghost.refused => listen[i].ip = net[i].ip

\* A board always listens on the addresses its interfaces have: whatever
\* changes an address is followed by the exit that lets it take effect.
ListensOnItsAddress ==
    Quiet => \A i \in Ifs \cap Devs : listen[i].ip = net[i].ip

\* A request for a known interface that is about to be accepted has set what
\* it asked for: the address and the mask of that interface, its port, and
\* the gateway of that interface or of another one (config_match_gateway_addr
\* ignores the name).
AcceptedIsDone ==
    (run = "up" /\ pc = "answer" /\ req.if \in Devs) =>
        /\ req.ip # Absent => net[req.if].ip = req.ip
        /\ req.mask # Absent => net[req.if].mask = req.mask
        /\ (req.port # Absent /\ req.if \in Ifs) => mem.port[req.if] = req.port
        /\ req.gw # Absent =>
              \E i \in Ifs \cup {req.if} : \/ i \in Ifs /\ mem.addr[i].gw = req.gw
                                           \/ i \in Devs /\ net[i].gw = req.gw

\* File, memory and what the board does agree between two requests: what was
\* accepted is in the memory, in the file and in effect, and every kill but one in
\* the middle of the write leaves a file the board starts with.
ConfigSound ==
    /\ TypeOK /\ FileIsMemory /\ OnlyACutKills
    /\ ListensWhereConfigured /\ AcceptedIsDone

\* What has been answered is found again after the next start: each port and
\* switch the memory is built with is the one last promised, or the one a
\* request asked for that the kill left without an answer.  (Saves the file
\* system refused are excepted.)
KeepsPromises ==
    (run = "boot" /\ run' = "up") =>
          /\ \A i \in Ifs : \/ mem'.port[i] = ghost.port[i]
                            \/ ghost.open.if = i /\ mem'.port[i] = ghost.open.port
          /\ \A s \in Slots : \/ mem'.on[s] = ghost.on[s]
                              \/ ghost.open.slot = s /\ mem'.on[s] = ghost.open.on
=============================================================================
