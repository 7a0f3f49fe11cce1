----------------------------- MODULE BitfileLoad -----------------------------
(***************************************************************************)
(* Loading bit files into the FPGA chips over the command connections:       *)
(* CCT_LOAD, CCT_FILE_TRANSFER and CCT_UNLOAD of protocol/m57/m57.c, the     *)
(* descriptors they share with the sockets of net/net_tcp.c, and the load    *)
(* states that net/net_statistics.h shows.                                   *)
(*                                                                         *)
(* The load is synchronous in the card10g_57 build (LOAD_FILE_ASYN is not    *)
(* set): uloop executes a command to its end, the writing of the received    *)
(* file into the FPGA included, so a command is one action.                  *)
(*                                                                         *)
(* A file is a sequence of chunks; a chunk is named by the number of the     *)
(* LOAD command it was sent for and its place in the file.  The FPGA         *)
(* (registers and DMA writes) is the environment.                            *)
(***************************************************************************)
EXTENDS Integers, Sequences, FiniteSets

CONSTANTS
    Clients,    \* the connections
    Slots,      \* the slots chip ids may name, 0 among them
    Cards,      \* the slots that hold a card
    Nums,       \* the chips of a card
    LinkSlots,  \* the slots whose link switch is on
    MaxLen,     \* bound: chunks in a file
    MaxLoad,    \* bound: LOAD commands
    MaxCount,   \* bound: successful loads a slot counts
    MaxHurt,    \* bound: kinds of accidents after which the behaviour goes on
    NFds        \* the descriptors the process may have open, from 1

ASSUME LoadAssumption ==
    /\ 0 \in Slots /\ Slots \subseteq Nat /\ Cards \subseteq Slots
    /\ Nums \subseteq Nat /\ LinkSlots \subseteq Slots
    /\ MaxLen \in Nat /\ MaxLoad \in Nat /\ MaxCount \in Nat
    /\ MaxHurt \in Nat /\ NFds \in Nat

VARIABLES
    fdt,    \* the descriptor table of the process
    file,   \* the contents of /tmp/.<chip>.tmp
    cl,     \* the section of each connection
    loads,  \* LOAD commands so far
    chip,   \* what was last written into each chip
    slot,   \* net_statistics.chip[]
    out,    \* what the command just executed has sent and set
    hurt    \* the accidents that have happened so far

vars == <<fdt, file, cl, loads, chip, slot, out, hurt>>

ChipIds  == Slots \X Nums
Chips    == Cards \X Nums                 \* io_xdma_is_valid_chipid
BadChips == ChipIds \ Chips
NoChip   == <<0, 0>>                      \* chip_id of a fresh section
SlotOf(x) == x[1]
Fds      == 1 .. NFds

\* What nothing in the code prevents.
\*   "stale":      a descriptor number kept after close is used when it belongs
\*                 to somebody else;
\*   "nofd":       no descriptor is left for the file, the process exits;
\*   "empty":      an empty file is loaded, its size divides;
\*   "leak":       a connection goes while its file is open;
\*   "shared":     two connections load the same chip at the same time;
\*   "replay":     a portion that no LOAD announced loads the file once more;
\*   "unverified": the FPGA could not be told that the file is complete;
\*   "link":       the file is in the chip and the link does not come up;
\*   "uneven":     a chip is loaded twice, or unloaded while not loaded;
\*   "abandoned":  a LOAD comes while the transfer before it is open.
\* After one of the first three the process is gone or works on a descriptor of
\* somebody else: the behaviour ends.
Fatal     == {"stale", "nofd", "empty"}
Accidents == Fatal \cup {"leak", "shared", "replay", "unverified", "link", "uneven", "abandoned"}

Note(a, P) == IF P THEN {a} ELSE {}

Free == [use |-> "free"]
Sock == [use |-> "sock"]

Fresh == [ sock |-> 0, run |-> FALSE, ok |-> FALSE, chip |-> NoChip, fd |-> 0,
           len |-> 0, off |-> 0, no |-> 0, sent |-> 0 ]

\* The answers and the statuses passed to config_set_device_status and
\* ns_downlink_set_link_result.
Did(cmd, ans, dev, link) == [cmd |-> cmd, ans |-> ans, dev |-> dev, link |-> link]
Quiet == Did("none", << >>, "same", "same")

Connected == {c \in Clients : cl[c].sock # 0}

Init ==
    /\ fdt = [f \in Fds |-> Free]
    /\ file = [x \in Chips |-> << >>]
    /\ cl = [c \in Clients |-> Fresh]
    /\ loads = 0
    /\ chip = [x \in Chips |-> [no |-> 0, data |-> << >>, good |-> FALSE]]
    /\ slot = [s \in Slots |-> [load |-> "wait_load", count |-> 0]]
    /\ out = Quiet
    /\ hurt = {}
-----------------------------------------------------------------------------
(* Descriptors.                                                              *)

\* The kernel gives out the lowest number that is free in table t.
Lowest(t, f) == t[f] = Free /\ \A g \in Fds : t[g] = Free => f <= g

\* close of number f in table t; 0 stands for no descriptor.
Shut(t, f) == IF f = 0 THEN t ELSE [t EXCEPT ![f] = Free]

\* The number client c keeps is open, is its own file or somebody else's.
Open(c)  == cl[c].fd # 0 /\ fdt[cl[c].fd] # Free
Holds(c) == Open(c) /\ fdt[cl[c].fd] # Sock /\ fdt[cl[c].fd].by = c
Alien(c) == Open(c) /\ ~Holds(c)

\* Contents s once data d have been written behind place p.
Written(s, p, d) ==
    [i \in 1 .. (IF Len(s) > p + Len(d) THEN Len(s) ELSE p + Len(d)) |->
        IF p < i /\ i <= p + Len(d) THEN d[i - p]
        ELSE IF i <= Len(s) THEN s[i] ELSE <<0, 0>>]
-----------------------------------------------------------------------------
(* The states shown.                                                         *)

\* Fault: an unload resets what the card shows, whatever its other chip holds.
SetLoad_NoCount(s, st) ==
    [slot EXCEPT ![s].load = st,
                 ![s].count = IF st = "load_ok" THEN slot[s].count + 1 ELSE 0]

\* ns_downlink_set_loadbit_result: the slot counts its successful loads, and
\* shows wait_load again only when the count is back at zero.
SetLoad(s, st) ==
    IF st = "load_ok"
    THEN [slot EXCEPT ![s].load = st, ![s].count = slot[s].count + 1]
    ELSE IF st = "wait_load"
    THEN LET n == IF slot[s].count = 0 THEN 0 ELSE slot[s].count - 1
         IN  [slot EXCEPT ![s].count = n, ![s].load = IF n = 0 THEN st ELSE slot[s].load]
    ELSE [slot EXCEPT ![s].load = st]
-----------------------------------------------------------------------------
(* The connections.                                                          *)

\* tcp_accept_cb
Accept(c) ==
    /\ c \notin Connected
    /\ \E f \in Fds :
          /\ Lowest(fdt, f)
          /\ fdt' = [fdt EXCEPT ![f] = Sock]
          /\ cl' = [cl EXCEPT ![c] = [Fresh EXCEPT !.sock = f]]
    /\ out' = Quiet
    /\ UNCHANGED <<file, loads, chip, slot, hurt>>

\* tcp_free closes the socket and forgets the section, its open file included.
Disconnect(c) ==
    /\ c \in Connected
    /\ fdt' = Shut(fdt, cl[c].sock)
    /\ cl' = [cl EXCEPT ![c] = Fresh]
    /\ hurt' = hurt \cup Note("leak", Holds(c))
    /\ out' = Quiet
    /\ UNCHANGED <<file, loads, chip, slot>>
-----------------------------------------------------------------------------
(* CCT_LOAD                                                                  *)

\* _assamble_resp_payload
Answer(cmd, x, ret) == [cmd |-> cmd, chip |-> x, ret |-> ret]

\* What is set before the chip id is looked at.
Announced(c, x, n) ==
    [cl[c] EXCEPT !.chip = x, !.len = n, !.off = 0, !.run = TRUE, !.ok = FALSE,
                  !.no = loads + 1, !.sent = 0]

\* The slot is empty: the error is answered, and the transfer is open.
LoadRefused(c, x, n) ==
    /\ c \in Connected /\ x \in BadChips
    /\ loads < MaxLoad
    /\ cl' = [cl EXCEPT ![c] = Announced(c, x, n)]
    /\ loads' = loads + 1
    /\ out' = Did("load", << Answer("rsp_load", x, -1) >>, "same", "same")
    /\ hurt' = hurt \cup Note("abandoned", cl[c].run)
    /\ UNCHANGED <<fdt, file, chip, slot>>

\* Faults: the file is opened without O_TRUNC; the number is not closed.
Truncated_Not(x) == file
CloseKept_Not(c) == fdt

\* open with O_TRUNC of the one path a chip has.
Truncated(x) == [file EXCEPT ![x] = << >>]

\* _create_tmp_path closes the number kept from the file before.
CloseKept(c) == Shut(fdt, cl[c].fd)

\* The number kept is closed, the file of the chip is emptied and opened, and
\* the FPGA is told to expect it.
Load(c, x, n) ==
    /\ c \in Connected /\ x \in Chips
    /\ loads < MaxLoad
    /\ loads' = loads + 1
    /\ out' = Did("load", << >>, "same", "same")
    /\ LET t == CloseKept(c)
       IN  \/ \E f \in Fds :
                 /\ Lowest(t, f)
                 /\ fdt' = [t EXCEPT ![f] = [use |-> "file", chip |-> x, pos |-> 0, by |-> c]]
                 /\ cl' = [cl EXCEPT ![c] = [Announced(c, x, n) EXCEPT !.fd = f]]
                 /\ file' = Truncated(x)
                 /\ hurt' = hurt \cup Note("stale", Alien(c)) \cup Note("abandoned", cl[c].run)
                       \cup Note("shared", \E d \in Connected \ {c} :
                                              Holds(d) /\ fdt[cl[d].fd].chip = x)
           \/ /\ \A f \in Fds : t[f] # Free
              /\ cl' = [cl EXCEPT ![c] = Announced(c, x, n)]
              /\ hurt' = hurt \cup {"nofd"}
              /\ UNCHANGED <<fdt, file>>
    /\ UNCHANGED <<chip, slot>>
-----------------------------------------------------------------------------
(* CCT_FILE_TRANSFER                                                         *)

\* Fault: the error is answered and the slot goes on showing "loading".
Failed_KeepsState(x, ans) ==
    /\ out' = Did("transfer", Append(ans, Answer("rsp_load", x, -5)), "load_err", "same")
    /\ UNCHANGED <<chip, slot>>

\* A transfer has failed: answer and states.
Failed(x, ans) ==
    /\ slot' = SetLoad(SlotOf(x), "load_err")
    /\ out' = Did("transfer", Append(ans, Answer("rsp_load", x, -5)), "load_err", "same")
    /\ UNCHANGED chip

\* The contents s of the file go to the DMA writes, and the FPGA's verdict is
\* good or not; a write that fails ends the loop and is left to the verdict.
IntoFpga(c, s, good) ==
    chip' = [chip EXCEPT ![cl[c].chip] =
               [no |-> cl[c].no, data |-> s, good |-> good]]

Reply(x, ret, dev, link) ==
    out' = Did("transfer", << Answer("rsp_load", x, ret) >>, dev, link)

LinkChecked(x) == SlotOf(x) \in LinkSlots /\ x[2] = 2

\* _m57_loading_bitfile_to_fpga and _m57_load_bit_over for chip x, the chip of
\* client c, and the contents s of its file.  The accidents are those in before
\* and the ones met here.
LoadFile(c, x, s, before) ==
    LET h == before \cup Note("uneven", chip[x].good) IN
    \/ \* the file cannot be opened any more: two answers
       /\ Failed(x, << Answer("rsp_load", x, -5) >>)
       /\ hurt' = before
    \/ \* the progress report divides by the size of the file
       /\ s = << >>
       /\ hurt' = h \cup {"empty"}
       /\ UNCHANGED <<chip, slot, out>>
    \/ /\ s # << >>
       /\ \/ \* the stop command is not written: nothing is checked
             /\ IntoFpga(c, s, FALSE)
             /\ Reply(x, 0, "same", "same")
             /\ hurt' = h \cup {"unverified"}
             /\ UNCHANGED slot
          \/ \* the load result is bad
             /\ IntoFpga(c, s, FALSE)
             /\ slot' = SetLoad(SlotOf(x), "load_err")
             /\ Reply(x, -5, "load_err", "same")
             /\ hurt' = h
          \/ \* the load result is good, the link is checked and is bad
             /\ LinkChecked(x)
             /\ IntoFpga(c, s, TRUE)
             /\ Reply(x, -7, "link_err", "link_err")
             /\ hurt' = h \cup {"link"}
             /\ UNCHANGED slot
          \/ \* the load result is good, and the link if it is checked
             /\ IntoFpga(c, s, TRUE)
             /\ slot' = SetLoad(SlotOf(x), "load_ok")
             /\ Reply(x, 0, "load_ok", IF LinkChecked(x) THEN "link_ok" ELSE "same")
             /\ hurt' = h

\* No LOAD has announced the portion, or the one before ended the transfer.
\* The outcome of the last transfer is still in the section, and decides.
TransferStray(c) ==
    /\ c \in Connected /\ ~cl[c].run
    /\ LET x == cl[c].chip
       IN  \/ /\ cl[c].ok /\ x \in Chips
              /\ slot[SlotOf(x)].count < MaxCount
              /\ LoadFile(c, x, file[x], hurt \cup {"replay"})
           \/ /\ ~(cl[c].ok /\ x \in Chips)
              /\ Failed(x, << >>)
              /\ UNCHANGED hurt
    /\ UNCHANGED <<fdt, file, cl, loads>>

\* The portion names another chip or is out of order.
TransferBad(c) ==
    /\ c \in Connected /\ cl[c].run
    /\ cl' = [cl EXCEPT ![c].run = FALSE, ![c].ok = FALSE]
    /\ Failed(cl[c].chip, << >>)
    /\ UNCHANGED <<fdt, file, loads, hurt>>

\* The transfer ends with a portion of n chunks: the descriptor is closed and
\* its number kept.
Ended(c, ok, n) ==
    /\ fdt' = Shut(fdt, cl[c].fd)
    /\ cl' = [cl EXCEPT ![c].run = FALSE, ![c].ok = ok, ![c].off = @ + n, ![c].sent = @ + n]

\* write fails: no descriptor was ever opened, or the number is closed.
TransferNoFile(c) ==
    /\ c \in Connected /\ cl[c].run
    /\ ~Open(c)
    /\ Ended(c, FALSE, 0)
    /\ Failed(cl[c].chip, << >>)
    /\ UNCHANGED <<file, loads, hurt>>

\* _recv_file_over: what ends a transfer well, after off chunks.
RecvOver(off, n, len, last) == off = len \/ last \/ (off < len /\ n = 0)

\* The portion comes in order and is written: n chunks, announced as the last
\* ones or not.
TransferPart(c, n, last) ==
    /\ c \in Connected /\ cl[c].run
    /\ Open(c)
    /\ LET d   == [i \in 1 .. n |-> <<cl[c].no, cl[c].sent + i>>]
           h   == fdt[cl[c].fd]
           x   == cl[c].chip
           off == cl[c].off + n
           new == IF h = Sock THEN file
                  ELSE [file EXCEPT ![h.chip] = Written(file[h.chip], h.pos, d)]
           acc == hurt \cup Note("stale", Alien(c))
       IN  /\ file' = new
           /\ \/ /\ RecvOver(off, n, cl[c].len, last)
                 /\ Ended(c, TRUE, n)
                 /\ \/ x \in Chips /\ LoadFile(c, x, new[x], acc)
                    \/ x \notin Chips /\ Failed(x, << >>) /\ hurt' = acc
              \/ /\ ~RecvOver(off, n, cl[c].len, last)
                 /\ off > cl[c].len
                 /\ Ended(c, FALSE, n)
                 /\ Failed(x, << >>)
                 /\ hurt' = acc
              \/ /\ ~RecvOver(off, n, cl[c].len, last)
                 /\ off < cl[c].len
                 /\ fdt' = IF h = Sock THEN fdt ELSE [fdt EXCEPT ![cl[c].fd].pos = @ + n]
                 /\ cl' = [cl EXCEPT ![c].off = off, ![c].sent = @ + n]
                 /\ slot' = SetLoad(SlotOf(x), "loading")
                 /\ out' = Did("transfer", << >>, "loading", "same")
                 /\ hurt' = acc
                 /\ UNCHANGED chip
    /\ UNCHANGED <<loads>>
-----------------------------------------------------------------------------
(* CCT_UNLOAD                                                                *)

UnloadRefused(c, x) ==
    /\ c \in Connected /\ x \in BadChips
    /\ out' = Did("unload", << Answer("rsp_unload", x, -1) >>, "same", "same")
    /\ UNCHANGED <<fdt, file, cl, loads, chip, slot, hurt>>

\* _m57_start_unload_bitfile_from_fpga
UnloadFpga(x) ==
    \/ /\ chip' = [chip EXCEPT ![x].good = FALSE]
       /\ slot' = SetLoad(SlotOf(x), "wait_load")
       /\ hurt' = hurt \cup Note("uneven", ~chip[x].good)
    \/ UNCHANGED <<chip, slot, hurt>>

\* The answer is put together and no response code is set.
Unload(c, x) ==
    /\ c \in Connected /\ x \in Chips
    /\ UnloadFpga(x)
    /\ out' = Did("unload", << >>, "same", "same")
    /\ UNCHANGED <<fdt, file, cl, loads>>

\* The behaviour ends with an accident after which the process does not go on.
Alive == hurt \cap Fatal = {}

\* A step of some connection; the commands name chips of X.
NextOn(X) ==
    /\ Alive /\ Cardinality(hurt) <= MaxHurt
    /\ \E c \in Clients :
             \/ Accept(c) \/ Disconnect(c)
             \/ TransferStray(c) \/ TransferBad(c) \/ TransferNoFile(c)
             \/ \E n \in 0 .. MaxLen, last \in BOOLEAN : TransferPart(c, n, last)
             \/ \E x \in X :
                   \/ \E n \in 0 .. MaxLen : LoadRefused(c, x, n) \/ Load(c, x, n)
                   \/ UnloadRefused(c, x) \/ Unload(c, x)

Next == NextOn(ChipIds)

Spec == Init /\ [][Next]_vars
-----------------------------------------------------------------------------
(* Properties.                                                               *)

Chunks == {<<k, i>> : k \in 0 .. MaxLoad, i \in 0 .. 2 * MaxLen}

\* Every variable has its type.
TypeOK ==
    /\ \A f \in Fds : \/ fdt[f] \in {Free, Sock}
                      \/ /\ fdt[f].use = "file" /\ fdt[f].chip \in Chips
                         /\ fdt[f].pos \in Nat /\ fdt[f].by \in Clients
    /\ \A x \in Chips : \A i \in 1 .. Len(file[x]) : file[x][i] \in Chunks
    /\ cl \in [Clients -> [ sock : Fds \cup {0}, run : BOOLEAN, ok : BOOLEAN,
                            chip : ChipIds \cup {NoChip}, fd : Fds \cup {0},
                            len : 0 .. MaxLen, off : 0 .. 2 * MaxLen,
                            no : 0 .. MaxLoad, sent : 0 .. 2 * MaxLen ]]
    /\ loads \in 0 .. MaxLoad
    /\ \A x \in Chips : chip[x].no \in 0 .. MaxLoad /\ chip[x].good \in BOOLEAN
    /\ slot \in [Slots -> [ load : {"wait_load", "loading", "load_ok", "load_err"},
                            count : Nat ]]
    /\ out.dev \in {"same", "loading", "load_ok", "load_err", "link_err"}
    /\ out.link \in {"same", "link_ok", "link_err"}
    /\ out.cmd \in {"none", "load", "transfer", "unload"}
    /\ hurt \subseteq Accidents

\* What is written into a chip is the beginning of the file that was sent for
\* one LOAD command, from its first chunk on and without a gap: nothing of an
\* earlier, longer file is left behind it and no portion of another connection
\* is in it.  It rests on the truncation at CCT_LOAD, the running sequence
\* number of the portions and the close at the end of a transfer; connections
\* that load one chip at the same time share its file and are not covered, nor
\* are portions after the end of a transfer.
OwnBytes ==
    Alive /\ hurt \cap {"shared", "replay"} = {} =>
        \A x \in Chips :
            \A i \in 1 .. Len(chip[x].data) : chip[x].data[i] = <<chip[x].no, i>>

\* As long as no connection goes with its file open, the open files are those
\* in the sections of the connections, one each at the most; the error path
\* that ends a transfer without a close leaves its file to the next CCT_LOAD.
\* The socket of every connection stays open until tcp_free.
FdsOwned ==
    Alive =>
        /\ \A c \in Connected : fdt[cl[c].sock] = Sock
        /\ "leak" \notin hurt =>
              \A f \in Fds : fdt[f] \notin {Free, Sock} =>
                  fdt[f].by \in Connected /\ cl[fdt[f].by].fd = f

\* Descriptors, files and sections agree: every number is of its type, every open
\* file has its connection and every connection its socket.
FdsSound == TypeOK /\ FdsOwned

\* The state a slot shows is that of its chips: "loaded" when one of them is,
\* "wait for load" when none is, although the two chips of a card share one
\* state and one count (ns_downlink_set_loadbit_result).  It needs loads and
\* unloads of a chip to alternate; a load without a verdict, or with a failed
\* link, is not counted.
ShownIsLoaded ==
    Alive /\ hurt \cap {"uneven", "unverified", "link"} = {} =>
        \A s \in Cards :
            LET loaded == {x \in Chips : SlotOf(x) = s /\ chip[x].good}
            IN  /\ slot[s].count = Cardinality(loaded)
                /\ slot[s].load = "load_ok" => loaded # {}
                /\ slot[s].load = "wait_load" => loaded = {}

\* A slot that shows "loading" has a transfer under way: the state is not left
\* behind, except by a connection that goes or starts again in the middle of a
\* file, and by the two verdicts of _m57_load_bit_over that set no load state.
LoadingIsTrue ==
    Alive /\ hurt \cap {"leak", "abandoned", "unverified", "link"} = {} =>
        \A s \in Slots : slot[s].load = "loading" =>
            \E c \in Connected : cl[c].run /\ SlotOf(cl[c].chip) = s

\* "CCT_RSP_UNLOAD: reply to the unload command" (m57.h): every unload command
\* is answered.
UnloadAnswered == out.cmd = "unload" => out.ans # << >>

\* "-5: load faild; 0: ok" (m57.c): an answer of 0 says the FPGA has confirmed
\* the load.
OkIsVerified ==
    \A i \in 1 .. Len(out.ans) :
        out.cmd = "transfer" /\ out.ans[i].ret = 0 => chip[out.ans[i].chip].good

\* "err: write too long" (m57.c): a file longer than announced is not loaded.
TooLongRefused == \A c \in Clients : cl[c].ok => cl[c].off <= cl[c].len
=============================================================================
