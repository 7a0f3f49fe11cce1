------------------------------- MODULE XdmaPump -------------------------------
(***************************************************************************)
(* The XDMA reader threads of executor/spm/spm.c and the client table they   *)
(* look at (net/net_tcp.c, bsp/io.c), in the build the repository ships      *)
(* (TCP_DATA_SEND_BY_THREADS = 0).                                           *)
(*                                                                         *)
(* A reader sleeps while the socket bitmap is empty; a REGISTER command      *)
(* signals it.  Awake it enables its channel, then reads a batch of blocks,  *)
(* sends it to every client on the list, gives it back to the driver and     *)
(* looks at the bitmap again; when that is empty it disables the channel,    *)
(* unloads the bit files of all cards and goes back to sleep.  The uloop     *)
(* thread accepts, registers and frees clients meanwhile, and no lock        *)
(* orders the two: a reader walks the list without tcp_client_lock and the   *)
(* signal is given without the mutex of the condition variable.              *)
(***************************************************************************)
EXTENDS Integers, Sequences, SequencesExt

CONSTANTS
    Clients,   \* the connections
    Chans,     \* the XDMA channels, 0 .. MAX_XDMA_NUM - 1
    Chips,     \* the FPGA chips of all cards present, in the order they are unloaded
    Slots,     \* MAX_CLINET_SOCKET_NUM
    NoClient

ASSUME PumpAssumption ==
    /\ Slots \in Nat
    /\ Chips \subseteq Nat
    /\ NoClient \notin Clients

VARIABLES
    list,    \* srv->clients, the newest first
    sec,     \* section_id of each connection; Slots: the bitmap was full
    bmp,     \* cl_sock_bmp
    reg,     \* the connections that have sent REGISTER
    holder,  \* whose bit file each chip runs
    rd,      \* the reader thread of each channel
    on,      \* the channels that are enabled
    races    \* the races that have been lost so far

vars == <<list, sec, bmp, reg, holder, rd, on, races>>

Gone == -1

Connected == {c \in Clients : sec[c] # Gone}

\* The connections socket_bitmap_weight knows of.
Counted == {c \in Connected : sec[c] # Slots}

\* The orders of events that no lock of the code excludes.
\*   "signal":   REGISTER signals a reader that has found the bitmap empty
\*               but does not wait yet;
\*   "accept":   a client connects after a reader has found the bitmap empty
\*               and before it has finished unloading;
\*   "dangling": a client is freed while a reader is about to use it.
Races == {"signal", "accept", "dangling"}

Reader(pc) == [ pc |-> pc, cur |-> NoClient, nxt |-> NoClient, due |-> {}, sent |-> {}, todo |-> {} ]

\* spm_xdma_data_handle_thread_dispatcher up to the label loop: the channel
\* is disabled.
Init ==
    /\ list = << >>
    /\ sec = [c \in Clients |-> Gone]
    /\ bmp = {}
    /\ reg = {}
    /\ holder = [x \in Chips |-> NoClient]
    /\ rd = [ch \in Chans |-> Reader("check")]
    /\ on = {}
    /\ races = {}
-----------------------------------------------------------------------------
(* The uloop thread.                                                         *)

Teardown == {"disable", "unload"}

\* tcp_accept_cb: the connection takes the first free bit; if there is none
\* it is served without one.  list_add puts it before all others.
Accept(c) ==
    /\ c \notin Connected
    /\ \E id \in 0 .. Slots :
          /\ \A i \in 0 .. id - 1 : i \in bmp
          /\ id = Slots \/ id \notin bmp
          /\ sec' = [sec EXCEPT ![c] = id]
          /\ bmp' = IF id = Slots THEN bmp ELSE bmp \cup {id}
    /\ list' = <<c>> \o list
    /\ races' = races \cup (IF \E ch \in Chans : rd[ch].pc \in Teardown THEN {"accept"} ELSE {})
    /\ UNCHANGED <<reg, holder, rd, on>>

\* spm_xdma_deal_notify: pthread_cond_signal wakes a reader that waits and is
\* lost on any other.
Signalled(r) == IF r.pc = "asleep" THEN [r EXCEPT !.pc = "check"] ELSE r

\* Fault: only the reader of one channel is signalled.
Register_FirstOnly(c) ==
    /\ c \in Connected
    /\ reg' = reg \cup {c}
    /\ rd' = [ch \in Chans |-> IF ch = 0 THEN Signalled(rd[ch]) ELSE rd[ch]]
    /\ races' = races \cup (IF \E ch \in Chans : rd[ch].pc = "park" THEN {"signal"} ELSE {})
    /\ UNCHANGED <<list, sec, bmp, holder, on>>

\* CCT_REGISTER: EX_XDMA_ENABLE_CMD for every channel.
Register(c) ==
    /\ c \in Connected
    /\ reg' = reg \cup {c}
    /\ rd' = [ch \in Chans |-> Signalled(rd[ch])]
    /\ races' = races \cup (IF \E ch \in Chans : rd[ch].pc = "park" THEN {"signal"} ELSE {})
    /\ UNCHANGED <<list, sec, bmp, holder, on>>

\* A bit file of client c has been loaded into chip x and reported so.
Load(c, x) ==
    /\ c \in Connected
    /\ holder' = [holder EXCEPT ![x] = c]
    /\ UNCHANGED <<list, sec, bmp, reg, rd, on, races>>

\* CCT_UNLOAD: any client may unload any chip.
Unload(c, x) ==
    /\ c \in Connected
    /\ holder' = [holder EXCEPT ![x] = NoClient]
    /\ UNCHANGED <<list, sec, bmp, reg, rd, on, races>>

\* The node of client c is freed under the readers that are at work.
Forget(c) ==
    /\ rd' = [ch \in Chans |-> [rd[ch] EXCEPT !.due = @ \ {c}]]
    /\ races' = races \cup (IF \E ch \in Chans : rd[ch].pc = "send" /\ c \in {rd[ch].cur, rd[ch].nxt}
                            THEN {"dangling"} ELSE {})

\* Fault: the bit is cleared only for a connection that has registered.
Free_KeepsBit(c) ==
    /\ c \in Connected
    /\ \E k \in 1 .. Len(list) : list[k] = c /\ list' = RemoveAt(list, k)
    /\ sec' = [sec EXCEPT ![c] = Gone]
    /\ bmp' = IF c \in reg THEN bmp \ {sec[c]} ELSE bmp
    /\ reg' = reg \ {c}
    /\ Forget(c)
    /\ UNCHANGED <<holder, on>>

\* tcp_free: list_del, socket_bitmap_clear and free.  Clearing bit Slots
\* touches an unused bit of the word.
Free(c) ==
    /\ c \in Connected
    /\ \E k \in 1 .. Len(list) : list[k] = c /\ list' = RemoveAt(list, k)
    /\ sec' = [sec EXCEPT ![c] = Gone]
    /\ bmp' = bmp \ {sec[c]}
    /\ reg' = reg \ {c}
    /\ Forget(c)
    /\ UNCHANGED <<holder, on>>
-----------------------------------------------------------------------------
(* The reader thread of channel ch.                                          *)

Goto(ch, pc) ==
    /\ rd' = [rd EXCEPT ![ch] = Reader(pc)]
    /\ UNCHANGED <<list, sec, bmp, reg, holder, on, races>>

\* The test of the while loop around pthread_cond_wait, with the mutex held.
Check(ch) ==
    /\ rd[ch].pc = "check"
    /\ Goto(ch, IF bmp = {} THEN "park" ELSE "enable")

\* pthread_cond_wait has released the mutex: signals count from here on.
Park(ch) ==
    /\ rd[ch].pc = "park"
    /\ Goto(ch, "asleep")

\* pthread_cond_wait may return without a signal.
WakeSpuriously(ch) ==
    /\ rd[ch].pc = "asleep"
    /\ Goto(ch, "check")

\* io_set_xdma_enable
Enable(ch) ==
    /\ rd[ch].pc = "enable"
    /\ on' = on \cup {ch}
    /\ rd' = [rd EXCEPT ![ch] = Reader("read")]
    /\ UNCHANGED <<list, sec, bmp, reg, holder, races>>

\* The node after c on the list.
NextOf(c) ==
    LET K == {k \in 1 .. Len(list) - 1 : list[k] = c}
    IN  IF K = {} THEN NoClient ELSE list[(CHOOSE k \in K : TRUE) + 1]

\* The loop of tcp_send_vec_data_uplink stands at node c; next has been read.
At(r, c) == [r EXCEPT !.cur = c, !.nxt = IF c = NoClient THEN NoClient ELSE NextOf(c)]

\* read_xdma_data returns blocks and the walk over the clients begins.
ReadSome(ch) ==
    /\ rd[ch].pc = "read"
    /\ rd' = [rd EXCEPT ![ch] = At([Reader("send") EXCEPT !.due = Connected],
                                    IF list = << >> THEN NoClient ELSE Head(list))]
    /\ UNCHANGED <<list, sec, bmp, reg, holder, on, races>>

\* read_xdma_data returns nothing: 1 s has passed, or the driver failed.
ReadNone(ch) ==
    /\ rd[ch].pc = "read"
    /\ Goto(ch, "over")

\* Reader r has sent to the node it stood at and stands at node c.
Sent(r, c) == [At(r, c) EXCEPT !.sent = r.sent \cup {r.cur}]

\* Fault: the walk keeps its place by counting the nodes.
Send_ByIndex(ch) ==
    /\ rd[ch].pc = "send"
    /\ rd[ch].cur # NoClient
    /\ LET k == Cardinality(rd[ch].sent) + 2
       IN  rd' = [rd EXCEPT ![ch] = Sent(rd[ch], IF k <= Len(list) THEN list[k] ELSE NoClient)]
    /\ UNCHANGED <<list, sec, bmp, reg, holder, on, races>>

\* send_vec_data_to_client for one node; a failure is only reported.  The walk
\* goes on at the node that was next before the send.
Send(ch) ==
    /\ rd[ch].pc = "send"
    /\ rd[ch].cur # NoClient
    /\ rd' = [rd EXCEPT ![ch] = Sent(rd[ch], rd[ch].nxt)]
    /\ UNCHANGED <<list, sec, bmp, reg, holder, on, races>>

\* The walk has come round to the head of the list.
SendEnd(ch) ==
    /\ rd[ch].pc = "send"
    /\ rd[ch].cur = NoClient
    /\ rd' = [rd EXCEPT ![ch].pc = "over"]
    /\ UNCHANGED <<list, sec, bmp, reg, holder, on, races>>

\* Fault: connections that have not registered do not count.
Over_TestsRegistered(ch) ==
    /\ rd[ch].pc = "over"
    /\ Goto(ch, IF reg = {} THEN "disable" ELSE "read")

\* Fault: the test is made only after data have been sent.
Over_OnlyAfterData(ch) ==
    /\ rd[ch].pc = "over"
    /\ Goto(ch, IF bmp = {} /\ rd[ch].sent # {} THEN "disable" ELSE "read")

\* read_xdma_over_deal, then the test for clients.
Over(ch) ==
    /\ rd[ch].pc = "over"
    /\ Goto(ch, IF bmp = {} THEN "disable" ELSE "read")

\* io_set_xdma_disable; the clean-up begins.
Disable(ch) ==
    /\ rd[ch].pc = "disable"
    /\ on' = on \ {ch}
    /\ rd' = [rd EXCEPT ![ch] = [Reader("unload") EXCEPT !.todo = Chips]]
    /\ UNCHANGED <<list, sec, bmp, reg, holder, races>>

\* m57_unload_all_bitfile_from_fpga, one chip.
UnloadChip(ch) ==
    /\ rd[ch].pc = "unload"
    /\ \E x \in rd[ch].todo :
          /\ \A y \in rd[ch].todo : x <= y
          /\ holder' = [holder EXCEPT ![x] = NoClient]
          /\ rd' = [rd EXCEPT ![ch].todo = @ \ {x}]
    /\ UNCHANGED <<list, sec, bmp, reg, on, races>>

\* Fault: the reader waits first and tests the bitmap afterwards.
UnloadEnd_Waits(ch) ==
    /\ rd[ch].pc = "unload"
    /\ rd[ch].todo = {}
    /\ Goto(ch, "park")

\* The clean-up is over; goto loop.
UnloadEnd(ch) ==
    /\ rd[ch].pc = "unload"
    /\ rd[ch].todo = {}
    /\ Goto(ch, "check")

Uloop(c) ==
    \/ Accept(c)
    \/ Register(c)
    \/ \E x \in Chips : Load(c, x) \/ Unload(c, x)
    \/ Free(c)

\* What a reader does without waiting for anybody.
Pump(ch) ==
    \/ Check(ch) \/ Park(ch) \/ Enable(ch)
    \/ ReadSome(ch) \/ ReadNone(ch)
    \/ Send(ch) \/ SendEnd(ch) \/ Over(ch)
    \/ Disable(ch) \/ UnloadChip(ch) \/ UnloadEnd(ch)

\* A walk that meets freed memory may do anything; the behaviour ends there.
Next ==
    /\ "dangling" \notin races
    /\ \/ \E c \in Clients : Uloop(c)
       \/ \E ch \in Chans : Pump(ch) \/ WakeSpuriously(ch)

Spec == Init /\ [][Next]_vars
-----------------------------------------------------------------------------
(* Properties *)

ReaderPc == {"check", "park", "asleep", "enable", "read", "send", "over", "disable", "unload"}

\* Every variable has its type.
TypeOK ==
    /\ list \in Seq(Clients)
    /\ sec \in [Clients -> 0 .. Slots \cup {Gone}]
    /\ bmp \subseteq 0 .. Slots - 1
    /\ reg \subseteq Connected
    /\ holder \in [Chips -> Clients \cup {NoClient}]
    /\ rd \in [Chans -> [ pc : ReaderPc, cur : Clients \cup {NoClient}, nxt : Clients \cup {NoClient},
                           due : SUBSET Clients, sent : SUBSET Clients, todo : SUBSET Chips ]]
    /\ on \subseteq Chans
    /\ races \subseteq Races

\* A bit of cl_sock_bmp is set exactly for the connections that own it, no two
\* connections own one bit, and one goes without only if it found all bits
\* taken: accepting, freeing and the overflow path keep the book straight
\* whatever order connections come and go in.
BitmapExact ==
    /\ bmp = {sec[c] : c \in Counted}
    /\ \A c, d \in Counted : c # d => sec[c] # sec[d]

\* A batch is sent to every connection that was there when the walk began and
\* still is at its end, and to none twice, although uloop adds and removes
\* clients without a lock, as long as no node in use is freed.
ServedOnce ==
    "dangling" \notin races =>
        \A ch \in Chans : rd[ch].pc = "send" =>
            /\ rd[ch].cur \notin rd[ch].sent
            /\ rd[ch].cur = NoClient => rd[ch].due \subseteq rd[ch].sent

\* A reader that has seen everybody leave does not unload the file of a client
\* that is connected and counted, unless one connected in the middle of it.
FilesKept ==
    [][\A x \in Chips :
          holder[x] \in Counted /\ holder'[x] = NoClient /\ rd' # rd => "accept" \in races]_vars

\* A reader does not sleep while a client has registered: the only way there
\* is a signal given between the test of the bitmap and pthread_cond_wait.
NoneStranded ==
    "signal" \notin races =>
        \A ch \in Chans : rd[ch].pc \in {"park", "asleep"} => reg \cap Counted = {}

\* What uloop and the readers share agrees between any two steps: the list, the
\* bitmap with the section numbers, and the sleep of a reader with the clients
\* that have registered.
ReadersSound == TypeOK /\ BitmapExact /\ NoneStranded

\* The readers are scheduled; a read returns after 1 s at the latest and a
\* send does not block.
Fairness == \A ch \in Chans : WF_vars(Pump(ch))

\* Once nobody is connected every channel is switched off, or somebody comes.
IdleStops ==
    \A ch \in Chans :
        (bmp = {}) ~> (bmp # {} \/ ch \notin on \/ "dangling" \in races)

\* A client that registers and stays gets all channels, for good, also if it
\* came in the middle of the clean-up after somebody else.
RegisteredIsServed ==
    \A c \in Clients, ch \in Chans :
        <>[](c \in reg /\ c \in Counted) => <>[](ch \in on \/ races \cap {"signal", "dangling"} # {})
=============================================================================
