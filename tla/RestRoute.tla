----------------------------- MODULE RestRoute -----------------------------
(***************************************************************************)
(* From a request to the function that carries it out                      *)
(* (protocol/resetful/request.c).  http_on_request goes through its table  *)
(* of templates and calls the action of the first one the path agrees      *)
(* with; parse_format_url compares word by word and stores the words that  *)
(* stand where the template has a parameter among the variables of the     *)
(* request, which the actions then look up by name.  A template that fails *)
(* half way has stored some already, and the variables live as long as the *)
(* request: several functions (cmd_if_single_value_set, cmd_rf_multi_-     *)
(* value_set, ...) serve templates with and without "subch" and tell them  *)
(* apart by whether it is there, so one left over would turn a command for *)
(* a channel into one for a sub-channel.                                   *)
(***************************************************************************)
EXTENDS Naturals, Sequences, FiniteSets

CONSTANTS
    Plain,          \* words without a dot, put where templates have parameters
    Dotted,         \* words with one: file names
    MaxRequests     \* bound: requests over one connection

\* http_req_cmd, without the entry of builds that have SUPPORT_XWFS:
\* method, words of the template, action
http_req_cmd == <<
    <<"DELETE", <<"file", "@filename">>, "cmd_file_delete">>,
    <<"POST", <<"file", "store", "@ch", "@enable", "@filename">>, "cmd_file_store">>,
    <<"POST", <<"file", "backtrace", "@ch", "@enable", "@filename">>, "cmd_file_backtrace">>,
    <<"GET", <<"file", "list">>, "cmd_file_list">>,
    <<"GET", <<"file", "find", "@filename">>, "cmd_file_find">>,
    <<"GET", <<"disk", "format">>, "cmd_disk_format">>,
    <<"POST", <<"mode", "mutiPoint", "@ch">>, "cmd_muti_point">>,
    <<"POST", <<"mode", "multiBand", "@ch">>, "cmd_multi_band">>,
    <<"POST", <<"demodulation", "@ch", "@subch">>, "cmd_demodulation">>,
    <<"POST", <<"nddc", "@ch", "@subch">>, "cmd_demodulation">>,
    <<"POST", <<"bddc", "@ch">>, "cmd_bddc">>,
    <<"PUT", <<"if", "@ch", "@subch", "@type", "@value">>, "cmd_if_single_value_set">>,
    <<"PUT", <<"if", "@ch", "@subch", "@type", "@value", "@value2">>, "cmd_if_single_value_set">>,
    <<"PUT", <<"if", "@ch", "@type", "@value">>, "cmd_if_single_value_set">>,
    <<"POST", <<"if", "@ch", "@subch">>, "cmd_if_multi_value_set">>,
    <<"POST", <<"if", "@ch">>, "cmd_if_multi_value_set">>,
    <<"PUT", <<"rf", "@ch", "@subch", "@type", "@value">>, "cmd_rf_single_value_set">>,
    <<"PUT", <<"rf", "@ch", "@type", "@value">>, "cmd_rf_single_value_set">>,
    <<"POST", <<"rf", "@ch", "@subch">>, "cmd_rf_multi_value_set">>,
    <<"POST", <<"rf", "@ch">>, "cmd_rf_multi_value_set">>,
    <<"POST", <<"net">>, "cmd_netset">>,
    <<"GET", <<"net">>, "cmd_netget">>,
    <<"POST", <<"net", "@ch", "client">>, "cmd_net_client">>,
    <<"POST", <<"net", "@ch", "client", "@type">>, "cmd_net_client_type">>,
    <<"PUT", <<"enable", "@ch", "@subch", "@type", "@value">>, "cmd_subch_enable_set">>,
    <<"PUT", <<"enable", "@ch", "@type", "@value">>, "cmd_ch_enable_set">>,
    <<"GET", <<"ping">>, "cmd_ping">>,
    <<"GET", <<"status", "device", "fpgaInfo">>, "cmd_get_fpga_info">>,
    <<"GET", <<"status", "device", "all">>, "cmd_get_all_info">>,
    <<"GET", <<"status", "device", "selfcheckInfo">>, "cmd_get_selfcheck_info">>,
    <<"GET", <<"status", "uplink">>, "cmd_get_status_uplink_info">>,
    <<"GET", <<"status", "downlink">>, "cmd_get_status_downlink_info">>,
    <<"GET", <<"status", "slot">>, "cmd_get_status_slot_info">>,
    <<"GET", <<"status", "client">>, "cmd_get_status_client_info">>,
    <<"GET", <<"status", "client", "subInfo">>, "cmd_get_status_client_sub_info">>,
    <<"GET", <<"status", "spm", "hashInfo">>, "cmd_get_status_spm_hash_info">>,
    <<"GET", <<"status", "sysinfo">>, "cmd_get_sys_info">>,
    <<"GET", <<"status", "rf_identify_info">>, "cmd_get_rf_identify_info">>,
    <<"GET", <<"statistics">>, "cmd_get_statistics_info">>,
    <<"GET", <<"device", "status">>, "cmd_get_device_status">>,
    <<"GET", <<"device", "softversion">>, "cmd_get_softversion">>,
    <<"GET", <<"device", "temperature">>, "cmd_get_temperature">>,
    <<"PUT", <<"timesource", "@value">>, "cmd_timesource_set">>,
    <<"PUT", <<"rf", "power", "@value">>, "cmd_rf_power_onoff">>,
    <<"PUT", <<"rf", "agcCtrlMode", "@value">>, "cmd_rf_agcmode">>,
    <<"GET", <<"route", "reload">>, "cmd_route_reload">>,
    <<"PUT", <<"link", "@slotId", "@enable">>, "cmd_linkcheck_set">>,
    <<"GET", <<"unload", "@fpga_id">>, "cmd_unload_fpga_bit">>,
    <<"GET", <<"unload", "@slotid", "@chipid">>, "cmd_unload_fpga_bit_by_id">>,
    <<"GET", <<"qa", "xdmaloop", "@ch", "@enable">>, "cmd_qa_xdmaloop">>
>>

Entries == DOMAIN http_req_cmd
Method(e) == http_req_cmd[e][1]
Words(e) == http_req_cmd[e][2]
Action(e) == http_req_cmd[e][3]

Params == {"@ch", "@chipid", "@enable", "@filename", "@fpga_id", "@slotId",
           "@slotid", "@subch", "@type", "@value", "@value2"}
Places(e) == {k \in DOMAIN Words(e) : Words(e)[k] \in Params}
Literals == UNION {{Words(e)[k] : k \in DOMAIN Words(e)} : e \in Entries} \ Params

(***************************************************************************)
(* Requests.  A path is its words and whether it has slashes besides the   *)
(* ones that separate them.  Filled paths are templates with words for     *)
(* their parameters; near paths have one word replaced by a literal of the *)
(* table, by a word of its own or by the text of a parameter, or have lost *)
(* or gained one at the end.                                               *)
(***************************************************************************)
Fill(e, f) == [k \in DOMAIN Words(e) |-> IF k \in Places(e) THEN f[k] ELSE Words(e)[k]]
Filled == {[method |-> Method(e), words |-> Fill(e, f), slashes |-> s] :
              <<e, f, s>> \in UNION {{e} \X [Places(e) -> Plain \cup Dotted] \X BOOLEAN :
                                        e \in Entries}}
Simple == {r \in Filled : ~r.slashes}
Altered(w) ==
    {[w EXCEPT ![k] = x] : k \in DOMAIN w, x \in Literals \cup Params \cup Plain}
    \cup {SubSeq(w, 1, Len(w) - 1)} \cup {Append(w, x) : x \in Plain \cup Dotted}
Near == UNION {{[r EXCEPT !.words = w] : w \in Altered(r.words)} : r \in Simple}
Requests == Filled \cup Near

VARIABLES
    vars_,      \* cl->request.resetful_var
    called,     \* the entry whose action was called, 0 for none
    last,       \* the request it was called for
    n           \* requests so far

vars == <<vars_, called, last, n>>

NoRequest == [method |-> "none", words |-> << >>, slashes |-> FALSE]
NoVars == [p \in {} |-> ""]

\* The types of the state: req->resetful.vars holds words of the path.
TypeOK ==
    /\ DOMAIN vars_ \subseteq Params
    /\ called \in {0} \cup Entries
    /\ n \in 0 .. MaxRequests

(***************************************************************************)
(* parse_format_url                                                        *)
(***************************************************************************)
url_param_num_is_equal(e, r) == Len(r.words) = Len(Words(e))

\* word k can stand where the template has word k
WordFits(e, r, k) ==
    \/ r.words[k] = Words(e)[k]
    \/ Words(e)[k] \in Params /\ (Words(e)[k] = "@filename" => r.words[k] \in Dotted)

Shorter(e, r) == IF Len(r.words) < Len(Words(e)) THEN Len(r.words) ELSE Len(Words(e))

\* a template without parameters is compared as a whole, slashes included
FaultMatches(e, r) ==
    /\ url_param_num_is_equal(e, r)
    /\ \A k \in 1 .. Shorter(e, r) : WordFits(e, r, k)

Matches(e, r) ==
    /\ url_param_num_is_equal(e, r)
    /\ IF Places(e) = {}
       THEN r.words = Words(e) /\ ~r.slashes
       ELSE \A k \in 1 .. Shorter(e, r) : WordFits(e, r, k)

\* the words stored before the loop ends or breaks; one that is equal to the
\* text of the parameter is taken for a literal
Stored(e, r) ==
    IF Places(e) = {} \/ ~url_param_num_is_equal(e, r) THEN {}
    ELSE {k \in Places(e) : /\ r.words[k] # Words(e)[k]
                            /\ \A j \in 1 .. k : WordFits(e, r, j)}

\* kvlist_set: a name has one value, the last one
With(vs, e, r) ==
    LET new == Stored(e, r) IN
    [p \in DOMAIN vs \cup {Words(e)[k] : k \in new} |->
        IF \E k \in new : Words(e)[k] = p
        THEN r.words[CHOOSE k \in new : Words(e)[k] = p]
        ELSE vs[p]]

(***************************************************************************)
(* http_on_request: the variables after the first e entries were tried,    *)
(* up to and including the one that agrees.                                *)
(***************************************************************************)
First(r) ==
    LET hits == {e \in Entries : Method(e) = r.method /\ Matches(e, r)}
    IN  IF hits = {} THEN 0 ELSE CHOOSE e \in hits : \A d \in hits : e <= d

VarsAfter(vs, r) ==
    LET stop == IF First(r) = 0 THEN Len(http_req_cmd) ELSE First(r)
        after[e \in 0 .. stop] ==
            IF e = 0 THEN vs
            ELSE IF Method(e) = r.method THEN With(after[e - 1], e, r)
            ELSE after[e - 1]
    IN  after[stop]

\* client_request_done leaves the next request no variables
FaultBegin(vs) == vs

Begin(vs) == NoVars

http_on_request(r) ==
    /\ n < MaxRequests
    /\ n' = IF r \in Simple THEN n + 1 ELSE MaxRequests
    /\ last' = r
    /\ called' = First(r)
    /\ vars_' = VarsAfter(Begin(vars_), r)

Init == vars_ = NoVars /\ called = 0 /\ last = NoRequest /\ n = 0

\* The first request may be any; others follow a simple one.
Next == \E r \in (IF n = 0 THEN Requests ELSE Simple) : http_on_request(r)

Spec == Init /\ [][Next]_vars

(***************************************************************************)
(* Properties                                                              *)
(***************************************************************************)
Agrees(e, r) ==
    /\ Method(e) = r.method /\ Len(Words(e)) = Len(r.words)
    /\ \A k \in DOMAIN Words(e) : \/ Words(e)[k] = r.words[k]
                                  \/ /\ k \in Places(e)
                                     /\ Words(e)[k] = "@filename" => r.words[k] \in Dotted
    /\ r.slashes => Places(e) # {}

\* The action http_on_request calls is the one action of the table whose
\* template the request agrees with: two templates never agree with the same
\* request, so the order of the table is of no importance, and none is missed.
OneTemplate ==
    n > 0 => {e \in Entries : Agrees(e, last)} = IF called = 0 THEN {} ELSE {called}

\* An action finds exactly the words of its own request under the names of
\* its own template: nothing from templates tried before it, and nothing from
\* an earlier request over the connection.  Missing is only a word that reads
\* like the parameter itself.
OwnVariables ==
    called # 0 =>
        LET own == {k \in Places(called) : last.words[k] # Words(called)[k]} IN
        vars_ = [p \in {Words(called)[k] : k \in own} |->
                    last.words[CHOOSE k \in own : Words(called)[k] = p]]
=============================================================================
