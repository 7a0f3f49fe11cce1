---------------------------- MODULE RadioParams ----------------------------
(***************************************************************************)
(* The parameters of a radio channel: PUT /if/.../@type/@value, PUT        *)
(* /rf/.../@type/@value and PUT /enable/.../@type/@value                   *)
(* (protocol/resetful/parse_cmd.c), config_write_data, which stores a      *)
(* value in the configuration in memory, and config_read_by_cmd, through   *)
(* which the rest of the program reads it (conf/conf.c).  A value comes as *)
(* a 64-bit number and each case reads it through a pointer of its own     *)
(* type, so a field has what is left of it in the width of that type.  On  *)
(* this platform the commands to the FPGA that follow write no register    *)
(* and report no failure.                                                  *)
(***************************************************************************)
EXTENDS Integers

CONSTANTS
    Chs,                \* channel numbers in requests
    ByteValues,         \* values for the parameters of one byte, -10 besides
    WordValues,         \* values for the wider ones
    FixedBws,           \* bandwidths the file may declare fixed
    MaxSets             \* bound: requests in a behaviour

\* What the constants are assumed to be.
RadioAssumption ==
    /\ Chs \subseteq Nat /\ ByteValues \cup WordValues \subseteq Int
    /\ FixedBws \subseteq Nat \ {0} /\ MaxSets \in Nat

MAX_RADIO_CHANNEL_NUM == 1
DEFAULT_BW_HZ == 40000000
NoValue == -1000

IfBytes == {"muteSwitch", "muteThreshold", "decMethodId", "windowType"}
IfWords == {"midFreq", "bandwidth", "decBandwidth", "smoothTimes", "smoothMode",
            "smoothThreshold", "audioSampleRate", "fftSize", "freqResolution",
            "audioVolume"}
RfBytes == {"modeCode", "gainMode", "mgcGain", "agcOutPutAmp", "rfAttenuation"}
RfWords == {"rfMidFreq", "rfBandwidth", "agcCtrlTime"}

\* names find_idx_safe knows and config_write_data has no case for
Unstored == {"decMidFreq", "antennaSelect", "temperature", "calibrate"}
\* names find_idx_safe does not know; the comment before
\* cmd_rf_single_value_set lists them
Unknown == {"mode", "gain"}

Fields == IfBytes \cup IfWords \cup RfBytes \cup RfWords

VARIABLES
    cfg,        \* poal_config->channel[ch], one channel
    flags,      \* the outputs that are enabled
    bits,       \* enable.bit_en
    fixed,      \* the fixed bandwidth of the file, 0 for none
    ans,        \* code of the last answer
    req,        \* the last request
    sent,       \* the last value accepted for each field
    left        \* requests still allowed

vars == <<cfg, flags, bits, fixed, ans, req, sent, left>>

Outputs == {"psd", "audio", "iq"}

Within(v, lo, hi) == lo <= v /\ v <= hi

\* The types of the state: every parameter within the width of its field.
TypeOK ==
    /\ cfg \in [Fields -> Int]
    /\ flags \subseteq Outputs
    /\ bits \in 0 .. 7
    /\ Within(cfg["muteThreshold"], -128, 127)
    /\ Within(cfg["windowType"], 0, 255) /\ Within(cfg["decMethodId"], 0, 255)
    /\ cfg["muteSwitch"] \in {0, 1}
    /\ Within(cfg["smoothTimes"], 0, 65535)

(***************************************************************************)
(* Widths                                                                  *)
(***************************************************************************)
U8(v) == v % 256
S8(v) == ((v + 128) % 256) - 128
U16(v) == v % 65536
S16(v) == ((v + 32768) % 65536) - 32768

\* the float whose bits are a small number is a fraction: its integer part
FloatOfBits(v) == IF v < 1065353216 THEN 0 ELSE v

Store(t, v) ==
    CASE t \in {"muteSwitch", "decMethodId", "windowType", "modeCode", "gainMode"} -> U8(v)
      [] t \in {"muteThreshold", "mgcGain", "agcOutPutAmp", "rfAttenuation"} -> S8(v)
      [] t \in {"smoothTimes", "smoothMode", "smoothThreshold"} -> U16(v)
      [] t = "audioVolume" -> S16(v)
      [] t = "audioSampleRate" -> FloatOfBits(v)
      [] OTHER -> v

\* the values a field can hold
Fits(t, v) ==
    CASE t = "muteSwitch" -> v \in {0, 1}
      [] t \in {"decMethodId", "windowType", "modeCode", "gainMode"} -> Within(v, 0, 255)
      [] t \in {"muteThreshold", "mgcGain", "agcOutPutAmp", "rfAttenuation"} -> Within(v, -128, 127)
      [] t \in {"smoothTimes", "smoothMode", "smoothThreshold"} -> Within(v, 0, 65535)
      [] t = "audioVolume" -> Within(v, -32768, 32767)
      [] OTHER -> v >= 0

(***************************************************************************)
(* FFT size and resolution                                                 *)
(***************************************************************************)
FaultFftTable == {<<512, 100000>>, <<1024, 50000>>, <<2048, 25000>>,
                  <<4096, 12500>>, <<8192, 6500>>, <<16384, 3125>>}

fft_table == {<<512, 100000>>, <<1024, 50000>>, <<2048, 25000>>,
              <<4096, 12500>>, <<8192, 6250>>, <<16384, 3125>>}

config_get_resolution_by_fft(n) ==
    IF \E e \in fft_table : e[1] = n
    THEN (CHOOSE e \in fft_table : e[1] = n)[2] ELSE 25000

config_get_fft_by_resolution(r) ==
    IF \E e \in fft_table : e[2] = r
    THEN (CHOOSE e \in fft_table : e[2] = r)[1] ELSE 2048

(***************************************************************************)
(* config_write_data                                                       *)
(***************************************************************************)
FaultWriteData(t, v) ==
    CASE t = "muteSwitch" /\ U8(v) > 1 -> cfg
      [] t = "fftSize" -> [cfg EXCEPT ![t] = v, !["freqResolution"] =
                                          config_get_resolution_by_fft(v)]
      [] t = "freqResolution" -> [cfg EXCEPT ![t] = v, !["fftSize"] =
                                          config_get_fft_by_resolution(v)]
      [] t = "rfBandwidth" -> [cfg EXCEPT !["bandwidth"] = v, ![t] = v]
      [] t \in Fields \ {"fftSize", "freqResolution", "rfBandwidth"}
            /\ (t = "muteSwitch" => U8(v) <= 1) -> [cfg EXCEPT ![t] = Store(t, v)]
      [] OTHER -> cfg

config_write_data(t, v) ==
    CASE t = "muteSwitch" /\ U8(v) > 1 -> cfg
      [] t = "fftSize" -> [cfg EXCEPT ![t] = v, !["freqResolution"] =
                                          config_get_resolution_by_fft(v)]
      [] t = "freqResolution" -> [cfg EXCEPT ![t] = v, !["fftSize"] =
                                          config_get_fft_by_resolution(v)]
      [] t \in Fields /\ t \notin {"fftSize", "freqResolution"} /\ (t = "muteSwitch" => U8(v) <= 1)
            -> [cfg EXCEPT ![t] = Store(t, v)]
      [] OTHER -> cfg

(***************************************************************************)
(* config_read_by_cmd                                                      *)
(***************************************************************************)
Readable == {"muteSwitch", "muteThreshold", "decMethodId", "decBandwidth",
             "audioSampleRate", "midFreq", "bandwidth", "smoothMode", "rfMidFreq",
             "rfBandwidth", "modeCode", "gainMode", "mgcGain", "rfAttenuation"}

config_read_by_cmd(t) ==
    IF t = "rfBandwidth"
    THEN IF fixed # 0 THEN fixed ELSE IF cfg[t] > 0 THEN cfg[t] ELSE DEFAULT_BW_HZ
    ELSE cfg[t]

(***************************************************************************)
(* Requests                                                                *)
(***************************************************************************)
Init ==
    /\ cfg = [t \in Fields |-> 0] /\ flags = {} /\ bits = 0
    /\ fixed \in FixedBws \cup {0}
    /\ ans = "none" /\ req = [type |-> "none", value |-> 0, ch |-> 0]
    /\ sent = [t \in Fields |-> NoValue] /\ left = MaxSets

check_valid_ch(ch) == ch <= MAX_RADIO_CHANNEL_NUM

Accepted(t, v) ==
    IF t \notin Fields THEN sent
    ELSE [f \in Fields |->
            IF f = t THEN IF Fits(t, v) THEN v ELSE NoValue
            ELSE IF {f, t} = {"fftSize", "freqResolution"} THEN NoValue ELSE sent[f]]

Request(t, v, ch) ==
    /\ left > 0 /\ left' = left - 1
    /\ req' = [type |-> t, value |-> v, ch |-> ch]
    /\ UNCHANGED fixed

\* cmd_if_single_value_set and cmd_rf_single_value_set; a channel that is let
\* through but does not exist is written outside the array
SetValue(t, v, ch) ==
    /\ Request(t, v, ch)
    /\ IF check_valid_ch(ch)
       THEN /\ ans' = "ok"
            /\ cfg' = IF ch = 0 THEN config_write_data(t, v) ELSE cfg
            /\ sent' = IF ch = 0 THEN Accepted(t, v) ELSE sent
       ELSE ans' = "channel_err" /\ UNCHANGED <<cfg, sent>>
    /\ UNCHANGED <<flags, bits>>

\* a value that does not begin with a number
SetNothing(t, ch) ==
    /\ Request(t, 0, ch)
    /\ ans' = IF check_valid_ch(ch) THEN "path_param_err" ELSE "channel_err"
    /\ UNCHANGED <<cfg, flags, bits, sent>>

BitsOf(s) == (IF "psd" \in s THEN 1 ELSE 0) + (IF "audio" \in s THEN 2 ELSE 0)
             + (IF "iq" \in s THEN 4 ELSE 0)

FaultEnable(t, v, ch) ==
    /\ Request(t, v, ch)
    /\ flags' = IF v = 1 THEN flags \cup ({t} \cap Outputs) ELSE flags \ {t}
    /\ bits' = IF v \in {0, 1} THEN BitsOf(flags') ELSE bits
    /\ ans' = IF check_valid_ch(ch) /\ v \in {0, 1} /\ t \in Outputs THEN "ok"
              ELSE "channel_err"
    /\ UNCHANGED <<cfg, sent>>

\* cmd_ch_enable_set
Enable(t, v, ch) ==
    /\ Request(t, v, ch)
    /\ IF ~check_valid_ch(ch) \/ v \notin {0, 1}
       THEN ans' = "channel_err" /\ UNCHANGED <<flags, bits>>
       ELSE IF t \notin Outputs
       THEN ans' = "path_param_err" /\ UNCHANGED <<flags, bits>>
       ELSE /\ ans' = "ok"
            /\ flags' = IF ch # 0 THEN flags ELSE IF v = 1 THEN flags \cup {t} ELSE flags \ {t}
            /\ bits' = BitsOf(flags')
    /\ UNCHANGED <<cfg, sent>>

Next ==
    \E ch \in Chs :
        \/ \E t \in IfBytes \cup RfBytes \cup Unknown, v \in ByteValues \cup {-10} : SetValue(t, v, ch)
        \/ \E t \in IfWords \cup RfWords \cup Unstored, v \in WordValues : SetValue(t, v, ch)
        \/ \E t \in Fields : SetNothing(t, ch)
        \/ \E t \in Outputs \cup Unknown, v \in {0, 1, 2} : Enable(t, v, ch)

Spec == Init /\ [][Next]_vars

(***************************************************************************)
(* Properties                                                              *)
(***************************************************************************)

\* What a reader of the configuration gets for a parameter is the value last
\* accepted for it, if its field can hold that value, whatever was set in
\* between; a bandwidth that is 0 reads as the default and a fixed one hides
\* what was set.  (The audio sample rate is told apart below.)
ReadsWhatWasSet ==
    \A t \in Readable \ {"audioSampleRate"} :
        sent[t] # NoValue =>
            config_read_by_cmd(t) =
                IF t = "rfBandwidth" /\ fixed # 0 THEN fixed
                ELSE IF t = "rfBandwidth" /\ sent[t] = 0 THEN DEFAULT_BW_HZ ELSE sent[t]

\* FFT size and resolution always belong together: whichever of the two was
\* set last to a value of the table, their product is the rate the table is
\* made for.
FftFitsResolution ==
    \/ sent["fftSize"] \in {512, 1024, 2048, 4096, 8192, 16384}
    \/ sent["freqResolution"] \in {100000, 50000, 25000, 12500, 6250, 3125}
    => cfg["fftSize"] * cfg["freqResolution"] = 51200000

\* All of it: what the parameters keep to through any sequence of requests.
RadioSound == TypeOK /\ ReadsWhatWasSet /\ FftFitsResolution

\* A request that is answered with an error leaves every parameter and every
\* output as it was.
RefusalKeeps ==
    (left' < left /\ ans' # "ok") => (cfg' = cfg /\ flags' = flags /\ bits' = bits)

\* The names the comment lists for the radio parameters are names of
\* parameters: a request with one of them that is answered ok sets something.
ListedTypesAreKnown ==
    (ans = "ok" /\ req.type \in {"mode", "gain"}) =>
        req.value \in {cfg["modeCode"], cfg["gainMode"]}

\* The audio sample rate in the configuration is the one that was accepted.
SampleRateAsSet ==
    sent["audioSampleRate"] # NoValue => cfg["audioSampleRate"] = sent["audioSampleRate"]

\* A request that is answered ok names a channel the board has.
ChannelExists == ans = "ok" => req.ch < MAX_RADIO_CHANNEL_NUM
=============================================================================
