------------------------------ MODULE HttpUrl -------------------------------
(***************************************************************************)
(* uh_urlencode and uh_urldecode of protocol/http/utils.c, one turn of a loop *)
(* a step.  A character is its code.  A behaviour encodes a string and decodes *)
(* what came out, or decodes any string at all, into a buffer of blen bytes.  *)
(***************************************************************************)
EXTENDS Integers, Sequences

CONSTANTS
    Codes,    \* the characters of the strings that are tried
    MaxLen,   \* bound: characters of a string
    MaxBuf    \* bound: the sizes of buffer that are tried

\* What the constants are assumed to be.
UrlAssumption == Codes \subseteq 0 .. 255 /\ MaxLen \in Nat /\ MaxBuf \in Nat

VARIABLES
    text,   \* the string the behaviour began with
    op,     \* the loop that runs: "encode", "decode", or "done"
    back,   \* the string was encoded first
    src, i, \* the input and how much of it is read
    buf,    \* the output
    blen,   \* its size
    wrote,  \* how many bytes of the buffer were written, the terminator included
    ret     \* the result: a length, -1, -2

vars == <<text, op, back, src, i, buf, blen, wrote, ret>>

Percent == 37
Strings == UNION {[1 .. n -> Codes] : n \in 0 .. MaxLen}

IsDigit(c)   == c >= 48 /\ c <= 57
IsAlpha(c)   == (c >= 65 /\ c <= 90) \/ (c >= 97 /\ c <= 122)
isxdigit(c)  == IsDigit(c) \/ (c >= 65 /\ c <= 70) \/ (c >= 97 /\ c <= 102)

\* Fault: a percent sign counts as a character that stands for itself.
Unreserved_Percent(c) == IsDigit(c) \/ IsAlpha(c) \/ c \in {45, 95, 46, 126, Percent}

\* The characters that stand for themselves: letters, digits, - _ . ~
Unreserved(c) == IsDigit(c) \/ IsAlpha(c) \/ c \in {45, 95, 46, 126}

\* The digit of a value, and the value of a digit.
HexDigit(v) == IF v < 10 THEN 48 + v ELSE 87 + v

hex(c) == IF c <= 57 THEN c - 48 ELSE IF c <= 70 THEN c - 55 ELSE c - 87

Init ==
    /\ text \in Strings /\ back \in BOOLEAN
    /\ op = (IF back THEN "encode" ELSE "decode")
    /\ src = text /\ i = 0 /\ buf = <<>> /\ blen \in 0 .. MaxBuf /\ wrote = 0 /\ ret = 0

Looping == i < Len(src) /\ Len(buf) < blen

\* Fault: an escape is written as soon as one byte is free.
EncodeStep_NoRoom ==
    /\ op = "encode" /\ Looping
    /\ LET c == src[i + 1] IN
         IF Unreserved(c)
           THEN buf' = Append(buf, c) /\ i' = i + 1 /\ UNCHANGED <<op, ret>>
           ELSE /\ buf' = buf \o <<Percent, HexDigit(c \div 16), HexDigit(c % 16)>>
                /\ i' = i + 1 /\ UNCHANGED <<op, ret>>
    /\ wrote' = Len(buf')
    /\ UNCHANGED <<text, back, src, blen>>

\* One turn of uh_urlencode: a character as it is, or an escape if three bytes are
\* free, or else the overflow.
EncodeStep ==
    /\ op = "encode" /\ Looping
    /\ LET c == src[i + 1] IN
         IF Unreserved(c)
           THEN buf' = Append(buf, c) /\ i' = i + 1 /\ UNCHANGED <<op, ret>>
         ELSE IF Len(buf) + 3 <= blen
           THEN /\ buf' = buf \o <<Percent, HexDigit(c \div 16), HexDigit(c % 16)>>
                /\ i' = i + 1 /\ UNCHANGED <<op, ret>>
           ELSE op' = "done" /\ ret' = -1 /\ UNCHANGED <<buf, i>>
    /\ wrote' = Len(buf')
    /\ UNCHANGED <<text, back, src, blen>>

\* The loop of uh_urlencode has ended; a whole string is decoded next, in a buffer
\* of any size.
EncodeEnd ==
    /\ op = "encode" /\ ~Looping
    /\ IF i = Len(src)
         THEN /\ op' = "decode" /\ src' = buf /\ i' = 0 /\ buf' = <<>>
              /\ blen' \in 0 .. MaxBuf /\ wrote' = 0 /\ UNCHANGED ret
         ELSE op' = "done" /\ ret' = -1 /\ UNCHANGED <<src, i, buf, blen, wrote>>
    /\ UNCHANGED <<text, back>>

\* The k-th character of s begins an escape: two digits follow.
Escape(s, k) == k + 2 <= Len(s) /\ isxdigit(s[k + 1]) /\ isxdigit(s[k + 2])

\* One turn of uh_urldecode.
DecodeStep ==
    /\ op = "decode" /\ Looping
    /\ IF src[i + 1] # Percent
         THEN buf' = Append(buf, src[i + 1]) /\ i' = i + 1 /\ UNCHANGED <<op, ret>>
       ELSE IF Escape(src, i + 1)
         THEN /\ buf' = Append(buf, (16 * hex(src[i + 2]) + hex(src[i + 3])) % 256)
              /\ i' = i + 3 /\ UNCHANGED <<op, ret>>
         ELSE op' = "done" /\ ret' = -2 /\ UNCHANGED <<buf, i>>
    /\ wrote' = Len(buf')
    /\ UNCHANGED <<text, back, src, blen>>

\* Fault: what did not fit is forgotten.
DecodeEnd_Cut ==
    /\ op = "decode" /\ ~Looping
    /\ op' = "done" /\ wrote' = Len(buf) + 1
    /\ ret' = Len(buf)
    /\ UNCHANGED <<text, back, src, i, buf, blen>>

\* The loop of uh_urldecode has ended: the output is terminated.
DecodeEnd ==
    /\ op = "decode" /\ ~Looping
    /\ op' = "done" /\ wrote' = Len(buf) + 1
    /\ ret' = IF i = Len(src) THEN Len(buf) ELSE -1
    /\ UNCHANGED <<text, back, src, i, buf, blen>>

Next == EncodeStep \/ EncodeEnd \/ DecodeStep \/ DecodeEnd

Spec == Init /\ [][Next]_vars

-----------------------------------------------------------------------------
(* The reference: what a string of characters and escapes means.             *)

\* The characters 0-9a-f and 0-9A-F in the order of their values.
Small == <<48, 49, 50, 51, 52, 53, 54, 55, 56, 57, 97, 98, 99, 100, 101, 102>>
Large == <<48, 49, 50, 51, 52, 53, 54, 55, 56, 57, 65, 66, 67, 68, 69, 70>>

Values(c) == {v \in 0 .. 15 : c \in {Small[v + 1], Large[v + 1]}}

Meaning(s) ==
    LET pair(k) == IF k + 2 > Len(s) THEN {}
                   ELSE {16 * u + v : u \in Values(s[k + 1]), v \in Values(s[k + 2])}
        m[k \in 1 .. Len(s) + 3] ==
          IF k > Len(s) THEN <<>>
          ELSE IF s[k] # Percent THEN <<s[k]>> \o m[k + 1]
          ELSE IF pair(k) = {} THEN <<-2>>
          ELSE <<CHOOSE n \in pair(k) : TRUE>> \o m[k + 3]
    IN m[1]

WellFormed(s) == \A k \in 1 .. Len(Meaning(s)) : Meaning(s)[k] # -2

\* The types of the state: every character of the result is a byte, and the
\* number returned is a length or one of the two errors.
TypeOK ==
    /\ op \in {"encode", "decode", "done"} /\ ret \in -2 .. 3 * MaxLen
    /\ i \in 0 .. Len(src)
    /\ \A k \in 1 .. Len(buf) : buf[k] \in 0 .. 255

\* What was encoded is decoded to the string it came from.
RoundTrip == op = "done" /\ back /\ ret >= 0 => buf = text

\* A length is returned exactly when all of the input was understood and fits, and
\* then it is the length of what it means.
ResultRight ==
    op = "done" /\ ~back =>
        /\ (ret >= 0) = (WellFormed(src) /\ Len(Meaning(src)) <= blen)
        /\ ret >= 0 => buf = Meaning(src) /\ ret = Len(buf)
        /\ ret = -2 => ~WellFormed(src)

\* The output never has more characters than its buffer, whatever is encoded or
\* decoded.
FitsBuffer == Len(buf) <= blen

\* "blen is the size of buf ... the output string will not be null-terminated": no
\* byte behind the buffer is written.
WritesInside == wrote <= blen
=============================================================================
