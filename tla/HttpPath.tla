------------------------------ MODULE HttpPath ------------------------------
(***************************************************************************)
(* How the HTTP server turns the path of a request into a file: canonpath and *)
(* uh_path_lookup of protocol/http/file.c.  The escapes of the request line   *)
(* are decoded before (HttpUrl).                                             *)
(*                                                                         *)
(* A path is a sequence of characters.  One behaviour is one request and the  *)
(* redirections that follow it; every path over Chars up to MaxLen is asked   *)
(* for, in a file system of a few files inside and outside the document root. *)
(***************************************************************************)
EXTENDS Integers, Sequences, FiniteSets

CONSTANTS
    Chars,     \* the characters a path is made of
    MaxLen,    \* bound: characters of a request's path after the first "/"
    MaxHops    \* bound: redirections followed

\* What the constants are assumed to be.
PathAssumption == MaxLen \in Nat /\ MaxHops \in Nat

VARIABLES
    path,   \* the path asked for, decoded
    at,     \* the index i of uh_path_lookup, -1 once the loop has ended
    phys,   \* path_phys
    info,   \* path_info
    kind,   \* p.stat: what stat said of phys, "none" before the first success
    result, \* what uh_path_lookup returned
    hops    \* redirections followed so far

vars == <<path, at, phys, info, kind, result, hops>>

docroot == <<"/", "r">>
index_file == <<"a">>

\* The files: a sibling whose name begins with the document root's, directories
\* with and without an index file.
Dirs  == { <<"/">>, <<"/", "r">>, <<"/", "r", "/", "r">> , <<"/", "r", "/", "a">> }
Files == { <<"/", "r", "a">>, <<"/", "a">>,
           <<"/", "r", "/", "r", "/", "a">>, <<"/", "r", "/", "r", "/", "r">> }

stat(p) == IF p \in Files THEN "reg" ELSE IF p \in Dirs THEN "dir" ELSE "none"

Paths == UNION { { <<"/">> \o s : s \in [1 .. n -> Chars] } : n \in 0 .. MaxLen }

At(s, i) == IF i \in 1 .. Len(s) THEN s[i] ELSE "end"
Drop(s, n) == SubSeq(s, n + 1, Len(s))
EndsWith(s, c) == At(s, Len(s)) = c

-----------------------------------------------------------------------------
(* canonpath.                                                                *)

\* What is left of the output when a "/.." goes back to the slash before it.
Back(out) ==
    LET slashes == {i \in 1 .. Len(out) : out[i] = "/"} IN
      IF slashes = {} THEN <<>>
      ELSE SubSeq(out, 1, (CHOOSE i \in slashes : \A j \in slashes : j <= i) - 1)

\* Fault: "/.." is taken for a name when nothing follows it.
Collapse_Tail(in, out) ==
    CASE At(in, 1) = "/" /\ At(in, 2) = "/" -> <<1, out>>
      [] At(in, 1) = "/" /\ At(in, 2) = "." /\ At(in, 3) \in {"/", "end"} -> <<2, out>>
      [] At(in, 1) = "/" /\ At(in, 2) = "." /\ At(in, 3) = "." /\ At(in, 4) = "/"
           -> <<3, Back(out)>>
      [] OTHER -> <<1, Append(out, At(in, 1))>>

\* One turn of the loop: the characters read, and the output after it.
Collapse(in, out) ==
    CASE At(in, 1) = "/" /\ At(in, 2) = "/" -> <<1, out>>
      [] At(in, 1) = "/" /\ At(in, 2) = "." /\ At(in, 3) \in {"/", "end"} -> <<2, out>>
      [] At(in, 1) = "/" /\ At(in, 2) = "." /\ At(in, 3) = "." /\ At(in, 4) \in {"/", "end"}
           -> <<3, Back(out)>>
      [] OTHER -> <<1, Append(out, At(in, 1))>>

\* The loop, from the character after the first i.
Normalize(p) ==
    LET norm[i \in 0 .. Len(p), out \in Seq(Chars)] ==
          IF i = Len(p) THEN out
          ELSE LET t == Collapse(Drop(p, i), out) IN norm[i + t[1], t[2]]
    IN norm[0, <<>>]

\* A trailing slash goes, and nothing at all is the root.
canonpath(p) ==
    LET out == Normalize(p) IN
      IF Len(out) > 1 /\ EndsWith(out, "/") THEN SubSeq(out, 1, Len(out) - 1)
      ELSE IF out = <<>> THEN <<"/">> ELSE out

-----------------------------------------------------------------------------
(* uh_path_lookup.                                                           *)

Init ==
    /\ path \in Paths /\ at = Len(docroot \o path)
    /\ phys = <<>> /\ info = <<>> /\ kind = "none" /\ result = "looking" /\ hops = 0

buf == docroot \o path

\* The request's path ends with a slash.
slash == EndsWith(buf, "/")

\* Fault: the slash at the end of a directory's name is not a cut.
Cut_Inner == At(buf, at + 1) = "/"

\* The path may be cut here: before a slash or at its end.
Cut == At(buf, at + 1) \in {"/", "end"}

\* One turn of the loop: the path is cut, and the loop ends when it names something.
Lookup ==
    /\ result = "looking" /\ at >= 0
    /\ UNCHANGED <<path, result, hops>>
    /\ LET p == canonpath(SubSeq(buf, 1, at)) IN
         IF ~Cut
           THEN at' = at - 1 /\ UNCHANGED <<phys, info, kind>>
           ELSE /\ phys' = p
                /\ IF stat(p) = "none"
                     THEN at' = at - 1 /\ UNCHANGED <<info, kind>>
                     ELSE at' = -1 /\ info' = Drop(buf, at) /\ kind' = stat(p)

\* Fault: any path that begins with the characters of the document root.
Within_Prefix(p) == Len(p) >= Len(docroot) /\ SubSeq(p, 1, Len(docroot)) = docroot

\* The path is the document root or below it.
Within(p) ==
    /\ Len(p) >= Len(docroot) /\ SubSeq(p, 1, Len(docroot)) = docroot
    /\ At(p, Len(docroot) + 1) \in {"/", "end"}

WithSlash(p) == IF EndsWith(p, "/") THEN p ELSE Append(p, "/")

\* Fault: redirected to the directory without its slash.
Location_Same(p) == Drop(SubSeq(p, 1, Len(p) - 1), Len(docroot))

\* The Location of a redirection: p behind the document root.
Location(p) == Drop(p, Len(docroot))

\* What is returned for a directory: a redirection, its index file, or nothing.
Directory ==
    IF info # <<>> THEN result' = "null" /\ UNCHANGED phys
    ELSE IF ~slash THEN result' = "redirected" /\ phys' = WithSlash(phys)
    ELSE LET p == WithSlash(phys) \o index_file IN
           phys' = p /\ result' = IF stat(p) = "none" THEN "null" ELSE "file"

Judge ==
    /\ result = "looking" /\ at < 0
    /\ IF ~Within(phys) THEN result' = "null" /\ UNCHANGED phys
       ELSE IF kind = "reg" THEN result' = "file" /\ UNCHANGED phys
       ELSE Directory
    /\ UNCHANGED <<path, at, info, kind, hops>>

\* The client follows the redirection: another request, with another lookup.
Follow ==
    /\ result = "redirected" /\ hops < MaxHops
    /\ path' = Location(phys) /\ at' = Len(docroot \o path')
    /\ phys' = <<>> /\ info' = <<>> /\ kind' = "none" /\ result' = "looking"
    /\ hops' = hops + 1

Next == Lookup \/ Judge \/ Follow

Spec == Init /\ [][Next]_vars

-----------------------------------------------------------------------------
(* The reference: a path is a sequence of names.                             *)

\* The names between the slashes of p, and the path they make up.
Names(p) ==
    LET ends == {i \in 1 .. Len(p) : p[i] = "/"} \cup {Len(p) + 1}
        name(i) == SubSeq(p, i + 1, (CHOOSE j \in ends : j > i /\ \A k \in ends : k > i => j <= k) - 1)
        names[i \in 0 .. Len(p) + 1] ==
          IF i > Len(p) THEN <<>>
          ELSE IF At(p, i) = "/" THEN <<name(i)>> \o names[i + 1] ELSE names[i + 1]
    IN names[0]

Resolve(names) ==
    LET done[i \in 0 .. Len(names)] ==
          IF i = 0 THEN <<>>
          ELSE CASE names[i] \in {<<>>, <<".">>} -> done[i - 1]
                 [] names[i] = <<".", ".">> ->
                      SubSeq(done[i - 1], 1, Len(done[i - 1]) - 1)
                 [] OTHER -> Append(done[i - 1], names[i])
    IN done[Len(names)]

Join(names) ==
    LET join[i \in 0 .. Len(names)] ==
          IF i = 0 THEN <<>> ELSE join[i - 1] \o <<"/">> \o names[i]
    IN join[Len(names)]

Canonical(p) == LET n == Resolve(Names(p)) IN IF n = <<>> THEN <<"/">> ELSE Join(n)

-----------------------------------------------------------------------------
\* The types of the state: uh_path_lookup ends in one of three ways.
TypeOK ==
    /\ at \in -1 .. Len(buf) /\ hops \in 0 .. MaxHops
    /\ kind \in {"none", "reg", "dir"}
    /\ result \in {"looking", "null", "redirected", "file"}

\* The loop over characters of canonpath computes what the names of the path
\* mean: "." stays, ".." leaves a directory, the root's ".." is the root.
CanonRight == hops = 0 /\ at = Len(buf) => canonpath(buf) = Canonical(buf)

\* A file that is served lies in the document root whatever the path says, and
\* it exists.
ServedInside ==
    result = "file" =>
        stat(phys) # "none" /\ phys = Canonical(phys) /\ Names(phys)[1] = <<"r">>

\* A file is found under every spelling of its path: a request is refused only if
\* no file, nor an index file, is what the path means or a file on the way to it.
FoundIfThere ==
    result = "null" =>
        LET means == Canonical(buf) IN
          /\ ~(stat(means) = "reg" /\ Within(means))
          /\ ~(stat(means) = "dir" /\ Within(means) /\ stat(Canonical(means \o <<"/">> \o index_file)) # "none")

\* A redirection leads to an answer: the directory asked for with its slash is
\* not redirected again.
OneRedirection == hops = 1 => result # "redirected"
=============================================================================
