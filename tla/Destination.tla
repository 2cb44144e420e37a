---------------------------- MODULE Destination ----------------------------
(***************************************************************************)
(* The destination that a challenge carries, from the URI that a visitor   *)
(* asked for, or the link that it followed, to the redirect after the      *)
(* verification (ServeHTTP, normalizeDestination and sanitizeDestination   *)
(* of main.go, and http.Redirect behind them).                             *)
(*                                                                         *)
(* Of a text matters what decides where it leads and how often it has been *)
(* escaped: the slashes that it begins with, each with how often it is     *)
(* escaped ("/" is 0, "%2F" is 1, "%252F" is 2), whether anything follows, *)
(* and how often a sign in its parameters is escaped.  "/p?q=%26" is       *)
(* <<0>>, TRUE, 1 and "https://h/p" is <<>>, TRUE, 0: without a slash in   *)
(* front a scheme or a name comes first.                                   *)
(***************************************************************************)
EXTENDS Naturals, Sequences

Texts == [slashes : Seq(Nat), rest : BOOLEAN, escapes : Nat]

Empty == [slashes |-> <<>>, rest |-> FALSE, escapes |-> 0]
Root == [slashes |-> <<0>>, rest |-> FALSE, escapes |-> 0]
Page(escapes) == [slashes |-> <<0>>, rest |-> TRUE, escapes |-> escapes]

\* url.QueryEscape: one escape for every sign that has a meaning.
QueryEscape(text) ==
    [text EXCEPT !.slashes = [i \in DOMAIN @ |-> @[i] + 1], !.escapes = @ + 1]

\* PathUnescape, and the decoding of a query: one level of escapes goes.
Less(n) == IF n > 0 THEN n - 1 ELSE 0
Unescape(text) ==
    [text EXCEPT !.slashes = [i \in DOMAIN @ |-> Less(@[i])], !.escapes = Less(@)]

\* url.Parse: the name of a host follows two slashes, unless there are three.
NamesHost(text) ==
    LET s == text.slashes
    IN  /\ Len(s) >= 2 /\ s[1] = 0 /\ s[2] = 0
        /\ Len(s) >= 3 => s[3] # 0

\* Mutant: only the path is looked at, and not the host.
SanitizePath(text) ==
    IF text.slashes = <<>> \/ text.slashes[1] > 1 THEN Root ELSE text

\* sanitizeDestination: no scheme, no host, and a path that begins with a slash.
\* The path is decoded before that is tested: an escaped slash passes.
Sanitize(text) ==
    IF text.slashes = <<>> \/ text.slashes[1] > 1 \/ NamesHost(text) THEN Root ELSE text

\* Mutant: what the form parser decoded is decoded twice.
NormalizeTwice(text) ==
    IF text = Empty THEN Root ELSE Sanitize(Unescape(Unescape(text)))

\* normalizeDestination.
Normalize(text) ==
    LET unescaped == Unescape(text)
    IN  IF text = Empty THEN Root
        ELSE IF unescaped # text /\ (Sanitize(unescaped) # Root \/ unescaped = Root)
        THEN Sanitize(unescaped)
        ELSE Sanitize(text)

\* http.Redirect: a text without a scheme or a host is a path.  It is taken from
\* the directory of the request, the root, if no slash begins it, and path.Clean
\* makes one slash of many.
Redirect(text) ==
    LET s == text.slashes
        path == IF s[1] = 0 THEN s ELSE <<0>> \o s
        last == CHOOSE i \in DOMAIN path :
                  /\ \A j \in 1 .. i : path[j] = 0
                  /\ i = Len(path) \/ path[i + 1] # 0
    IN  IF s = <<>> \/ NamesHost(text) THEN text
        ELSE [text EXCEPT !.slashes = SubSeq(path, last, Len(path))]

\* What a browser takes for a page of the site that it is on.
Local(text) ==
    LET s == text.slashes
    IN  Len(s) >= 1 /\ s[1] = 0 /\ (Len(s) >= 2 => s[2] # 0)
=============================================================================
