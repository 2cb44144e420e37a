----------------------------- MODULE VisitProofs -----------------------------
(***************************************************************************)
(* Proofs about visits: they implement the challenges that module          *)
(* Challenge specifies, their destination is kept, every redirect stays on *)
(* the site, and the address that a request counts for is that of its      *)
(* client, for every set of visitors, pages, links, proxies and forged     *)
(* headers.                                                                *)
(***************************************************************************)
EXTENDS Visit, ChallengeProofs, FiniteSetTheorems, SequenceTheorems, WellFoundedInduction

\* What a visitor that wants uri may be sent to.
Kept(uri) ==
    IF uri = Empty THEN {Root}
    ELSE {uri} \cup IF deployment.onPage THEN {} ELSE {Page(n) : n \in 0 .. uri.escapes}

\* A text between the first request and the redirect after the verification is
\* the kept URI, still escaped as long as nothing has decoded it.
Carried(b) ==
    b.wanted \in Wanted \cup {Empty} =>
      /\ b.at \in {"back", "content"} => b.text \in Kept(b.wanted)
      /\ b.at = "sent" => /\ ~deployment.onPage
                          /\ b.text \in {QueryEscape(t) : t \in Kept(b.wanted)}
      /\ b.at \in {"challenge", "posting"} =>
           IF deployment.onPage THEN b.text \in {QueryEscape(t) : t \in Kept(b.wanted)}
           ELSE b.text \in Kept(b.wanted) \cup {b.wanted}

DestinationInv ==
    /\ deployment \in [onPage : BOOLEAN, session : BOOLEAN]
    /\ pc \in [Visitors -> {"idle", "internal", "siteverify", "decode", "grant"}]
    /\ browser = [v \in Visitors |-> browser[v]]
    /\ \A v \in Visitors :
         /\ browser[v] = [at |-> browser[v].at, wanted |-> browser[v].wanted,
                          text |-> browser[v].text]
         /\ browser[v].wanted \in Texts /\ browser[v].text \in Texts
         /\ pc[v] # "idle" => browser[v].at = "posting"
         /\ Carried(browser[v])

-----------------------------------------------------------------------------
\* The first step of a visit is a first step of Challenge.
LEMMA VisitStep == [VisitNext]_allVars => [Next]_vars
<1> SUFFICES ASSUME [VisitNext]_allVars PROVE [Next]_vars
  OBVIOUS
<1>1. CASE (Breaker \/ Tick \/ VerifyChanges) /\ UNCHANGED visitVars
  BY <1>1 DEF Next
<1>2. ASSUME NEW v \in Visitors, NEW uri, NEW wanted, Request(v, uri, wanted)
      PROVE  [Next]_vars
  BY <1>2 DEF Request, Next
<1>3. ASSUME NEW v \in Visitors,
             \/ (\E uri \in Wanted : Browse(v, uri)) \/ Follow(v) \/ OpenChallenge(v)
             \/ (\E text \in Links : OpenLink(v, text)) \/ LoseCookie(v)
             \/ Submit(v) \/ Verify(v) \/ Admit(v)
      PROVE  [Next]_vars
  <2>1. CASE (\E uri \in Wanted : Browse(v, uri)) \/ Follow(v)
    BY <1>2, <2>1 DEF Browse, Follow
  <2>2. CASE OpenChallenge(v) \/ \E text \in Links : OpenLink(v, text)
    BY <2>2 DEF OpenChallenge, OpenLink, Next
  <2>3. CASE Submit(v) \/ LoseCookie(v)
    BY <2>3 DEF Submit, LoseCookie, Next
  <2>4. CASE Verify(v) \/ Admit(v)
    BY <2>4 DEF Verify, Admit, Handle, Next
  <2> QED BY <1>3, <2>1, <2>2, <2>3, <2>4
<1>4. CASE UNCHANGED allVars
  BY <1>4 DEF allVars
<1> QED BY <1>1, <1>3, <1>4 DEF VisitNext

\* Whatever browsers do, the challenges behind them are those of Challenge: what
\* is proved there of circuit and entries holds for visits.
THEOREM VisitsImplementChallenge == VisitSpec => Spec
<1>1. VisitInit => Init
  BY DEF VisitInit
<1> QED BY <1>1, VisitStep, PTL DEF VisitSpec, Spec

-----------------------------------------------------------------------------
\* A set of natural numbers has a least element.
LEMMA LeastNatural ==
    ASSUME NEW T, T \subseteq Nat, T # {}
    PROVE  \E x \in T : \A y \in T : ~ (y < x)
<1> DEFINE R == OpToRel(<, Nat)
<1>1. \E x \in T : \A y \in T : ~ (<<y, x>> \in R)
  <2>1. IsWellFoundedOn(R, Nat)
    BY NatLessThanWellFounded
  <2> HIDE DEF R
  <2> QED BY <2>1, WFMin
<1>2. \A x, y \in Nat : y < x => <<y, x>> \in R
  BY DEF OpToRel
<1> QED BY <1>1, <1>2

\* What escaping does to the parts of a text.
LEMMA Escaped ==
    ASSUME NEW s, NEW r, NEW e
    PROVE  QueryEscape([slashes |-> s, rest |-> r, escapes |-> e]) =
             [slashes |-> [i \in DOMAIN s |-> s[i] + 1], rest |-> r, escapes |-> e + 1]
<1> DEFINE f == [i \in DOMAIN s |-> s[i] + 1]
           text == [slashes |-> s, rest |-> r, escapes |-> e]
<1>1. text.slashes = s /\ text.escapes = e
  OBVIOUS
<1>2. QueryEscape(text) = [text EXCEPT !.slashes = f, !.escapes = e + 1]
  <2> HIDE DEF text
  <2> QED BY <1>1 DEF QueryEscape
<1> HIDE DEF f
<1>3. QueryEscape(text) = [slashes |-> f, rest |-> r, escapes |-> e + 1]
  BY <1>2
<1> QED BY <1>3 DEF f

\* And decoding.
LEMMA Unescaped ==
    ASSUME NEW s, NEW r, NEW e
    PROVE  Unescape([slashes |-> s, rest |-> r, escapes |-> e]) =
             [slashes |-> [i \in DOMAIN s |-> Less(s[i])], rest |-> r, escapes |-> Less(e)]
<1> DEFINE f == [i \in DOMAIN s |-> Less(s[i])]
           text == [slashes |-> s, rest |-> r, escapes |-> e]
<1>1. text.slashes = s /\ text.escapes = e
  OBVIOUS
<1>2. Unescape(text) = [text EXCEPT !.slashes = f, !.escapes = Less(e)]
  <2> HIDE DEF text
  <2> QED BY <1>1 DEF Unescape
<1> HIDE DEF f
<1>3. Unescape(text) = [slashes |-> f, rest |-> r, escapes |-> Less(e)]
  BY <1>2
<1> QED BY <1>3 DEF f

\* Escaping and decoding keep texts texts, and Sanitize too.
LEMMA TextFacts ==
    /\ Empty \in Texts /\ Root \in Texts /\ \A n \in Nat : Page(n) \in Texts
    /\ \A text \in Texts :
         /\ QueryEscape(text) \in Texts /\ Unescape(text) \in Texts
         /\ Sanitize(text) \in Texts /\ Normalize(text) \in Texts
<1>1. /\ Empty \in Texts /\ Root \in Texts /\ \A n \in Nat : Page(n) \in Texts
  BY DEF Empty, Root, Page, Texts
<1>2. ASSUME NEW text \in Texts PROVE QueryEscape(text) \in Texts
  <2>1. PICK s \in Seq(Nat), r \in BOOLEAN, e \in Nat :
          text = [slashes |-> s, rest |-> r, escapes |-> e]
    BY DEF Texts
  <2>2. [i \in DOMAIN s |-> s[i] + 1] \in Seq(Nat)
    OBVIOUS
  <2>3. QueryEscape(text) =
          [slashes |-> [i \in DOMAIN s |-> s[i] + 1], rest |-> r, escapes |-> e + 1]
    BY <2>1, Escaped
  <2> QED BY <2>2, <2>3 DEF Texts
<1>3. ASSUME NEW text \in Texts PROVE Unescape(text) \in Texts
  <2>1. PICK s \in Seq(Nat), r \in BOOLEAN, e \in Nat :
          text = [slashes |-> s, rest |-> r, escapes |-> e]
    BY DEF Texts
  <2>2. [i \in DOMAIN s |-> Less(s[i])] \in Seq(Nat) /\ Less(e) \in Nat
    BY DEF Less
  <2>3. Unescape(text) =
          [slashes |-> [i \in DOMAIN s |-> Less(s[i])], rest |-> r, escapes |-> Less(e)]
    BY <2>1, Unescaped
  <2> QED BY <2>2, <2>3 DEF Texts
<1>4. \A text \in Texts : Sanitize(text) \in Texts
  BY <1>1 DEF Sanitize
<1>5. \A text \in Texts : Normalize(text) \in Texts
  BY <1>1, <1>3, <1>4 DEF Normalize
<1> QED BY <1>1, <1>2, <1>3, <1>4, <1>5

\* The slashes that begin a path end somewhere.
LEMMA SlashesEnd ==
    ASSUME NEW path \in Seq(Nat), Len(path) >= 1, path[1] = 0
    PROVE  \E i \in DOMAIN path : /\ \A j \in 1 .. i : path[j] = 0
                                  /\ i = Len(path) \/ path[i + 1] # 0
<1> DEFINE T == {j \in Nat : j >= 1 /\ (j <= Len(path) => path[j] # 0)}
<1>1. T \subseteq Nat /\ Len(path) + 1 \in T
  OBVIOUS
<1>2. PICK x \in T : \A y \in T : ~ (y < x)
  <2> HIDE DEF T
  <2> QED BY <1>1, LeastNatural
<1>3. x \in Nat /\ x > 1 /\ x <= Len(path) + 1
  BY <1>1, <1>2
<1>4. \A j \in 1 .. x - 1 : path[j] = 0
  BY <1>2, <1>3
<1>5. x - 1 = Len(path) \/ path[x - 1 + 1] # 0
  BY <1>2, <1>3
<1>6. x - 1 \in DOMAIN path
  BY <1>3
<1> QED BY <1>4, <1>5, <1>6

\* What is no host is a page of this site after http.Redirect.
LEMMA RedirectFacts ==
    ASSUME NEW text \in Texts, text.slashes # <<>>, ~NamesHost(text)
    PROVE  Redirect(text) \in Texts /\ Local(Redirect(text))
<1>1. PICK s \in Seq(Nat), r \in BOOLEAN, e \in Nat :
        text = [slashes |-> s, rest |-> r, escapes |-> e]
  BY DEF Texts
<1> DEFINE path == IF s[1] = 0 THEN s ELSE <<0>> \o s
           Ends(i) == /\ \A j \in 1 .. i : path[j] = 0
                      /\ i = Len(path) \/ path[i + 1] # 0
           last == CHOOSE i \in DOMAIN path : Ends(i)
           cleaned == SubSeq(path, last, Len(path))
<1>2. Redirect(text) = [slashes |-> cleaned, rest |-> r, escapes |-> e]
  BY <1>1 DEF Redirect
<1>3. path \in Seq(Nat) /\ Len(path) >= 1 /\ path[1] = 0
  BY <1>1
<1> HIDE DEF path
<1>4. last \in DOMAIN path /\ Ends(last)
  BY <1>3, SlashesEnd
<1> HIDE DEF last
<1>5. /\ cleaned \in Seq(Nat) /\ Len(cleaned) = Len(path) - last + 1
      /\ \A i \in 1 .. Len(path) - last + 1 : cleaned[i] = path[last + i - 1]
  BY <1>3, <1>4, SubSeqProperties
<1>6. Len(cleaned) >= 1 /\ cleaned[1] = 0
  <2>1. last \in 1 .. Len(path) /\ path[last] = 0 /\ last + 1 - 1 = last
    BY <1>3, <1>4
  <2> QED BY <1>3, <1>5, <2>1
<1>7. Len(cleaned) >= 2 => cleaned[2] # 0
  <2>1. last \in 1 .. Len(path) /\ last + 2 - 1 = last + 1
    BY <1>3, <1>4
  <2>2. Len(cleaned) >= 2 => last # Len(path) /\ cleaned[2] = path[last + 1]
    BY <1>3, <1>5, <2>1
  <2> QED BY <1>4, <2>2
<1> HIDE DEF cleaned
<1> QED BY <1>1, <1>2, <1>5, <1>6, <1>7 DEF Texts, Local

\* Whatever destination a form carries, the redirect is to a page of this site.
LEMMA RedirectsAreLocal ==
    ASSUME NEW text \in Texts
    PROVE  LET u == Redirect(Normalize(text)) IN u \in Texts /\ Local(u)
<1>1. \A t \in Texts : Sanitize(t).slashes # <<>> /\ ~NamesHost(Sanitize(t))
  BY DEF Sanitize, NamesHost, Root
<1>2. Root.slashes # <<>> /\ ~NamesHost(Root)
  BY DEF NamesHost, Root
<1>3. Normalize(text).slashes # <<>> /\ ~NamesHost(Normalize(text))
  BY <1>1, <1>2, TextFacts DEF Normalize
<1> QED BY <1>3, TextFacts, RedirectFacts

\* Escaping and decoding of the pages that visitors are sent to.
LEMMA Codec ==
    ASSUME NEW n \in Nat, NEW u \in {Root, Page(n)}
    PROVE  /\ Unescape(QueryEscape(u)) = u /\ Normalize(QueryEscape(u)) = u
           /\ Redirect(u) = u /\ u # Empty
           /\ Normalize(u) \in {u} \cup {Page(m) : m \in 0 .. u.escapes}
           /\ u = Root => Normalize(u) = Root
<1>1. PICK r \in BOOLEAN, e \in Nat : /\ u = [slashes |-> <<0>>, rest |-> r, escapes |-> e]
                                      /\ ~r => e = 0 /\ u = Root
                                      /\ r => u = Page(e)
  BY DEF Root, Page
<1>2. /\ [i \in DOMAIN <<0>> |-> <<0>>[i] + 1] = <<1>>
      /\ [i \in DOMAIN <<1>> |-> Less(<<1>>[i])] = <<0>>
      /\ [i \in DOMAIN <<0>> |-> Less(<<0>>[i])] = <<0>>
  BY DEF Less
<1>3. QueryEscape(u) = [slashes |-> <<1>>, rest |-> r, escapes |-> e + 1]
  BY <1>1, <1>2, Escaped
<1>4. Unescape(QueryEscape(u)) = u
  <2>1. Less(e + 1) = e
    BY DEF Less
  <2> QED BY <1>1, <1>2, <1>3, <2>1, Unescaped
<1>5. Sanitize(u) = u /\ u # Empty
  BY <1>1 DEF Sanitize, NamesHost, Empty
<1>6. Normalize(QueryEscape(u)) = u
  <2>1. QueryEscape(u) # u /\ QueryEscape(u) # Empty
    BY <1>1, <1>3 DEF Empty
  <2> QED BY <1>4, <1>5, <2>1 DEF Normalize
<1>7. Unescape(u) = [slashes |-> <<0>>, rest |-> r, escapes |-> Less(e)]
  BY <1>1, <1>2, Unescaped
<1>8. Sanitize(Unescape(u)) = Unescape(u)
  BY <1>7 DEF Sanitize, NamesHost
<1>9. Normalize(u) = IF r THEN Page(Less(e)) ELSE Root
  <2>1. Unescape(u) = IF r THEN Page(Less(e)) ELSE Root
    <3>1. ~r => Less(e) = 0
      BY <1>1 DEF Less
    <3> QED BY <1>1, <1>7, <3>1 DEF Page, Root
  <2> QED BY <1>1, <1>5, <1>8, <2>1 DEF Normalize
<1>10. Redirect(u) = u
  <2> DEFINE Ends(i) == /\ \A j \in 1 .. i : <<0>>[j] = 0
                        /\ i = Len(<<0>>) \/ <<0>>[i + 1] # 0
             last == CHOOSE i \in DOMAIN <<0>> : Ends(i)
  <2>1. last = 1
    <3>1. DOMAIN <<0>> = {1} /\ <<0>> \in Seq(Nat) /\ Len(<<0>>) = 1 /\ <<0>>[1] = 0
      OBVIOUS
    <3>2. \E i \in DOMAIN <<0>> : Ends(i)
      BY <3>1
    <3>3. last \in DOMAIN <<0>>
      BY <3>2
    <3> QED BY <3>1, <3>3
  <2>2. SubSeq(<<0>>, 1, Len(<<0>>)) = <<0>>
    <3> DEFINE c == SubSeq(<<0>>, 1, 1)
    <3>1. c \in Seq(Nat) /\ Len(c) = 1 /\ c[1] = 0
      BY SubSeqProperties
    <3> HIDE DEF c
    <3>2. c = <<0>>
      BY <3>1
    <3> QED BY <3>2 DEF c
  <2>3. ~NamesHost(u)
    BY <1>1 DEF NamesHost
  <2> HIDE DEF last
  <2>4. Redirect(u) = [u EXCEPT !.slashes = SubSeq(<<0>>, last, Len(<<0>>))]
    BY <1>1, <2>3 DEF Redirect, last
  <2> QED BY <1>1, <2>1, <2>2, <2>4
<1>11. u.escapes = e /\ Less(e) \in 0 .. e
  BY <1>1 DEF Less
<1>12. Normalize(u) \in {u} \cup {Page(m) : m \in 0 .. u.escapes}
  BY <1>1, <1>9, <1>11
<1>13. u = Root => Normalize(u) = Root
  BY <1>1, <1>9 DEF Root
<1> QED BY <1>4, <1>5, <1>6, <1>10, <1>12, <1>13

\* What is kept is a page or the root, and what is kept of that is kept.
LEMMA KeptFacts ==
    ASSUME NEW w \in Wanted \cup {Empty}, NEW u \in Kept(w)
    PROVE  /\ u \in Texts /\ \E n \in Nat : u \in {Root, Page(n)}
           /\ w # Empty => w \in Kept(w)
           /\ ~deployment.onPage /\ u = Page(u.escapes) =>
                \A n \in 0 .. u.escapes : Page(n) \in Kept(w)
<1>1. CASE w = Empty
  <2>1. u = Root /\ 0 \in Nat
    BY <1>1 DEF Kept
  <2>2. u # Page(u.escapes)
    BY <2>1 DEF Root, Page
  <2> QED BY <1>1, <2>1, <2>2, TextFacts
<1>2. CASE w \in Wanted /\ w # Empty
  <2>1. w \in Texts /\ w = Page(w.escapes) /\ w.escapes \in Nat
    BY <1>2, VisitAssumption DEF Texts
  <2>2. \A n : Page(n).escapes = n
    BY DEF Page
  <2>3. \E m \in 0 .. w.escapes : u = Page(m)
    BY <1>2, <2>1 DEF Kept
  <2> QED BY <1>2, <2>1, <2>2, <2>3, TextFacts DEF Kept
<1> QED BY <1>1, <1>2

\* What is kept survives its way through the challenge page.
LEMMA KeptAgain ==
    ASSUME NEW w \in Wanted \cup {Empty}, NEW u \in Kept(w)
    PROVE  /\ Unescape(QueryEscape(u)) = u
           /\ Redirect(Normalize(QueryEscape(u))) = u
           /\ ~deployment.onPage => Redirect(Normalize(u)) \in Kept(w)
<1>1. PICK n \in Nat : u \in {Root, Page(n)}
  BY KeptFacts
<1>2. /\ Unescape(QueryEscape(u)) = u /\ Normalize(QueryEscape(u)) = u /\ Redirect(u) = u
      /\ Normalize(u) \in {u} \cup {Page(m) : m \in 0 .. u.escapes}
      /\ u = Root => Normalize(u) = Root
  BY <1>1, Codec
<1>3. ASSUME ~deployment.onPage PROVE Redirect(Normalize(u)) \in Kept(w)
  <2>1. CASE u = Root
    BY <1>2, <2>1
  <2>2. CASE u # Root
    <3>1. u = Page(u.escapes)
      BY <1>1, <2>2 DEF Page
    <3>2. Normalize(u) \in Kept(w)
      BY <1>2, <1>3, <3>1, KeptFacts
    <3>3. \E m \in Nat : Normalize(u) \in {Root, Page(m)}
      BY <3>2, KeptFacts
    <3> QED BY <3>2, <3>3, Codec
  <2> QED BY <2>1, <2>2
<1> QED BY <1>2, <1>3

\* After the verification the visitor is sent to what is kept.
LEMMA SentBack ==
    ASSUME NEW b, b.wanted \in Wanted \cup {Empty}, b.at = "posting", Carried(b)
    PROVE  Redirect(Normalize(b.text)) \in Kept(b.wanted)
<1>1. CASE deployment.onPage
  BY <1>1, KeptAgain DEF Carried
<1>2. CASE ~deployment.onPage /\ b.text \in Kept(b.wanted)
  BY <1>2, KeptAgain
<1>3. CASE ~deployment.onPage /\ b.text = b.wanted
  <2>1. CASE b.wanted = Empty
    <3>1. Normalize(b.text) = Root /\ Redirect(Root) = Root
      BY <1>3, <2>1, Codec DEF Normalize
    <3> QED BY <2>1, <3>1 DEF Kept
  <2>2. CASE b.wanted # Empty
    BY <1>3, <2>2, KeptAgain DEF Kept
  <2> QED BY <2>1, <2>2
<1> QED BY <1>1, <1>2, <1>3 DEF Carried

\* One browser changes: its new view is as it should be.
LEMMA BrowserStep ==
    ASSUME DestinationInv, NEW v \in Visitors, deployment' = deployment,
           NEW b, browser' = [browser EXCEPT ![v] = b],
           b = [at |-> b.at, wanted |-> b.wanted, text |-> b.text],
           b.wanted \in Texts, b.text \in Texts, Carried(b),
           NEW l \in {"idle", "internal", "siteverify", "decode", "grant"},
           pc' = [pc EXCEPT ![v] = l], l # "idle" => b.at = "posting"
    PROVE  DestinationInv'
BY DEF DestinationInv, Carried, Kept

\* Every step keeps what browsers carry.
LEMMA DestinationStep == DestinationInv /\ [VisitNext]_allVars => DestinationInv'
<1> SUFFICES ASSUME DestinationInv, [VisitNext]_allVars PROVE DestinationInv'
  OBVIOUS
<1>0. \A v \in Visitors : pc' = pc => pc' = [pc EXCEPT ![v] = pc[v]]
  BY DEF DestinationInv
<1>1. CASE UNCHANGED <<pc, visitVars>>
  BY <1>1 DEF DestinationInv, visitVars, Carried, Kept
<1>2. ASSUME NEW v \in Visitors, NEW uri \in Texts, NEW wanted \in Texts,
             wanted \in Wanted \cup {Empty} => uri \in Kept(wanted),
             Request(v, uri, wanted)
      PROVE  DestinationInv'
  <2>1. /\ pc[v] = "idle" /\ pc' = pc /\ deployment' = deployment
    BY <1>2 DEF Request, ServePage, vars, challengeVars
  <2>2. PICK at, text : /\ browser' = [browser EXCEPT ![v] =
                                          [at |-> at, wanted |-> wanted, text |-> text]]
                        /\ \/ at = "content" /\ text = uri
                           \/ at = "challenge" /\ deployment.onPage /\ text = QueryEscape(uri)
                           \/ at = "sent" /\ ~deployment.onPage /\ text = QueryEscape(uri)
    BY <1>2 DEF Request, Show
  <2>3. Carried([at |-> at, wanted |-> wanted, text |-> text])
    BY <1>2, <2>2 DEF Carried
  <2> QED BY <1>0, <1>2, <2>1, <2>2, <2>3, TextFacts, BrowserStep
<1>3. ASSUME NEW v \in Visitors, NEW uri \in Wanted, Browse(v, uri) PROVE DestinationInv'
  <2>1. uri \in Texts /\ uri \in Kept(uri)
    BY VisitAssumption DEF Kept, Page, Empty
  <2> QED BY <1>2, <1>3, <2>1 DEF Browse
<1>4. ASSUME NEW v \in Visitors, Follow(v) PROVE DestinationInv'
  BY <1>2, <1>4 DEF Follow, DestinationInv, Carried
<1>5. ASSUME NEW v \in Visitors, OpenChallenge(v) PROVE DestinationInv'
  <2> DEFINE b == [at |-> "challenge", wanted |-> browser[v].wanted,
                   text |-> Unescape(browser[v].text)]
  <2>1. /\ pc[v] = "idle" /\ pc' = pc /\ deployment' = deployment
        /\ browser' = [browser EXCEPT ![v] = b]
    BY <1>5 DEF OpenChallenge, ServePage, Show
  <2>2. /\ browser[v].wanted \in Texts /\ Unescape(browser[v].text) \in Texts
        /\ Carried(browser[v]) /\ browser[v].at = "sent"
    BY <1>5, TextFacts DEF DestinationInv, OpenChallenge
  <2>3. Carried(b)
    <3> SUFFICES ASSUME browser[v].wanted \in Wanted \cup {Empty}
                 PROVE  /\ ~deployment.onPage
                        /\ Unescape(browser[v].text) \in Kept(browser[v].wanted)
      BY DEF Carried
    <3>1. /\ ~deployment.onPage
          /\ \E t \in Kept(browser[v].wanted) : browser[v].text = QueryEscape(t)
      BY <2>2 DEF Carried
    <3> QED BY <3>1, KeptAgain
  <2> QED BY <1>0, <2>1, <2>2, <2>3, BrowserStep
<1>6. ASSUME NEW v \in Visitors, NEW text \in Links, OpenLink(v, text) PROVE DestinationInv'
  <2> DEFINE b == [at |-> "challenge", wanted |-> text, text |-> text]
  <2>1. /\ pc[v] = "idle" /\ pc' = pc /\ deployment' = deployment /\ ~deployment.onPage
        /\ browser' = [browser EXCEPT ![v] = b]
    BY <1>6 DEF OpenLink, ServePage, Show
  <2>2. text \in Texts /\ Carried(b)
    BY <2>1, VisitAssumption DEF Carried
  <2> QED BY <1>0, <2>1, <2>2, BrowserStep
<1>7. ASSUME NEW v \in Visitors, Submit(v) PROVE DestinationInv'
  <2> DEFINE b == [browser[v] EXCEPT !.at = IF pc'[v] = "idle" THEN "error" ELSE "posting"]
  <2>1. /\ browser[v].at = "challenge" /\ deployment' = deployment
        /\ browser' = [browser EXCEPT ![v] = b]
    BY <1>7 DEF Submit
  <2>2. PICK l \in {"idle", "internal", "siteverify"} : pc' = [pc EXCEPT ![v] = l]
    BY <1>7 DEF Submit, PostForm, Goto
  <2>3. /\ browser[v] = [at |-> browser[v].at, wanted |-> browser[v].wanted,
                         text |-> browser[v].text]
        /\ browser[v].wanted \in Texts /\ browser[v].text \in Texts /\ Carried(browser[v])
    BY DEF DestinationInv
  <2>4. b = [at |-> IF l = "idle" THEN "error" ELSE "posting",
             wanted |-> browser[v].wanted, text |-> browser[v].text]
    BY <2>2, <2>3 DEF DestinationInv
  <2>5. Carried(b)
    BY <2>1, <2>3, <2>4 DEF Carried
  <2> QED BY <2>1, <2>2, <2>3, <2>4, <2>5, BrowserStep
<1>8. ASSUME NEW v \in Visitors, Verify(v) PROVE DestinationInv'
  <2>1. PICK l \in {"idle", "decode", "grant"} : pc' = [pc EXCEPT ![v] = l]
    BY <1>8 DEF Verify, ChooseTTL, SiteverifyFails, SiteverifyAnswers, Accept, Reject, GrantFails,
       Goto
  <2>2. pc[v] # "idle"
    BY <1>8 DEF Verify, ChooseTTL, SiteverifyFails, SiteverifyAnswers, Accept, Reject, GrantFails
  <2>3. /\ browser[v] = [at |-> "posting", wanted |-> browser[v].wanted,
                         text |-> browser[v].text]
        /\ browser[v].wanted \in Texts /\ browser[v].text \in Texts /\ Carried(browser[v])
    BY <2>2 DEF DestinationInv
  <2>4. deployment' = deployment
    BY <1>8 DEF Verify
  <2>5. CASE l = "idle"
    <3> DEFINE b == [at |-> "error", wanted |-> browser[v].wanted, text |-> browser[v].text]
    <3>1. browser' = [browser EXCEPT ![v] = b]
      <4>1. pc'[v] = "idle"
        BY <2>1, <2>5 DEF DestinationInv
      <4>2. browser' = [browser EXCEPT ![v].at = "error"]
        BY <1>8, <4>1 DEF Verify
      <4>3. [browser[v] EXCEPT !.at = "error"] = b
        BY <2>3
      <4>4. browser' = [browser EXCEPT ![v] = [browser[v] EXCEPT !.at = "error"]]
        BY <4>2
      <4> QED BY <4>3, <4>4
    <3>2. Carried(b)
      BY DEF Carried
    <3> QED BY <2>1, <2>3, <2>4, <2>5, <3>1, <3>2, BrowserStep
  <2>6. CASE l # "idle"
    <3>1. pc'[v] # "idle"
      BY <2>1, <2>6 DEF DestinationInv
    <3>2. browser' = [browser EXCEPT ![v] = browser[v]]
      BY <1>8, <3>1 DEF Verify, DestinationInv
    <3>3. browser[v] = [at |-> browser[v].at, wanted |-> browser[v].wanted,
                        text |-> browser[v].text]
      BY DEF DestinationInv
    <3>4. browser[v].at = "posting"
      BY <2>2 DEF DestinationInv
    <3>5. browser[v].wanted \in Texts /\ browser[v].text \in Texts /\ Carried(browser[v])
      BY DEF DestinationInv
    <3> QED BY <2>1, <2>4, <3>2, <3>3, <3>4, <3>5, BrowserStep
  <2> QED BY <2>5, <2>6
<1>9. ASSUME NEW v \in Visitors, Admit(v) PROVE DestinationInv'
  <2> DEFINE b == [at |-> "back", wanted |-> browser[v].wanted,
                   text |-> Redirect(Normalize(browser[v].text))]
  <2>1. /\ pc[v] = "grant" /\ pc' = [pc EXCEPT ![v] = "idle"] /\ deployment' = deployment
        /\ browser' = [browser EXCEPT ![v] = b]
    BY <1>9 DEF Admit, Grant, Goto, Show
  <2>2. /\ browser[v].at = "posting"
        /\ browser[v].wanted \in Texts /\ browser[v].text \in Texts /\ Carried(browser[v])
    BY <2>1 DEF DestinationInv
  <2>3. b.text \in Texts
    BY <2>2, RedirectsAreLocal
  <2>4. Carried(b)
    <3>1. browser[v].wanted \in Wanted \cup {Empty} =>
            Redirect(Normalize(browser[v].text)) \in Kept(browser[v].wanted)
      BY <2>2, SentBack
    <3> QED BY <3>1 DEF Carried
  <2> QED BY <2>1, <2>2, <2>3, <2>4, BrowserStep
<1>10. ASSUME NEW v \in Visitors, LoseCookie(v) PROVE DestinationInv'
  BY <1>10 DEF LoseCookie, vars, challengeVars, DestinationInv, Carried, Kept
<1>11. CASE (Breaker \/ Tick \/ VerifyChanges) /\ UNCHANGED visitVars
  BY <1>1, <1>11 DEF Breaker, Tick, VerifyChanges, challengeVars
<1>12. CASE UNCHANGED allVars
  BY <1>1, <1>12 DEF allVars, vars, challengeVars
<1> QED
  BY <1>3, <1>4, <1>5, <1>6, <1>7, <1>8, <1>9, <1>10, <1>11, <1>12 DEF VisitNext

\* It holds at the start.
LEMMA DestinationInit == VisitInit => DestinationInv
BY VisitAssumption, TextFacts DEF VisitInit, Init, DestinationInv, Carried

\* Whoever wants which page, and however often it is challenged on the way, the
\* redirect leads to that page, with fewer escapes at most and never on-page.
THEOREM DestinationCorrect == VisitSpec => []DestinationIsKept
<1>1. DestinationInv => DestinationIsKept
  <2> SUFFICES ASSUME DestinationInv, NEW v \in Visitors,
                      browser[v].at \in {"back", "content"},
                      browser[v].wanted \in Wanted \cup {Empty}
               PROVE  LET b == browser[v]
                      IN  /\ b.wanted = Empty => b.text = Root
                          /\ b.wanted \in Wanted =>
                               \/ b.text = b.wanted
                               \/ /\ ~deployment.onPage
                                  /\ \E n \in 0 .. b.wanted.escapes : b.text = Page(n)
    BY DEF DestinationIsKept
  <2>1. browser[v].text \in Kept(browser[v].wanted)
    BY DEF DestinationInv, Carried
  <2>2. Empty \notin Wanted
    BY VisitAssumption DEF Empty, Page
  <2> QED BY <2>1, <2>2 DEF Kept
<1> QED BY <1>1, DestinationInit, DestinationStep, PTL DEF VisitSpec

-----------------------------------------------------------------------------
\* Behind an address that the proxies do not exempt and before what they append,
\* the number of addresses that count after it is their number.
LEMMA CountedBehind ==
    ASSUME NEW front \in Seq(Addresses), NEW v \in Addresses \ Exempt,
           NEW back \in Seq(Addresses)
    PROVE  LET header == front \o <<v>> \o back
               k == Len(front) + 1
           IN  /\ k \in Counted(header) /\ header[k] = v
               /\ {j \in Counted(header) : j > k} = {k + i : i \in Counted(back)}
<1> DEFINE header == front \o <<v>> \o back
           k == Len(front) + 1
<1>1. /\ header \in Seq(Addresses) /\ Len(header) = k + Len(back)
      /\ k \in 1 .. Len(header) /\ header[k] = v
  OBVIOUS
<1>2. \A i \in 1 .. Len(back) : header[k + i] = back[i]
  OBVIOUS
<1>3. \A j \in 1 .. Len(header) : j > k => j - k \in 1 .. Len(back) /\ j = k + (j - k)
  BY <1>1
<1>4. DOMAIN header = 1 .. Len(header) /\ DOMAIN back = 1 .. Len(back) /\ k \in Nat
  BY <1>1
<1> HIDE DEF header, k
<1>5. {j \in Counted(header) : j > k} \subseteq {k + i : i \in Counted(back)}
  BY <1>2, <1>3, <1>4 DEF Counted
<1>6. {k + i : i \in Counted(back)} \subseteq {j \in Counted(header) : j > k}
  <2> SUFFICES ASSUME NEW i \in Counted(back) PROVE k + i \in Counted(header) /\ k + i > k
    OBVIOUS
  <2>1. i \in 1 .. Len(back) /\ back[i] \notin Exempt
    BY <1>4 DEF Counted
  <2>2. k + i \in 1 .. Len(header) /\ k + i > k
    BY <1>1, <1>4, <2>1
  <2> QED BY <1>2, <1>4, <2>1, <2>2 DEF Counted
<1>7. k \in Counted(header)
  BY <1>1, <1>4 DEF Counted
<1> QED BY <1>1, <1>5, <1>6, <1>7 DEF header, k

\* A set of natural numbers that is moved has as many elements.
LEMMA MovedCardinality ==
    ASSUME NEW k \in Nat, NEW S, S \subseteq Nat, IsFiniteSet(S)
    PROVE  LET T == {k + i : i \in S}
           IN  IsFiniteSet(T) /\ Cardinality(T) = Cardinality(S)
<1> DEFINE T == {k + i : i \in S}
           f == [i \in S |-> k + i]
<1>1. f \in Bijection(S, T)
  <2>1. f \in [S -> T] /\ \A t \in T : \E i \in S : f[i] = t
    OBVIOUS
  <2>2. \A i, j \in S : f[i] = f[j] => i = j
    OBVIOUS
  <2> QED BY <2>1, <2>2 DEF Bijection, Injection, Surjection, IsInjective
<1> QED BY <1>1, FS_Bijection DEF ExistsBijection

\* Whatever the client writes into the forwarding header itself, a request counts
\* for the address from which it reached the first proxy.
THEOREM ClientCannotChooseAddress ==
    ASSUME NEW v \in Visitors, NEW forged \in Forgeries
    PROVE  AddressOf(v, forged) = v
<1> DEFINE header == forged \o <<v>> \o Appended
           k == Len(forged) + 1
           After(i) == {j \in Counted(header) : j > i}
<1>1. /\ forged \in Seq(Addresses) /\ Appended \in Seq(Addresses)
      /\ v \in Addresses \ Exempt /\ v # Blank
      /\ Cardinality(Counted(Appended)) = Depth
  BY ProxyAssumption
<1>2. /\ k \in Counted(header) /\ header[k] = v
      /\ After(k) = {k + i : i \in Counted(Appended)}
  BY <1>1, CountedBehind
<1>3. IsFiniteSet(Counted(header)) /\ IsFiniteSet(Counted(Appended))
  <2>1. ASSUME NEW s \in Seq(Addresses)
        PROVE  IsFiniteSet(Counted(s)) /\ Counted(s) \subseteq 1 .. Len(s)
    BY FS_Interval, FS_Subset DEF Counted
  <2>2. header \in Seq(Addresses)
    BY <1>1
  <2> QED BY <1>1, <2>1, <2>2
<1>4. Counted(header) \subseteq Nat /\ Counted(Appended) \subseteq Nat /\ k \in Nat
  BY <1>1 DEF Counted
<1>5. Cardinality(After(k)) = Depth
  BY <1>1, <1>2, <1>3, <1>4, MovedCardinality
<1>6. \A i \in Counted(header) : IsFiniteSet(After(i))
  BY <1>3, FS_Subset
<1>7. ASSUME NEW i \in Counted(header), Cardinality(After(i)) = Depth PROVE i = k
  <2>1. CASE i < k
    <3>1. After(k) \in SUBSET After(i) /\ After(k) # After(i)
      BY <1>2, <1>4, <2>1
    <3> QED BY <1>5, <1>6, <1>7, <3>1, FS_Subset
  <2>2. CASE i > k
    <3>1. After(i) \in SUBSET After(k) /\ After(k) # After(i)
      BY <1>2, <1>4, <2>2
    <3> QED BY <1>2, <1>5, <1>6, <1>7, <3>1, FS_Subset
  <2> QED BY <1>4, <2>1, <2>2
<1>8. {i \in Counted(header) : Cardinality(After(i)) = Depth} = {k}
  BY <1>2, <1>5, <1>7
<1> HIDE DEF header, k
<1>9. {header[i] : i \in {k}} \ {Blank} = {v}
  BY <1>1, <1>2
<1>10. AddressOf(v, forged) = ClientIP(header, Remote)
  BY DEF AddressOf, header
<1> QED BY <1>8, <1>9, <1>10 DEF ClientIP
-----------------------------------------------------------------------------
\* The key under which a visitor is found.
KeyOf(v) == IF deployment.session THEN Token ELSE v

\* Every entry is stored under the key that the visitor is looked up with, or the
\* cookie that says so is lost.
KeyInv == VisitTypeOK /\ \A v \in Visitors : key[v] \in {KeyOf(v), Unknown}

\* A browser that changes its view to a typed one, and keeps its key.
LEMMA ViewStep ==
    ASSUME KeyInv, NEW v \in Visitors, UNCHANGED <<deployment, key>>,
           NEW at \in Views, NEW wanted \in Texts, NEW text \in Texts,
           Show(v, at, wanted, text)
    PROVE  KeyInv'
BY DEF KeyInv, VisitTypeOK, Show, KeyOf

\* Every step keeps types and keys.
LEMMA KeyStep == DestinationInv /\ KeyInv /\ [VisitNext]_allVars => KeyInv'
<1> SUFFICES ASSUME DestinationInv, KeyInv, [VisitNext]_allVars PROVE KeyInv'
  OBVIOUS
<1>1. CASE UNCHANGED visitVars
  BY <1>1 DEF visitVars, KeyInv, VisitTypeOK, KeyOf
<1>2. ASSUME NEW v \in Visitors, NEW uri \in Texts, NEW wanted \in Texts, Request(v, uri, wanted)
      PROVE  KeyInv'
  <2>1. PICK at \in Views, text \in {uri, QueryEscape(uri)} : Show(v, at, wanted, text)
    BY <1>2 DEF Request, Views
  <2>2. text \in Texts /\ wanted \in Texts
    BY TextFacts
  <2> QED BY <1>2, <2>1, <2>2, ViewStep DEF Request
<1>3. ASSUME NEW v \in Visitors, NEW uri \in Wanted, Browse(v, uri) PROVE KeyInv'
  BY <1>2, <1>3, VisitAssumption DEF Browse
<1>4. ASSUME NEW v \in Visitors, Follow(v) PROVE KeyInv'
  <2>1. browser[v].wanted \in Texts /\ browser[v].text \in Texts
    BY DEF DestinationInv
  <2> QED BY <1>2, <1>4, <2>1 DEF Follow
<1>5. ASSUME NEW v \in Visitors PROVE browser[v].wanted \in Texts /\ browser[v].text \in Texts
  BY DEF KeyInv, VisitTypeOK
<1>6. ASSUME NEW v \in Visitors, OpenChallenge(v) \/ \E text \in Links : OpenLink(v, text)
      PROVE  KeyInv'
  <2>1. "challenge" \in Views
    BY DEF Views
  <2> QED BY <1>5, <1>6, <2>1, TextFacts, VisitAssumption, ViewStep DEF OpenChallenge, OpenLink
<1>7. ASSUME NEW v \in Visitors, Submit(v) PROVE KeyInv'
  BY <1>7 DEF Submit, Views, KeyInv, VisitTypeOK, KeyOf
<1>8. ASSUME NEW v \in Visitors, Verify(v) PROVE KeyInv'
  BY <1>8 DEF Verify, Views, KeyInv, VisitTypeOK, KeyOf
<1>9. ASSUME NEW v \in Visitors, Admit(v) PROVE KeyInv'
  <2> DEFINE b == [at |-> "back", wanted |-> browser[v].wanted,
                   text |-> Redirect(Normalize(browser[v].text))]
  <2>1. key' = [key EXCEPT ![v] = KeyOf(v)]
    BY <1>9, ClientCannotChooseAddress DEF Admit, KeyOf
  <2>2. /\ browser' = [browser EXCEPT ![v] = b]
        /\ b \in [at : Views, wanted : Texts, text : Texts]
    BY <1>5, <1>9, RedirectsAreLocal DEF Admit, Show, Views
  <2>3. deployment' = deployment
    BY <1>9 DEF Admit
  <2> QED BY <2>1, <2>2, <2>3 DEF KeyInv, VisitTypeOK, KeyOf
<1>10. ASSUME NEW v \in Visitors, LoseCookie(v) PROVE KeyInv'
  BY <1>10 DEF LoseCookie, KeyInv, VisitTypeOK, KeyOf
<1>11. CASE UNCHANGED allVars
  BY <1>1, <1>11 DEF allVars
<1> QED
  BY <1>1, <1>3, <1>4, <1>6, <1>7, <1>8, <1>9, <1>10, <1>11 DEF VisitNext

\* It holds at the start.
LEMMA KeyInit == VisitInit => KeyInv
BY TextFacts DEF VisitInit, KeyInv, VisitTypeOK, Views

\* In every reachable state browsers, keys and the deployment are of their types:
\* a visitor is stored under its address or its token, never under the address of
\* a proxy or one that the client has made up.
THEOREM VisitTypeCorrect == VisitSpec => []VisitTypeOK
<1>1. KeyInv => VisitTypeOK
  BY DEF KeyInv
<1> QED
  BY <1>1, KeyInit, KeyStep, DestinationInit, DestinationStep, PTL DEF VisitSpec

\* Whoever has just been verified is found under the key of its entry by the next
\* request, whatever forwarding header that one carries.
THEOREM NoLoopCorrect == VisitSpec => NoChallengeLoop
<1> DEFINE NoLoop ==
      \A v \in Visitors :
        browser[v].at = "back" /\ browser'[v].at \in {"sent", "challenge"}
          => entry[v].left = 0 \/ key[v] = Unknown
<1>1. ASSUME TypeOK, DestinationInv, KeyInv, [VisitNext]_allVars, NEW v \in Visitors,
             browser[v].at = "back", browser'[v].at \in {"sent", "challenge"},
             entry[v].left # 0, key[v] # Unknown
      PROVE  FALSE
  <2>1. ASSUME NEW forged \in Forgeries PROVE IsVerified(v, forged)
    <3>1. entry[v].left > 0
      BY <1>1 DEF TypeOK, Grants, Longest
    <3>2. key[v] = KeyOf(v)
      BY <1>1 DEF KeyInv
    <3> QED BY <3>1, <3>2, <2>1, ClientCannotChooseAddress DEF IsVerified, KeyOf
  <2>2. \A w \in Visitors : \A uri, wanted :
          Request(w, uri, wanted) => \E at, text : Show(w, at, wanted, text)
    BY DEF Request
  <2>3. PICK w \in Visitors :
             \/ (\E uri \in Wanted : Browse(w, uri)) \/ Follow(w) \/ OpenChallenge(w)
             \/ (\E text \in Links : OpenLink(w, text)) \/ Submit(w) \/ Verify(w) \/ Admit(w)
    BY <1>1 DEF VisitNext, visitVars, allVars, LoseCookie
  <2>4. browser[v] # browser'[v]
    BY <1>1
  <2>5. v = w
    <3>1. \/ \E at, wanted, text : Show(w, at, wanted, text)
          \/ \E at : browser' = [browser EXCEPT ![w].at = at]
          \/ browser' = browser
      BY <2>2, <2>3, Zenon DEF Browse, Follow, OpenChallenge, OpenLink, Submit, Verify, Admit
    <3>2. browser = [x \in Visitors |-> browser[x]]
      BY <1>1 DEF DestinationInv
    <3> QED BY <2>4, <3>1, <3>2 DEF Show
  <2>6. ASSUME NEW uri, NEW wanted, Request(v, uri, wanted) PROVE browser'[v].at = "content"
    BY <1>1, <2>1, <2>6 DEF Request, Show, KeyInv, VisitTypeOK
  <2>7. ~ ((\E uri \in Wanted : Browse(v, uri)) \/ Follow(v))
    BY <1>1, <2>6 DEF Browse, Follow
  <2>8. ~ (OpenChallenge(v) \/ (\E text \in Links : OpenLink(v, text)) \/ Submit(v))
    BY <1>1 DEF OpenChallenge, OpenLink, Submit
  <2>9. ~ (Verify(v) \/ Admit(v))
    BY <1>1 DEF Verify, Admit, Show, KeyInv, VisitTypeOK
  <2> QED BY <2>3, <2>5, <2>7, <2>8, <2>9
<1>2. TypeOK /\ DestinationInv /\ KeyInv /\ [VisitNext]_allVars => [NoLoop]_allVars
  BY <1>1
<1>3. VisitSpec => []TypeOK
  BY VisitsImplementChallenge, TypeCorrect, PTL
<1>4. VisitSpec => []DestinationInv /\ []KeyInv
  BY KeyInit, KeyStep, DestinationInit, DestinationStep, PTL DEF VisitSpec
<1> QED BY <1>2, <1>3, <1>4, PTL DEF VisitSpec, NoChallengeLoop

\* Whatever destinations links to the challenge carry, and however often they are
\* escaped and decoded on the way, no redirect leaves the site.
THEOREM StaysOnSite == VisitSpec => []RedirectsStayOnSite
<1>1. ASSUME DestinationInv, RedirectsStayOnSite, [VisitNext]_allVars
      PROVE  RedirectsStayOnSite'
  <2>1. ASSUME NEW v \in Visitors, NEW at, NEW wanted, NEW text,
               at \in {"back", "content"} => Local(text), Show(v, at, wanted, text)
        PROVE  RedirectsStayOnSite'
    BY <1>1, <2>1 DEF RedirectsStayOnSite, DestinationInv, Show
  <2>2. ASSUME NEW v \in Visitors, NEW uri, NEW wanted, Local(uri), Request(v, uri, wanted)
        PROVE  RedirectsStayOnSite'
    BY <2>1, <2>2 DEF Request
  <2>3. ASSUME NEW v \in Visitors, NEW uri \in Wanted, Browse(v, uri)
        PROVE  RedirectsStayOnSite'
    BY <2>2, <2>3, VisitAssumption DEF Browse, Page, Local
  <2>4. ASSUME NEW v \in Visitors, Follow(v) PROVE RedirectsStayOnSite'
    BY <1>1, <2>2, <2>4 DEF Follow, RedirectsStayOnSite
  <2>5. ASSUME NEW v \in Visitors, OpenChallenge(v) \/ \E text \in Links : OpenLink(v, text)
        PROVE  RedirectsStayOnSite'
    BY <2>1, <2>5 DEF OpenChallenge, OpenLink
  <2>6. ASSUME NEW v \in Visitors, Admit(v) PROVE RedirectsStayOnSite'
    <3>1. Local(Redirect(Normalize(browser[v].text)))
      BY <1>1, RedirectsAreLocal DEF DestinationInv
    <3> QED BY <2>1, <2>6, <3>1 DEF Admit
  <2>7. ASSUME NEW v \in Visitors, NEW at \in {"error", "posting"},
               browser' = [browser EXCEPT ![v].at = at]
        PROVE  RedirectsStayOnSite'
    BY <1>1, <2>7 DEF RedirectsStayOnSite, DestinationInv
  <2>8. CASE UNCHANGED browser
    BY <1>1, <2>8 DEF RedirectsStayOnSite
  <2>9. ASSUME NEW v \in Visitors, Submit(v) \/ Verify(v) PROVE RedirectsStayOnSite'
    BY <2>7, <2>8, <2>9 DEF Submit, Verify
  <2> QED
    BY <1>1, <2>3, <2>4, <2>5, <2>6, <2>8, <2>9
       DEF VisitNext, LoseCookie, visitVars, allVars
<1>2. VisitInit => RedirectsStayOnSite
  BY DEF VisitInit, RedirectsStayOnSite
<1> QED BY <1>1, <1>2, DestinationInit, DestinationStep, PTL DEF VisitSpec
=============================================================================
