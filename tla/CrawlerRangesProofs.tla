------------------------ MODULE CrawlerRangesProofs ------------------------
(***************************************************************************)
(* Proofs about the crawler address lists, for all three sources and every *)
(* finite set of addresses, set of networks, and number of URLs.           *)
(***************************************************************************)
EXTENDS CrawlerRanges, FiniteSetTheorems, WellFoundedInduction, TLAPS

\* A set of natural numbers has a least element.
LEMMA LeastNatural ==
    ASSUME NEW T, T \subseteq Nat, T # {}
    PROVE  \E x \in T : \A y \in T : ~ (y < x)
<1> DEFINE R == OpToRel(<, Nat)
<1>1. \E x \in T : \A y \in T : ~ (<<y, x>> \in R)
  <2>1. IsWellFoundedOn(R, Nat)
    BY NatLessThanWellFounded
  <2> HIDE DEF R
  <2> QED BY <2>1, WFMin
<1>2. \A x, y \in Nat : y < x => <<y, x>> \in R
  BY DEF OpToRel
<1> QED BY <1>1, <1>2

\* Each network of a list is covered by one that ReduceCIDRs keeps.
LEMMA CoveringNetwork ==
    ASSUME NEW nets, nets \subseteq Networks \cup {Invalid}, NEW n \in nets \ {Invalid}
    PROVE  \E m \in Reduced(nets) : n \subseteq m
<1> DEFINE Free(m) == Cardinality(Addresses \ m)
           wider == {m \in nets \ {Invalid} : n \subseteq m}
           sizes == {Free(m) : m \in wider}
<1>1. \A m \in nets \ {Invalid} : m \subseteq Addresses
  BY NetworksAssumption
<1>2. sizes \subseteq Nat /\ sizes # {}
  <2>1. n \in wider
    OBVIOUS
  <2>2. \A m \in wider : Free(m) \in Nat
    <3>1. \A m \in wider : IsFiniteSet(Addresses \ m)
      BY FS_Subset, NetworksAssumption
    <3> QED BY <3>1, FS_CardinalityType
  <2> QED BY <2>1, <2>2
<1>3. PICK m \in wider : \A k \in wider : ~ (Free(k) < Free(m))
  <2> HIDE DEF Free, wider
  <2>1. PICK x \in sizes : \A y \in sizes : ~ (y < x)
    BY <1>2, LeastNatural
  <2> QED BY <2>1
<1>4. \A k \in nets \ {Invalid} : m \subseteq k => k = m
  <2> SUFFICES ASSUME NEW k \in nets \ {Invalid}, m \subseteq k, k # m PROVE FALSE
    OBVIOUS
  <2>1. k \in wider
    OBVIOUS
  <2>2. /\ Addresses \ k \in SUBSET (Addresses \ m) /\ Addresses \ k # Addresses \ m
        /\ IsFiniteSet(Addresses \ m)
    BY <1>1, FS_Subset, NetworksAssumption
  <2>3. Free(k) <= Free(m) /\ Free(k) # Free(m)
    BY <2>2, FS_Subset
  <2>4. Free(k) \in Nat /\ Free(m) \in Nat
    BY <1>2, <2>1
  <2> QED BY <1>3, <2>1, <2>3, <2>4
<1>5. m \in Reduced(nets)
  BY <1>4 DEF Reduced
<1> QED BY <1>5

\* Reducing a list changes no answer: the same addresses are on it.
THEOREM ReducedDenotesTheSame ==
    ASSUME NEW nets, nets \subseteq Networks \cup {Invalid}
    PROVE  /\ Reduced(nets) \subseteq Networks
           /\ AddrsOf(Reduced(nets)) = AddrsOf(nets)
<1>1. Reduced(nets) \subseteq nets \ {Invalid}
  BY DEF Reduced
<1>2. ASSUME NEW n \in nets \ {Invalid}, NEW a \in n PROVE a \in AddrsOf(Reduced(nets))
  BY <1>1, <1>2, CoveringNetwork DEF AddrsOf
<1> QED BY <1>1, <1>2 DEF AddrsOf

-----------------------------------------------------------------------------
\* The addresses of two lists together.
LEMMA AddrsOfUnion ==
    ASSUME NEW A, NEW B
    PROVE  AddrsOf(A \cup B) = AddrsOf(A) \cup AddrsOf(B)
BY DEF AddrsOf

\* Lists and answers are of networks, networks of addresses.
LEMMA AddrsOfType ==
    ASSUME NEW nets, nets \subseteq Networks \cup {Invalid}
    PROVE  AddrsOf(nets) \subseteq Addresses
BY NetworksAssumption DEF AddrsOf

\* What a URL publishes is in its type.
LEMMA PublishedType ==
    ASSUME TypeOK, NEW u \in Urls
    PROVE  official[u] \subseteq Networks \cup {Invalid} /\ Published(u) \subseteq Addresses
<1>1. official[u] \subseteq Networks \cup {Invalid}
  BY NetworksAssumption DEF TypeOK
<1> QED BY <1>1, AddrsOfType DEF Published

\* Past the fetch, what is no CIDR is gone.
FetchedIsValid == loop \in {"verify", "lock", "write"} => fetched \subseteq Networks

\* The steps of the goroutine that fetch, verify and reduce.
RefreshStepOnly ==
    \/ Start \/ RefreshAgain
    \/ FetchFails \/ FetchGoogle \/ FetchUptimeRobot \/ FetchCommonCrawl
    \/ VerifyNext \/ LookupConfirms \/ LookupFails \/ Verified \/ Exit

\* A refresh begins in the types.
LEMMA BeginType == TypeOK /\ BeginRefresh => TypeOK'
<1> SUFFICES ASSUME TypeOK, BeginRefresh PROVE TypeOK'
  OBVIOUS
<1>1. Urls' = Urls /\ 1 \in Urls
  BY UrlsAssumption DEF BeginRefresh, Goto, contextVars, Urls
<1>2. \A u \in Urls : Published(u) \subseteq Addresses
  BY PublishedType
<1>3. offered' \subseteq Addresses /\ steady' \in [Urls -> SUBSET Addresses]
  BY <1>2 DEF BeginRefresh
<1>4. zone \subseteq Addresses
  BY NetworksAssumption DEF TypeOK
<1> QED BY <1>1, <1>3, <1>4 DEF BeginRefresh, Goto, TypeOK, contextVars, readerVars, environment

\* It fails in the types.
LEMMA FailType == TypeOK /\ Fail => TypeOK'
<1> SUFFICES ASSUME TypeOK, Fail PROVE TypeOK'
  OBVIOUS
<1>1. Urls' = Urls /\ 1 \in Urls
  BY UrlsAssumption DEF Fail, Goto, contextVars, Urls
<1>2. steady' \in [Urls -> SUBSET Addresses]
  BY DEF Fail, ForgetRefresh
<1> QED BY <1>1, <1>2 DEF Fail, ForgetRefresh, Goto, TypeOK, contextVars, readerVars, environment

\* The goroutine only changes loop, next, fetched, pending, looking and excluded.
LEMMA GotoType ==
    ASSUME TypeOK, NEW l \in {"fetch", "verify", "lock", "wait", "exited"}, Goto(l),
           next' \in Urls, fetched' \subseteq Networks \cup {Invalid}, pending' \subseteq IPv4,
           looking' \in IPv4 \cup {None}, excluded' \subseteq Addresses,
           UNCHANGED <<expired, offered, steady, confirmed>>
    PROVE  TypeOK'
<1>1. Urls' = Urls
  BY DEF Goto, contextVars, Urls
<1> QED BY <1>1 DEF Goto, TypeOK, contextVars, readerVars, environment

\* Fetching, verifying and reducing keep the types.
LEMMA RefreshType == TypeOK /\ RefreshStepOnly => TypeOK'
<1> SUFFICES ASSUME TypeOK, RefreshStepOnly PROVE TypeOK'
  OBVIOUS
<1>0. /\ next \in Urls /\ fetched \subseteq Networks \cup {Invalid} /\ pending \subseteq IPv4
      /\ looking \in IPv4 \cup {None} /\ excluded \subseteq Addresses
  BY DEF TypeOK
<1>1. CASE Start \/ Exit
  BY <1>0, <1>1, BeginType, GotoType DEF Start, Exit, ghosts
<1>2. CASE RefreshAgain
  BY <1>2, BeginType DEF RefreshAgain
<1>3. CASE FetchFails
  BY <1>3, FailType DEF FetchFails
<1>4. CASE FetchGoogle
  <2> DEFINE all == fetched \cup official[next]
  <2>1. all \subseteq Networks \cup {Invalid} /\ Reduced(all) \subseteq Networks
    BY <1>0, PublishedType, ReducedDenotesTheSame
  <2>2. next # GoogleUrls => next + 1 \in Urls
    BY <1>0, <1>4, UrlsAssumption DEF FetchGoogle, Urls
  <2> QED BY <1>0, <1>4, <2>1, <2>2, GotoType DEF FetchGoogle, ghosts
<1>5. CASE FetchUptimeRobot
  <2>1. 1 \in Urls
    BY UrlsAssumption DEF Urls
  <2>2. Reduced(official[1]) \subseteq Networks
    BY <2>1, PublishedType, ReducedDenotesTheSame
  <2> QED BY <1>0, <1>5, <2>2, GotoType, FailType DEF FetchUptimeRobot, ghosts
<1>6. CASE FetchCommonCrawl
  <2>1. 1 \in Urls
    BY UrlsAssumption DEF Urls
  <2>2. {n \in official[1] : n \cap IPv4 = {}} \subseteq Networks \cup {Invalid}
    BY <2>1, PublishedType
  <2> QED BY <1>0, <1>6, <2>2, GotoType, FailType DEF FetchCommonCrawl, ghosts
<1>7. CASE VerifyNext
  BY <1>0, <1>7, GotoType, FailType DEF VerifyNext, ghosts
<1>8. CASE LookupConfirms
  <2>1. {looking} \in Networks
    BY <1>0, <1>8, NetworksAssumption DEF LookupConfirms
  <2> QED BY <1>0, <1>8, <2>1, GotoType DEF LookupConfirms, ghosts
<1>9. CASE LookupFails
  <2>1. looking \in Addresses
    BY <1>0, <1>9, NetworksAssumption DEF LookupFails
  <2> QED BY <1>0, <1>9, <2>1, GotoType DEF LookupFails
<1>10. CASE Verified
  BY <1>0, <1>10, ReducedDenotesTheSame, GotoType DEF Verified, ghosts
<1> QED BY <1>1, <1>2, <1>3, <1>4, <1>5, <1>6, <1>7, <1>8, <1>9, <1>10 DEF RefreshStepOnly

\* So do the steps that replace the list or look addresses up.
LEMMA ListType ==
    ASSUME TypeOK, FetchedIsValid,
           LockList \/ AppendNetwork \/ UnlockList \/ \E c \in Clients : ReadLock(c) \/ Search(c)
    PROVE  TypeOK'
<1>1. Urls' = Urls /\ 1 \in Urls
  BY UrlsAssumption DEF LockList, AppendNetwork, UnlockList, ReadLock, Search, contextVars, Urls
<1> USE DEF TypeOK, contextVars, readerVars, environment, ghosts, refreshVars
<1>2. CASE LockList
  <2>1. steady' \in [Urls -> SUBSET Addresses]
    BY <1>2 DEF LockList, ForgetRefresh
  <2> QED BY <1>1, <1>2, <2>1 DEF LockList, ForgetRefresh
<1>3. CASE AppendNetwork
  BY <1>1, <1>3 DEF AppendNetwork, FetchedIsValid
<1>4. CASE UnlockList
  BY <1>1, <1>4 DEF UnlockList
<1>5. ASSUME NEW c \in Clients, ReadLock(c) PROVE TypeOK'
  BY <1>1, <1>5 DEF ReadLock
<1>6. ASSUME NEW c \in Clients, Search(c) PROVE TypeOK'
  BY <1>1, <1>6 DEF Search
<1> QED BY <1>2, <1>3, <1>4, <1>5, <1>6

\* So does what happens around them.
LEMMA EnvironmentType ==
    ASSUME TypeOK, Cancel \/ Expire \/ Environment \/ UNCHANGED vars
    PROVE  TypeOK'
<1>1. Urls' = Urls
  BY DEF Cancel, Expire, Environment, EditZone, NetChanges, Publish, vars, contextVars, Urls
<1> USE DEF TypeOK, contextVars, readerVars, environment, ghosts, refreshVars
<1>2. CASE Cancel \/ Expire \/ NetChanges \/ UNCHANGED vars
  BY <1>1, <1>2 DEF Cancel, Expire, NetChanges, vars
<1>3. CASE EditZone
  <2>1. confirmed' \subseteq Addresses
    BY <1>3, NetworksAssumption DEF EditZone
  <2> QED BY <1>1, <1>3, <2>1 DEF EditZone
<1>4. ASSUME NEW u \in Urls, Publish(u) PROVE TypeOK'
  <2>1. official' \in [Urls -> Answers]
    BY <1>4 DEF Publish
  <2>2. AddrsOf(official'[u]) \subseteq Addresses
    <3>1. official'[u] \subseteq Networks \cup {Invalid}
      BY <2>1, NetworksAssumption
    <3> QED BY <3>1, AddrsOfType
  <2>3. offered' \subseteq Addresses /\ steady' \in [Urls -> SUBSET Addresses]
    BY <1>4, <2>2 DEF Publish
  <2> QED BY <1>1, <1>4, <2>1, <2>3 DEF Publish
<1> QED BY <1>2, <1>3, <1>4 DEF Environment

\* Every step keeps the types.
LEMMA TypeStep == TypeOK /\ FetchedIsValid /\ [Next]_vars => TypeOK'
BY RefreshType, ListType, EnvironmentType DEF Next, RefreshStep, RefreshStepOnly

\* The variables start in their types.
LEMMA TypeInit == Init => TypeOK
<1> SUFFICES ASSUME Init PROVE TypeOK
  OBVIOUS
<1>1. 1 \in Urls
  BY UrlsAssumption DEF Urls
<1>2. zone \subseteq IPv4
  BY DEF Init
<1>3. steady \in [Urls -> SUBSET Addresses] /\ answer \in [Clients -> BOOLEAN]
  BY DEF Init
<1> QED BY <1>1, <1>2, <1>3 DEF Init, TypeOK

-----------------------------------------------------------------------------
\* Only Common Crawl is verified; readers and the writer exclude each other; a
\* list in the making is part of the result.
Control ==
    /\ loop = "verify" => source = "commonCrawl"
    /\ loop = "write" => reading = {} /\ cidrs \subseteq fetched

\* During a refresh the ghosts say what they are meant to.
Followed ==
    Refreshing =>
      /\ \A u \in Urls : Published(u) \subseteq offered /\ steady[u] \subseteq Published(u)
      /\ zone \subseteq confirmed

\* What was collected was published since the refresh began, and confirmed; what
\* was published all the time has been collected from the URLs so far, is still to
\* be verified, or failed.
Collected ==
    /\ Refreshing => AddrsOf(fetched) \subseteq offered
    /\ loop = "fetch" => /\ looking = None
                         /\ \A u \in Urls : u < next => steady[u] \subseteq AddrsOf(fetched)
    /\ loop = "verify" =>
         /\ pending \cup ({looking} \ {None}) \subseteq offered
         /\ steady[1] \subseteq AddrsOf(fetched) \cup pending \cup {looking} \cup excluded
    /\ loop = "lock" =>
         \A u \in Urls : steady[u] \subseteq AddrsOf(fetched) \cup excluded
    /\ loop \in {"verify", "lock"} /\ source = "commonCrawl" =>
         AddrsOf(fetched) \cap IPv4 \subseteq confirmed

Inv == TypeOK /\ FetchedIsValid /\ Control /\ Followed /\ Collected

Rest == FetchedIsValid /\ Control /\ Followed /\ Collected

\* A refresh that begins or fails leaves nothing behind.
LEMMA BeginRest == Inv /\ (BeginRefresh \/ Fail) => Rest'
<1> SUFFICES ASSUME Inv, BeginRefresh \/ Fail PROVE Rest'
  OBVIOUS
<1>1. CASE BeginRefresh
  <2>1. /\ loop' = "fetch" /\ next' = 1 /\ fetched' = {} /\ looking' = None /\ Urls' = Urls
        /\ \A u \in Urls : Published(u)' = Published(u)
    BY <1>1 DEF BeginRefresh, Goto, contextVars, environment, Urls, Published, AddrsOf
  <2>2. \A u \in Urls : ~(u < 1)
    BY UrlsAssumption DEF Urls
  <2>3. Followed'
    BY <1>1, <2>1 DEF BeginRefresh, Goto, environment, Followed
  <2>4. AddrsOf({}) = {}
    BY DEF AddrsOf
  <2>5. Collected'
    BY <2>1, <2>2, <2>4 DEF Collected, AddrsOf
  <2> QED BY <2>1, <2>3, <2>5 DEF Rest, FetchedIsValid, Control
<1>2. CASE Fail
  BY <1>2 DEF Fail, Goto, Rest, FetchedIsValid, Control, Followed, Collected, Refreshing
<1> QED BY <1>1, <1>2

\* A step of a refresh that goes on: what is followed is left alone.
LEMMA GoOn ==
    ASSUME Inv, Refreshing, NEW l, Goto(l), UNCHANGED <<offered, steady, confirmed>>
    PROVE  /\ Followed' /\ Followed
           /\ Urls' = Urls /\ source' = source
           /\ loop' = l
BY DEF Inv, Followed, Refreshing, Goto, contextVars, environment, Urls, Published, AddrsOf

\* Fetching, verifying and reducing.
LEMMA RefreshRest == Inv /\ RefreshStepOnly => Rest'
<1> SUFFICES ASSUME Inv, RefreshStepOnly PROVE Rest'
  OBVIOUS
<1>0. /\ next \in Urls /\ fetched \subseteq Networks \cup {Invalid} /\ pending \subseteq IPv4
      /\ looking \in IPv4 \cup {None} /\ TypeOK
  BY DEF Inv, TypeOK
<1>1. 1 \in Urls /\ (source # "google" => Urls = {1}) /\ Urls \subseteq Nat \ {0}
  BY UrlsAssumption DEF Urls
<1>2. CASE Exit \/ (Start /\ Goto("exited"))
  BY <1>2 DEF Exit, Start, Goto, Rest, FetchedIsValid, Control, Followed, Collected, Refreshing
<1>3. CASE (Start /\ BeginRefresh) \/ RefreshAgain \/ FetchFails
  BY <1>3, BeginRest DEF RefreshAgain, FetchFails
<1>4. CASE FetchGoogle
  <2> DEFINE all == fetched \cup official[next]
  <2>1. /\ Followed' /\ Followed /\ Urls' = Urls /\ source' = source /\ steady' = steady
        /\ offered' = offered /\ excluded' = excluded /\ Refreshing /\ source = "google"
    BY <1>4, GoOn DEF FetchGoogle, ghosts, Refreshing
  <2>2. all \subseteq Networks \cup {Invalid}
    BY <1>0, PublishedType
  <2>3. AddrsOf(all) = AddrsOf(fetched) \cup Published(next)
    BY AddrsOfUnion DEF Published
  <2>4. AddrsOf(all) \subseteq offered
    BY <1>0, <2>1, <2>3 DEF Inv, Followed, Collected
  <2>5. \A u \in Urls : u <= next => steady[u] \subseteq AddrsOf(all)
    <3>1. \A u \in Urls : u < next => steady[u] \subseteq AddrsOf(fetched)
      BY <1>4 DEF Inv, Collected, FetchGoogle
    <3>2. steady[next] \subseteq Published(next)
      BY <1>0, <2>1 DEF Followed
    <3>3. \A u \in Urls : u <= next => u < next \/ u = next
      BY <1>0, <1>1
    <3> QED BY <2>3, <3>1, <3>2, <3>3
  <2>6. CASE next = GoogleUrls
    <3>1. loop' = "lock" /\ fetched' = Reduced(all)
      BY <1>4, <2>6 DEF FetchGoogle, Goto
    <3>2. AddrsOf(fetched') = AddrsOf(all) /\ fetched' \subseteq Networks
      BY <2>2, <3>1, ReducedDenotesTheSame
    <3>3. \A u \in Urls : u <= next
      BY <2>1, <2>6 DEF Urls
    <3>4. Collected'
      BY <2>1, <2>4, <2>5, <3>1, <3>2, <3>3 DEF Collected, AddrsOf
    <3> QED BY <2>1, <3>1, <3>2, <3>4 DEF Rest, FetchedIsValid, Control
  <2>7. CASE next # GoogleUrls
    <3>1. loop' = "fetch" /\ fetched' = all /\ next' = next + 1 /\ looking' = None
      BY <1>4, <2>7 DEF FetchGoogle, Goto, Inv, Collected
    <3>2. \A u \in Urls : u < next + 1 => u <= next
      BY <1>0, <1>1
    <3>3. Collected'
      BY <2>1, <2>4, <2>5, <3>1, <3>2 DEF Collected, AddrsOf
    <3> QED BY <2>1, <3>1, <3>3 DEF Rest, FetchedIsValid, Control
  <2> QED BY <2>6, <2>7
<1>5. CASE FetchUptimeRobot
  <2>1. CASE Fail
    BY <2>1, BeginRest
  <2>2. CASE ~Fail
    <3>1. /\ Followed' /\ Followed /\ Urls' = Urls /\ source' = source /\ steady' = steady
          /\ offered' = offered /\ excluded' = excluded /\ Refreshing
          /\ source = "uptimeRobot" /\ loop' = "lock" /\ fetched' = Reduced(official[1])
      BY <1>5, <2>2, GoOn DEF FetchUptimeRobot, ghosts, Refreshing
    <3>2. AddrsOf(fetched') = Published(1) /\ fetched' \subseteq Networks
      BY <1>0, <1>1, <3>1, PublishedType, ReducedDenotesTheSame DEF Published
    <3>3. Collected'
      BY <1>1, <3>1, <3>2 DEF Followed, Collected, AddrsOf
    <3> QED BY <3>1, <3>2, <3>3 DEF Rest, FetchedIsValid, Control
  <2> QED BY <2>1, <2>2
<1>6. CASE FetchCommonCrawl
  <2>1. CASE Fail
    BY <2>1, BeginRest
  <2>2. CASE ~Fail
    <3>1. /\ Followed' /\ Followed /\ Urls' = Urls /\ source' = source /\ steady' = steady
          /\ offered' = offered /\ Refreshing /\ source = "commonCrawl" /\ loop' = "verify"
          /\ fetched' = {n \in official[1] : n \cap IPv4 = {}}
          /\ pending' = Published(1) \cap IPv4 /\ Invalid \notin official[1]
          /\ looking' = looking /\ excluded' = excluded /\ confirmed' = confirmed
      BY <1>6, <2>2, GoOn DEF FetchCommonCrawl, ghosts, Refreshing
    <3>2. fetched' \subseteq Networks
      BY <1>0, <1>1, <3>1, PublishedType
    <3>3. /\ AddrsOf(fetched') \cap IPv4 = {}
          /\ AddrsOf(fetched') \subseteq Published(1)
      BY <3>1 DEF AddrsOf, Published
    <3>4. Published(1) \subseteq AddrsOf(fetched') \cup pending'
      BY <1>0, <1>1, <3>1, PublishedType, NetworksAssumption DEF AddrsOf, Published
    <3>5. looking' = None
      BY <1>6, <3>1 DEF FetchCommonCrawl, Inv, Collected
    <3>6. Collected'
      BY <1>1, <3>1, <3>3, <3>4, <3>5 DEF Followed, Collected, AddrsOf
    <3> QED BY <3>1, <3>2, <3>6 DEF Rest, FetchedIsValid, Control
  <2> QED BY <2>1, <2>2
<1>7. CASE VerifyNext
  <2>1. CASE Fail
    BY <2>1, BeginRest
  <2>2. CASE ~Fail
    <3>1. /\ Followed' /\ Followed /\ Urls' = Urls /\ source' = source /\ steady' = steady
          /\ offered' = offered /\ excluded' = excluded /\ confirmed' = confirmed
          /\ loop = "verify" /\ loop' = "verify" /\ fetched' = fetched /\ Refreshing
      BY <1>7, <2>2, GoOn DEF VerifyNext, ghosts, Refreshing
    <3>2. PICK a \in pending : looking' = a /\ pending' = pending \ {a} /\ looking = None
      BY <1>7, <2>2 DEF VerifyNext
    <3>3. pending' \cup {looking'} = pending /\ None \notin pending
      BY <1>0, <3>2, NetworksAssumption
    <3>4. None \notin steady[1]
      BY <1>0, <1>1, NetworksAssumption DEF TypeOK
    <3>5. Collected'
      BY <3>1, <3>2, <3>3, <3>4 DEF Inv, Collected, Refreshing
    <3> QED BY <3>1, <3>5 DEF Inv, Rest, FetchedIsValid, Control
  <2> QED BY <2>1, <2>2
<1>8. CASE LookupConfirms
  <2>1. /\ Followed' /\ Followed /\ Urls' = Urls /\ source' = source /\ steady' = steady
        /\ offered' = offered /\ excluded' = excluded /\ confirmed' = confirmed
        /\ loop = "verify" /\ loop' = "verify" /\ fetched' = fetched \cup {{looking}}
        /\ Refreshing /\ looking \in zone /\ looking' = None /\ pending' = pending
        /\ looking # None
    BY <1>8, GoOn DEF LookupConfirms, ghosts, Refreshing
  <2>2. {looking} \in Networks /\ {looking} # Invalid
    BY <1>0, <1>8, NetworksAssumption DEF LookupConfirms
  <2>3. AddrsOf(fetched') = AddrsOf(fetched) \cup {looking}
    <3>1. AddrsOf({{looking}}) = {looking}
      BY <2>2 DEF AddrsOf
    <3> QED BY <2>1, <3>1, AddrsOfUnion
  <2>4. looking \in offered /\ looking \in confirmed
    BY <2>1 DEF Inv, Collected, Followed
  <2>5. Collected'
    BY <2>1, <2>3, <2>4 DEF Inv, Collected, Refreshing
  <2> QED BY <2>1, <2>2, <2>5 DEF Inv, Rest, FetchedIsValid, Control
<1>9. CASE LookupFails
  <2>1. /\ Followed' /\ Followed /\ Urls' = Urls /\ source' = source /\ steady' = steady
        /\ offered' = offered /\ excluded' = excluded \cup {looking} /\ confirmed' = confirmed
        /\ loop = "verify" /\ loop' = "verify" /\ fetched' = fetched
        /\ Refreshing /\ looking' = None /\ pending' = pending /\ looking # None
    BY <1>9, GoOn DEF LookupFails, Refreshing
  <2>2. Collected'
    BY <2>1 DEF Inv, Collected, Refreshing
  <2> QED BY <2>1, <2>2 DEF Inv, Rest, FetchedIsValid, Control
<1>10. CASE Verified
  <2>1. /\ Followed' /\ Followed /\ Urls' = Urls /\ source' = source /\ steady' = steady
        /\ offered' = offered /\ excluded' = excluded /\ confirmed' = confirmed
        /\ loop = "verify" /\ loop' = "lock" /\ fetched' = Reduced(fetched)
        /\ Refreshing /\ looking = None /\ pending = {} /\ source = "commonCrawl"
    BY <1>10, GoOn DEF Verified, ghosts, Refreshing, Inv, Control
  <2>2. AddrsOf(fetched') = AddrsOf(fetched) /\ fetched' \subseteq Networks
    BY <1>0, <2>1, ReducedDenotesTheSame
  <2>3. None \notin steady[1]
    <3>1. steady[1] \subseteq Addresses
      BY <1>0, <1>1 DEF TypeOK
    <3> QED BY <3>1, NetworksAssumption
  <2>4. steady[1] \subseteq AddrsOf(fetched) \cup excluded
    BY <2>1, <2>3 DEF Inv, Collected
  <2>5. Collected'
    BY <1>1, <2>1, <2>2, <2>4 DEF Inv, Collected, Refreshing
  <2> QED BY <2>1, <2>2, <2>5 DEF Rest, FetchedIsValid, Control
<1> QED BY <1>2, <1>3, <1>4, <1>5, <1>6, <1>7, <1>8, <1>9, <1>10 DEF RefreshStepOnly, Start

\* Replacing the list and looking addresses up.
LEMMA ListRest ==
    ASSUME Inv,
           LockList \/ AppendNetwork \/ UnlockList \/ \E c \in Clients : ReadLock(c) \/ Search(c)
    PROVE  Rest'
<1> USE DEF Rest, FetchedIsValid, Control
<1>1. CASE LockList \/ AppendNetwork \/ UnlockList
  <2>1. loop' \in {"write", "wait"}
    BY <1>1 DEF LockList, AppendNetwork, UnlockList, refreshVars
  <2>2. Followed' /\ Collected'
    BY <2>1 DEF Followed, Collected, Refreshing
  <2> QED BY <1>1, <2>1, <2>2
        DEF LockList, AppendNetwork, UnlockList, refreshVars, readerVars, Inv
<1>2. ASSUME NEW c \in Clients, ReadLock(c) \/ Search(c) PROVE Rest'
  <2>1. /\ UNCHANGED <<refreshVars, source, cidrs, official, zone, ghosts>>
        /\ loop = "write" => reading' = {}
    BY <1>2 DEF ReadLock, Search, contextVars, environment, Inv
  <2>2. Followed'
    BY <2>1 DEF Inv, Followed, Refreshing, refreshVars, ghosts, Urls, Published, AddrsOf
  <2>3. Collected'
    BY <2>1 DEF Inv, Collected, Refreshing, refreshVars, ghosts, Urls, AddrsOf
  <2> QED BY <2>1, <2>2, <2>3 DEF Inv, refreshVars
<1> QED BY <1>1, <1>2

\* What happens around them.
LEMMA EnvironmentRest ==
    ASSUME Inv, Cancel \/ Expire \/ Environment \/ UNCHANGED vars
    PROVE  Rest'
<1>1. /\ UNCHANGED <<loop, next, fetched, pending, looking, source, cidrs, reading, excluded>>
      /\ Urls' = Urls
  BY DEF Cancel, Expire, Environment, EditZone, NetChanges, Publish, vars, refreshVars,
         contextVars, readerVars, ghosts, Urls
<1>2. FetchedIsValid' /\ Control'
  BY <1>1 DEF Inv, FetchedIsValid, Control
<1>3. CASE Cancel \/ Expire \/ NetChanges \/ UNCHANGED vars
  <2>1. UNCHANGED <<official, zone, ghosts>>
    BY <1>3 DEF Cancel, Expire, NetChanges, vars, environment
  <2>2. Followed'
    BY <1>1, <2>1 DEF Inv, Followed, Refreshing, ghosts, Published, AddrsOf
  <2>3. Collected'
    BY <1>1, <2>1 DEF Inv, Collected, Refreshing, ghosts, AddrsOf
  <2> QED BY <1>2, <2>2, <2>3 DEF Rest
<1>4. CASE EditZone
  <2>1. /\ UNCHANGED <<official, offered, steady>>
        /\ Refreshing => confirmed' = confirmed \cup zone'
    BY <1>4 DEF EditZone
  <2>2. Followed'
    BY <1>1, <2>1 DEF Inv, Followed, Refreshing, Published, AddrsOf
  <2>3. Collected'
    BY <1>1, <2>1 DEF Inv, Collected, Refreshing, AddrsOf
  <2> QED BY <1>2, <2>2, <2>3 DEF Rest
<1>5. ASSUME NEW u \in Urls, Publish(u) PROVE Rest'
  <2>1. /\ UNCHANGED <<zone, confirmed>>
        /\ Refreshing => offered' = offered \cup Published(u)'
        /\ steady' = [steady EXCEPT ![u] = @ \cap Published(u)']
        /\ \A v \in Urls : v # u => Published(v)' = Published(v)
    BY <1>5 DEF Publish, Inv, TypeOK, Published
  <2>2. steady' \in [Urls -> SUBSET Addresses] /\ \A v \in Urls : steady'[v] \subseteq steady[v]
    BY <2>1 DEF Inv, TypeOK
  <2>3. Followed'
    <3> SUFFICES ASSUME Refreshing PROVE Followed'
      BY <1>1 DEF Followed, Refreshing
    <3>1. /\ \A v \in Urls : Published(v) \subseteq offered /\ steady[v] \subseteq Published(v)
          /\ zone \subseteq confirmed
      BY DEF Inv, Followed
    <3> QED BY <1>1, <2>1, <3>1 DEF Inv, TypeOK, Followed
  <2>4. offered \subseteq offered' \/ ~Refreshing
    BY <2>1
  <2>5. Collected'
    BY <1>1, <2>1, <2>2, <2>4, UrlsAssumption DEF Inv, Collected, Refreshing, Urls, AddrsOf
  <2> QED BY <1>2, <2>3, <2>5 DEF Rest
<1> QED BY <1>3, <1>4, <1>5 DEF Environment

-----------------------------------------------------------------------------
\* Nothing has been collected when the instance starts.
LEMMA InvInit == Init => Inv
BY TypeInit DEF Init, Inv, FetchedIsValid, Control, Followed, Collected, Refreshing

\* Every step keeps the invariant.
LEMMA InvStep == Inv /\ [Next]_vars => Inv'
<1>1. Inv /\ [Next]_vars => Rest'
  BY RefreshRest, ListRest, EnvironmentRest DEF Next, RefreshStep, RefreshStepOnly
<1> QED BY <1>1, TypeStep DEF Inv, Rest

\* The invariant of the lists.
LEMMA InvCorrect == Spec => []Inv
BY InvInit, InvStep, PTL DEF Spec

\* All variables of the lists keep their types (module CrawlerRanges, TypeOK).
THEOREM TypeCorrect == Spec => []TypeOK
BY InvCorrect, PTL DEF Inv

-----------------------------------------------------------------------------
\* Only the step that locks the list for writing changes it for handlers.
LEMMA ListChanges ==
    ASSUME Inv, [Next]_vars
    PROVE  \/ /\ LockList /\ Replaced
              /\ List' = AddrsOf(fetched)
           \/ ~LockList /\ ~Replaced /\ List' = List
<1> USE DEF List, Replaced
<1>1. CASE LockList
  BY <1>1 DEF LockList
<1>2. CASE ~LockList /\ RefreshStepOnly
  <2>1. loop # "write" /\ loop' # "write" /\ cidrs' = cidrs
    BY <1>2 DEF RefreshStepOnly, Start, RefreshAgain, Exit, FetchFails, FetchGoogle,
                FetchUptimeRobot, FetchCommonCrawl, VerifyNext, LookupConfirms, LookupFails,
                Verified, BeginRefresh, Fail, Goto
  <2> QED BY <1>2, <2>1
<1>3. CASE ~LockList /\ (AppendNetwork \/ UnlockList)
  BY <1>3 DEF AppendNetwork, UnlockList, refreshVars
<1>4. CASE ~LockList /\ \E c \in Clients : ReadLock(c) \/ Search(c)
  BY <1>4 DEF ReadLock, Search, refreshVars
<1>5. CASE ~LockList /\ (Cancel \/ Expire \/ Environment \/ UNCHANGED vars)
  BY <1>5 DEF Cancel, Expire, Environment, EditZone, NetChanges, Publish, vars, refreshVars
<1> QED BY <1>1, <1>2, <1>3, <1>4, <1>5 DEF Next, RefreshStep, RefreshStepOnly

\* Handlers see nothing on the list that was not published, and for Common Crawl
\* confirmed, during the last refresh that came through, whatever failed meanwhile
\* and however the lookups were answered (google.go, commoncrawl.go).
THEOREM ListCorrect == Spec => ListIsRecent
<1> DEFINE Recent ==
      /\ List' # List => Replaced
      /\ Replaced => /\ List' \subseteq offered
                     /\ source = "commonCrawl" => List' \cap IPv4 \subseteq confirmed
<1>1. Inv /\ [Next]_vars => [Recent]_vars
  <2> SUFFICES ASSUME Inv, [Next]_vars PROVE Recent
    OBVIOUS
  <2>1. Replaced => /\ AddrsOf(fetched) \subseteq offered
                    /\ source = "commonCrawl" => AddrsOf(fetched) \cap IPv4 \subseteq confirmed
    BY DEF Inv, Collected, Replaced, Refreshing
  <2>2. CASE Replaced
    <3>1. List' = AddrsOf(fetched)
      BY <2>2, ListChanges
    <3> QED BY <2>1, <2>2, <3>1
  <2>3. CASE ~Replaced
    BY <2>3, ListChanges
  <2> QED BY <2>2, <2>3
<1> QED BY <1>1, InvCorrect, PTL DEF Spec, ListIsRecent

\* What one URL published during a whole refresh gets onto the list, unless its
\* lookup failed: no URL is skipped, no network is reduced away (google.go).
THEOREM NothingLost == Spec => NothingIsLost
<1> DEFINE Kept == Replaced => (UNION {steady[u] : u \in Urls}) \ excluded \subseteq List'
<1>1. Inv /\ [Next]_vars => [Kept]_vars
  <2> SUFFICES ASSUME Inv, [Next]_vars, Replaced PROVE Kept
    OBVIOUS
  <2>1. \A u \in Urls : steady[u] \subseteq AddrsOf(fetched) \cup excluded
    BY DEF Inv, Collected, Replaced
  <2> QED BY <2>1, ListChanges
<1> QED BY <1>1, InvCorrect, PTL DEF Spec, NothingIsLost

-----------------------------------------------------------------------------
\* A lookup under the read lock finds what is on the list.
LEMMA SearchFinds ==
    ASSUME Inv, NEW c \in Clients, Search(c)
    PROVE  (\E n \in cidrs : c \in n) = (c \in List)
<1>1. loop # "write" /\ cidrs \subseteq Networks
  BY DEF Search, Inv, Control, TypeOK
<1> DEFINE found == \E n \in cidrs : c \in n
           listed == c \in List
<1>2. found \in BOOLEAN /\ listed \in BOOLEAN /\ (found <=> listed)
  BY <1>1, NetworksAssumption DEF List, AddrsOf
<1> HIDE DEF found, listed
<1>3. found = listed
  BY <1>2
<1> QED BY <1>3 DEF found, listed

\* The goroutine and the handlers keep the promise of module PublishedList: the
\* list is replaced as a whole, whatever the readers do (google.go, mu).
THEOREM Refinement == Spec => Promise!Spec
<1>1. Init => Promise!Init
  BY DEF Init, Promise!Init, List, AddrsOf
<1>2. Inv /\ [Next]_vars => [Promise!Next]_(Promise!vars)
  <2> SUFFICES ASSUME Inv, [Next]_vars PROVE Promise!Next \/ UNCHANGED Promise!vars
    BY DEF Promise!vars
  <2>1. CASE LockList
    <3>1. List' \subseteq Addresses
      BY <2>1, ListChanges, AddrsOfType DEF Inv, TypeOK
    <3> QED BY <2>1, <3>1 DEF LockList, readerVars, Promise!Next, Promise!Replace
  <2>2. ASSUME NEW c \in Clients, ReadLock(c) PROVE Promise!Next
    <3>1. List' = List
      BY <2>2 DEF ReadLock, refreshVars, List
    <3> QED BY <2>2, <3>1 DEF ReadLock, Promise!Next, Promise!Ask
  <2>3. ASSUME NEW c \in Clients, Search(c) PROVE Promise!Next
    <3>1. List' = List
      BY <2>3 DEF Search, refreshVars, List
    <3>2. answer' = [answer EXCEPT ![c] = c \in List]
      <4> DEFINE found == \E n \in cidrs : c \in n
      <4>1. answer' = [answer EXCEPT ![c] = found]
        BY <2>3 DEF Search
      <4>2. found = (c \in List)
        BY <2>3, SearchFinds
      <4> HIDE DEF found
      <4> QED BY <4>1, <4>2
    <3> QED BY <2>3, <3>1, <3>2 DEF Search, Promise!Next, Promise!Answer
  <2>4. CASE ~LockList /\ ~ \E c \in Clients : ReadLock(c) \/ Search(c)
    <3>1. List' = List
      BY <2>4, ListChanges
    <3>2. UNCHANGED readerVars
      BY <2>4 DEF Next, RefreshStep, Start, RefreshAgain, Exit, FetchFails, FetchGoogle,
                  FetchUptimeRobot, FetchCommonCrawl, VerifyNext, LookupConfirms, LookupFails,
                  Verified, BeginRefresh, Fail, Goto, AppendNetwork, UnlockList,
                  Cancel, Expire, Environment, EditZone, NetChanges, Publish, vars
    <3> QED BY <3>1, <3>2 DEF readerVars, Promise!vars
  <2> QED BY <2>1, <2>2, <2>3, <2>4
<1> QED BY <1>1, <1>2, InvCorrect, PTL DEF Spec, Promise!Spec
=============================================================================
