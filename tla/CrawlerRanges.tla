---------------------------- MODULE CrawlerRanges ----------------------------
(***************************************************************************)
(* One of the three crawler address lists: the goroutine that refreshes it *)
(* (googlebotIPCheckLoop, uptimeRobotIPCheckLoop, commonCrawlIPCheckLoop   *)
(* of main.go; google.go, uptimerobot.go and commoncrawl.go of             *)
(* internal/helper), the endpoints that it asks, and the handlers that     *)
(* look addresses up meanwhile.  The lists share nothing, so a behaviour   *)
(* is about one of them: source is chosen once.                            *)
(*                                                                         *)
(* A network is the set of its addresses; what CIDR notation does to it is *)
(* the matter of module Prefixes.                                          *)
(***************************************************************************)
EXTENDS Integers, FiniteSets

CONSTANTS
    Addresses,
    IPv4,        \* the IPv4 addresses among them
    Networks,    \* the networks that an endpoint may publish, or a list hold
    Invalid,     \* an entry that is no CIDR
    Answers,     \* what an endpoint may publish: sets of networks and Invalid
    GoogleUrls,  \* the number of GoogleCrawlerIPRangeURLs
    Clients,     \* the addresses that handlers look up
    None

ASSUME NetworksAssumption ==
    /\ IPv4 \subseteq Addresses /\ Clients \subseteq Addresses
    /\ None \notin Addresses
    /\ IsFiniteSet(Addresses)
    /\ Networks \subseteq SUBSET Addresses
    /\ \A n \in Networks : n \subseteq IPv4 \/ n \cap IPv4 = {}
    /\ \A a \in IPv4 : {a} \in Networks
    /\ Invalid \notin Networks
    /\ Answers \subseteq SUBSET (Networks \cup {Invalid})
ASSUME UrlsAssumption == GoogleUrls \in Nat \ {0}

Sources == {"google", "uptimeRobot", "commonCrawl"}

VARIABLES
    source,     \* which list this is
    loop,       \* where its goroutine is
    next,       \* the URL that is fetched
    fetched,    \* the networks of this refresh so far; in the end, of its result
    pending,    \* Common Crawl: the IPv4 addresses that are still to be verified
    looking,    \* Common Crawl: the address in IsIpGoodBotContext
    expired,    \* the deadline of the current request context has passed
    cancelled,  \* the context of the middleware instance is cancelled
    cidrs,      \* the field that mu protects
    reading,    \* the addresses that handlers look up under the read lock
    answer,     \* what Contains returned last, by address
    official,   \* environment: what each URL publishes
    zone,       \* environment: the IPv4 addresses that FCrDNS confirms
    netUp,      \* environment: do endpoints and DNS answer, and in time?
    offered,    \* ghost: the addresses published at some time since the refresh began
    steady,     \* ghost: by URL, those published all the time since then
    confirmed,  \* ghost: those that FCrDNS confirmed at some time since then
    excluded    \* ghost: those whose lookup failed

refreshVars == <<loop, next, fetched, pending, looking, expired>>
contextVars == <<source, cancelled>>
readerVars == <<reading, answer>>
environment == <<official, zone, netUp>>
ghosts == <<offered, steady, confirmed, excluded>>
vars == <<refreshVars, contextVars, cidrs, readerVars, environment, ghosts>>

Urls == IF source = "google" THEN 1 .. GoogleUrls ELSE {1}
AddrsOf(nets) == UNION (nets \ {Invalid})
Published(u) == AddrsOf(official[u])

Refreshing == loop \in {"fetch", "verify", "lock"}

\* The list as handlers may see it: while a writer holds mu, nobody sees cidrs.
List == AddrsOf(IF loop = "write" THEN fetched ELSE cidrs)

TypeOK ==
    /\ source \in Sources
    /\ loop \in {"start", "fetch", "verify", "lock", "write", "wait", "exited"}
    /\ next \in Urls
    /\ fetched \subseteq Networks \cup {Invalid}
    /\ pending \subseteq IPv4
    /\ looking \in IPv4 \cup {None}
    /\ {expired, cancelled, netUp} \subseteq BOOLEAN
    /\ cidrs \subseteq Networks
    /\ reading \subseteq Clients
    /\ answer \in [Clients -> BOOLEAN]
    /\ official \in [Urls -> Answers]
    /\ zone \subseteq IPv4
    /\ {offered, confirmed, excluded} \subseteq SUBSET Addresses
    /\ steady \in [Urls -> SUBSET Addresses]

Init ==
    /\ source \in Sources
    /\ loop = "start"
    /\ next = 1
    /\ fetched = {} /\ pending = {} /\ looking = None
    /\ expired = FALSE /\ cancelled = FALSE
    /\ cidrs = {}
    /\ reading = {}
    /\ answer = [c \in Clients |-> FALSE]
    /\ official \in [Urls -> Answers]
    /\ zone \in IF source = "commonCrawl" THEN SUBSET IPv4 ELSE {{}}
    /\ netUp \in BOOLEAN
    /\ offered = {} /\ confirmed = {} /\ excluded = {}
    /\ steady = [u \in Urls |-> {}]

-----------------------------------------------------------------------------
\* Mutant: entries that are no CIDR stay.
ReducedUnparsed(nets) ==
    {n \in nets : n = Invalid \/ ~ \E m \in nets \ {Invalid} : n \subseteq m /\ n # m}

\* ReduceCIDRs: what is no CIDR is skipped, networks that others cover go.
Reduced(nets) ==
    {n \in nets \ {Invalid} : ~ \E m \in nets \ {Invalid} : n \subseteq m /\ n # m}

\* The goroutine goes to l.
Goto(l) ==
    /\ loop' = l
    /\ UNCHANGED <<contextVars, cidrs, readerVars, environment>>

\* A refresh begins: no address has been collected, a new context starts.
BeginRefresh ==
    /\ Goto("fetch")
    /\ next' = 1
    /\ fetched' = {} /\ pending' = {} /\ looking' = None
    /\ expired' = FALSE
    /\ offered' = UNION {Published(u) : u \in Urls}
    /\ steady' = [u \in Urls |-> Published(u)]
    /\ confirmed' = zone
    /\ excluded' = {}

\* The first refresh, unless the instance is gone already.
Start ==
    /\ loop = "start"
    /\ IF cancelled
       THEN /\ Goto("exited")
            /\ UNCHANGED <<next, fetched, pending, looking, expired, ghosts>>
       ELSE BeginRefresh

\* select in the loop: a tick of the 24 hours, maybe of the time before, or the
\* end of the context.
RefreshAgain ==
    /\ loop = "wait"
    /\ BeginRefresh

\* What only matters during a refresh is not followed after it.
ForgetRefresh ==
    /\ next' = 1
    /\ expired' = FALSE
    /\ offered' = {} /\ confirmed' = {} /\ excluded' = {}
    /\ steady' = [u \in Urls |-> {}]

Exit ==
    /\ loop = "wait"
    /\ cancelled
    /\ Goto("exited")
    /\ UNCHANGED <<next, fetched, pending, looking, expired, ghosts>>

\* The refresh returns an error: the loop logs it and waits for the next tick.
Fail ==
    /\ Goto("wait")
    /\ fetched' = {} /\ pending' = {} /\ looking' = None
    /\ ForgetRefresh

\* Mutant: a URL that fails is skipped.
FetchFailsSkipping ==
    /\ loop = "fetch"
    /\ ~netUp \/ cancelled
    /\ IF next = Cardinality(Urls)
       THEN Goto("lock") /\ fetched' = Reduced(fetched) /\ UNCHANGED next
       ELSE Goto("fetch") /\ next' = next + 1 /\ UNCHANGED fetched
    /\ UNCHANGED <<pending, looking, expired, ghosts>>

\* Mutant: a refresh that fails starts over at once.
FetchFailsRetrying ==
    /\ loop = "fetch"
    /\ ~netUp \/ cancelled
    /\ BeginRefresh

\* No answer in time, a status other than 200, a body that cannot be decoded or
\* is too large, or the end of the context.
FetchFails ==
    /\ loop = "fetch"
    /\ ~netUp \/ cancelled
    /\ Fail

\* Google: one URL after the other, each with a context of its own.
FetchGoogle ==
    /\ loop = "fetch" /\ source = "google" /\ ~cancelled
    /\ LET all == fetched \cup official[next]
       IN  IF next = GoogleUrls
           THEN /\ Goto("lock")
                /\ fetched' = Reduced(all)
                /\ UNCHANGED next
           ELSE /\ Goto("fetch")
                /\ fetched' = all
                /\ next' = next + 1
    /\ UNCHANGED <<pending, looking, expired, ghosts>>

Acceptable(published) == published # {} /\ Invalid \notin published

\* UptimeRobot: one URL, which must publish something and nothing invalid.
FetchUptimeRobot ==
    /\ loop = "fetch" /\ source = "uptimeRobot" /\ ~cancelled
    /\ IF Acceptable(official[1])
       THEN /\ Goto("lock")
            /\ fetched' = Reduced(official[1])
            /\ UNCHANGED <<next, pending, looking, expired, ghosts>>
       ELSE Fail

\* Common Crawl: the same, but each IPv4 address is still to be verified.  The
\* code meets what is invalid between two lookups, and then forgets them all; it
\* accepts that nothing is published when there are entries that name no network.
FetchCommonCrawl ==
    /\ loop = "fetch" /\ source = "commonCrawl" /\ ~cancelled
    /\ \/ /\ Invalid \notin official[1]
          /\ Goto("verify")
          /\ fetched' = {n \in official[1] : n \cap IPv4 = {}}
          /\ pending' = Published(1) \cap IPv4
          /\ UNCHANGED <<next, looking, expired, ghosts>>
       \/ ~Acceptable(official[1]) /\ Fail

Overdue == expired \/ cancelled

\* ctx.Err() before each lookup.
VerifyNext ==
    /\ loop = "verify" /\ looking = None /\ pending # {}
    /\ IF Overdue THEN Fail
       ELSE /\ \E a \in pending : looking' = a /\ pending' = pending \ {a}
            /\ Goto("verify")
            /\ UNCHANGED <<next, fetched, expired, ghosts>>

\* IsIpGoodBotContext confirms the address.
LookupConfirms ==
    /\ loop = "verify" /\ looking # None
    /\ looking \in zone /\ ~Overdue
    /\ Goto("verify")
    /\ fetched' = fetched \cup {{looking}}
    /\ looking' = None
    /\ UNCHANGED <<next, pending, expired, ghosts>>

\* Mutant: the address is kept when DNS does not answer.
LookupFailsOpen ==
    /\ loop = "verify" /\ looking # None
    /\ looking \notin zone \/ ~netUp \/ Overdue
    /\ Goto("verify")
    /\ fetched' = fetched \cup {{looking}}
    /\ looking' = None
    /\ UNCHANGED <<next, pending, expired, ghosts>>

\* It does not, or DNS errs, or the deadline passes: the address is left out
\* with a warning.  After the last lookup nobody looks at the deadline.
LookupFails ==
    /\ loop = "verify" /\ looking # None
    /\ looking \notin zone \/ ~netUp \/ Overdue
    /\ Goto("verify")
    /\ excluded' = excluded \cup {looking}
    /\ looking' = None
    /\ UNCHANGED <<next, fetched, pending, expired, offered, steady, confirmed>>

Verified ==
    /\ loop = "verify" /\ looking = None /\ pending = {}
    /\ Goto("lock")
    /\ fetched' = Reduced(fetched)
    /\ UNCHANGED <<next, pending, looking, expired, ghosts>>

-----------------------------------------------------------------------------
\* Update: mu.Lock() waits for the readers; the list is emptied and filled again.
LockList ==
    /\ loop = "lock"
    /\ reading = {}
    /\ loop' = "write"
    /\ cidrs' = {}
    /\ ForgetRefresh
    /\ UNCHANGED <<fetched, pending, looking, contextVars, readerVars, environment>>

AppendNetwork ==
    /\ loop = "write"
    /\ \E n \in fetched \ cidrs : cidrs' = cidrs \cup {n}
    /\ UNCHANGED <<refreshVars, contextVars, readerVars, environment, ghosts>>

UnlockList ==
    /\ loop = "write"
    /\ cidrs = fetched
    /\ loop' = "wait"
    /\ fetched' = {}
    /\ UNCHANGED <<next, pending, looking, expired, contextVars, cidrs, readerVars,
                   environment, ghosts>>

\* Mutant: handlers take no lock.
ReadUnlocked(c) ==
    /\ c \notin reading
    /\ reading' = reading \cup {c}
    /\ UNCHANGED <<refreshVars, contextVars, cidrs, answer, environment, ghosts>>

\* Mutant: a writer that waits does not stop new readers.
ReadLockUnfair(c) ==
    /\ c \notin reading
    /\ loop # "write"
    /\ reading' = reading \cup {c}
    /\ UNCHANGED <<refreshVars, contextVars, cidrs, answer, environment, ghosts>>

\* Contains: mu.RLock() waits for a writer that holds mu or waits for it.
ReadLock(c) ==
    /\ c \notin reading
    /\ loop \notin {"lock", "write"}
    /\ reading' = reading \cup {c}
    /\ UNCHANGED <<refreshVars, contextVars, cidrs, answer, environment, ghosts>>

\* The networks are searched, the lock is released.
Search(c) ==
    /\ c \in reading
    /\ answer' = [answer EXCEPT ![c] = \E n \in cidrs : c \in n]
    /\ reading' = reading \ {c}
    /\ UNCHANGED <<refreshVars, contextVars, cidrs, environment, ghosts>>

-----------------------------------------------------------------------------
Cancel ==
    /\ cancelled' = TRUE
    /\ UNCHANGED <<refreshVars, source, cidrs, readerVars, environment,
                   ghosts>>

\* 30 seconds pass before DNS has answered for all addresses.  (If they pass
\* before an endpoint has answered, that is FetchFails.)
Expire ==
    /\ loop = "verify"
    /\ ~netUp
    /\ expired' = TRUE
    /\ UNCHANGED <<loop, next, fetched, pending, looking, contextVars, cidrs, readerVars,
                   environment, ghosts>>

\* Environment: a URL publishes something else.
Publish(u) ==
    /\ \E new \in Answers : official' = [official EXCEPT ![u] = new]
    /\ offered' = IF Refreshing THEN offered \cup AddrsOf(official'[u]) ELSE {}
    /\ steady' = [steady EXCEPT ![u] = @ \cap AddrsOf(official'[u])]
    /\ UNCHANGED <<refreshVars, contextVars, cidrs, readerVars, zone, netUp, confirmed,
                   excluded>>

\* Environment: the domain owner edits the zone of the crawler.
EditZone ==
    /\ source = "commonCrawl"
    /\ zone' \in SUBSET IPv4
    /\ confirmed' = IF Refreshing THEN confirmed \cup zone' ELSE {}
    /\ UNCHANGED <<refreshVars, contextVars, cidrs, readerVars, official, netUp, offered,
                   steady, excluded>>

\* Environment: the network, an endpoint or DNS breaks or works again.
NetChanges ==
    /\ netUp' = ~netUp
    /\ UNCHANGED <<refreshVars, contextVars, cidrs, readerVars, official, zone,
                   ghosts>>

RefreshStep ==
    \/ Start \/ RefreshAgain
    \/ FetchFails \/ FetchGoogle \/ FetchUptimeRobot \/ FetchCommonCrawl
    \/ VerifyNext \/ LookupConfirms \/ LookupFails \/ Verified
    \/ LockList \/ AppendNetwork \/ UnlockList

Environment == EditZone \/ NetChanges \/ \E u \in Urls : Publish(u)

Next ==
    \/ RefreshStep \/ Exit
    \/ Cancel \/ Expire \/ Environment
    \/ \E c \in Clients : ReadLock(c) \/ Search(c)

Spec == Init /\ [][Next]_vars

\* Goroutines go on, and the ticker ticks; select picks among ready cases at random.
Fairness ==
    /\ WF_vars(RefreshStep)
    /\ SF_vars(Exit)
    /\ \A c \in Clients : WF_vars(Search(c))

FairSpec == Spec /\ Fairness

-----------------------------------------------------------------------------
Replaced == loop = "lock" /\ loop' = "write"

\* Whatever comes onto the list was published at some time during the refresh,
\* and an IPv4 address of Common Crawl was confirmed by DNS in that time: nothing
\* comes from earlier refreshes, nothing is unverified.
ListIsRecent ==
    [][/\ List' # List => Replaced
       /\ Replaced => /\ List' \subseteq offered
                      /\ source = "commonCrawl" => List' \cap IPv4 \subseteq confirmed]_vars

\* What one URL published during the whole refresh gets onto the list, unless it
\* is an address of Common Crawl whose lookup failed: no URL is left out, and no
\* network goes that is not covered.
NothingIsLost ==
    [][Replaced => (UNION {steady[u] : u \in Urls}) \ excluded \subseteq List']_vars

\* Handlers see a list that is replaced as a whole, and are answered.
Promise == INSTANCE PublishedList WITH list <- List
ImplementsPublishedList == Promise!FairSpec

Due == (UNION {Published(u) : u \in Urls})
       \cap (IF source = "commonCrawl" THEN (Addresses \ IPv4) \cup zone ELSE Addresses)

\* Once endpoints and DNS stay up and publish the same for good, the list
\* becomes what they publish and stays so, whatever failed before and however
\* many handlers read it.
ListCatchesUp ==
    /\ <>[](netUp /\ ~cancelled /\ (source = "google" \/ Acceptable(official[1])))
    /\ <>[][FALSE]_<<official, zone>>
    => <>[](List = Due)

\* The goroutine of an instance that is dropped ends.
LoopEnds == cancelled ~> loop = "exited"
=============================================================================
