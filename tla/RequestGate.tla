----------------------------- MODULE RequestGate -----------------------------
(***************************************************************************)
(* Who is challenged: ServeHTTP, shouldApply, the route predicates and     *)
(* isGoodBot of main.go, and IsIpGoodBotContext of internal/helper/ip.go.  *)
(* Handlers of several requests run concurrently; they share the caches    *)
(* and wait for DNS, whose zones change meanwhile.                         *)
(*                                                                         *)
(* A route is the set of the paths that it matches in the configured mode. *)
(***************************************************************************)
EXTENDS Integers, FiniteSets

CONSTANTS
    Requests,          \* requests that are handled at the same time
    Clients,           \* client addresses, as getClientIP returns them
    Sessions,          \* session tokens
    None,
    Hostnames,
    GoodHosts,         \* the hostnames that matchesGoodBotDomain accepts
    SessionMode,       \* VerificationMode = "session"
    ProtectParameters,
    EnabledLists,      \* the published lists that the configuration uses
    Exempt,            \* the addresses in exemptIps
    Paths,
    ProtectRoutes,
    ExcludeRoutes,
    Extensions,        \* the paths that isExtensionProtected accepts
    Traffic,           \* the requests that are made
    Window,            \* TTL of both caches, in ticks
    MaxLag             \* bound on the ticks between the answer of DNS and its use

Crawlers == {"commonCrawl", "googlebot"}
Lists == Crawlers \cup {"uptimeRobot"}

ASSUME SetsAssumption ==
    /\ GoodHosts \subseteq Hostnames
    /\ None \notin Sessions
    /\ EnabledLists \subseteq Lists
    /\ Exempt \subseteq Clients
    /\ ProtectRoutes \subseteq SUBSET Paths
    /\ ExcludeRoutes \subseteq SUBSET Paths
    /\ Extensions \subseteq Paths
    /\ Traffic \subseteq [client : Clients, cookie : Sessions \cup {None}, params : BOOLEAN,
                          protectedMethod : BOOLEAN, exemptAgent : BOOLEAN, path : Paths]
ASSUME NumbersAssumption == Window \in Nat \ {0} /\ MaxLag \in Nat
ASSUME SwitchAssumption == {SessionMode, ProtectParameters} \subseteq BOOLEAN

VARIABLES
    ptr,       \* environment: the reverse zone, in the hands of the address owner
    fwd,       \* environment: the forward zone, in the hands of the domain owner
    ranges,    \* the published address lists, as they were refreshed last; a
               \* list that the configuration does not use stays empty
    verified,  \* verifiedCache: ticks left
    botCache,  \* botCache: the verdict and the ticks left
    pc,        \* where the handler of each request is
    req,       \* its request
    served,    \* what came of it
    names,     \* hostnames from LookupAddr that are still to be resolved
    verdict,   \* the result of the lookup
    age,       \* ghost: ticks since the forward zone last confirmed the client
    lag,       \* ghost: ticks while a positive verdict was in a handler
    covered    \* ghost: has the request been verified ever since it arrived?

zones == <<ptr, fwd, ranges, age>>
caches == <<verified, botCache, lag>>
handlers == <<pc, req, served, names, verdict, covered>>
vars == <<zones, caches, handlers>>

Keys == IF SessionMode THEN Sessions ELSE Clients
Oldest == Window + MaxLag + 1
NoVerdict == [good |-> FALSE, left |-> 0]
Confirmed(c, zone) == \E h \in GoodHosts : c \in zone[h]
Pcs == {"idle", "gate", "cache", "addr", "ip", "store", "rest"} \cup Lists

TypeOK ==
    /\ ptr \in [Clients -> SUBSET Hostnames]
    /\ fwd \in [Hostnames -> SUBSET Clients]
    /\ ranges \in [Lists -> SUBSET Clients]
    /\ verified \in [Keys -> 0 .. Window]
    /\ botCache \in [Clients -> [good : BOOLEAN, left : 0 .. Window]]
    /\ pc \in [Requests -> Pcs]
    /\ req \in [Requests -> Traffic \cup {None}]
    /\ served \in [Requests -> {"nothing", "site", "challenge"}]
    /\ names \in [Requests -> SUBSET GoodHosts]
    /\ verdict \in [Requests -> BOOLEAN]
    /\ age \in [Clients -> 0 .. Oldest]
    /\ lag \in 0 .. MaxLag
    /\ covered \in [Requests -> BOOLEAN]

\* No address is confirmed by a domain owner before the zones say so.
Init ==
    /\ ptr = [c \in Clients |-> {}]
    /\ fwd = [h \in Hostnames |-> {}]
    /\ ranges = [l \in Lists |-> {}]
    /\ verified = [k \in Keys |-> 0]
    /\ botCache = [c \in Clients |-> NoVerdict]
    /\ pc = [r \in Requests |-> "idle"]
    /\ req = [r \in Requests |-> None]
    /\ served = [r \in Requests |-> "nothing"]
    /\ names = [r \in Requests |-> {}]
    /\ verdict = [r \in Requests |-> FALSE]
    /\ age = [c \in Clients |-> Oldest]
    /\ lag = 0
    /\ covered = [r \in Requests |-> FALSE]

Goto(r, l) == pc' = [pc EXCEPT ![r] = l]
Client(r) == req[r].client

\* The key of verifiedCache that shouldApply looks up.
KeyOf(q) == IF SessionMode THEN q.cookie ELSE q.client
IsVerified(q) == KeyOf(q) \in Keys /\ verified[KeyOf(q)] > 0

RouteIsProtected(path) ==
    /\ \E route \in ProtectRoutes : path \in route
    /\ ~ \E route \in ExcludeRoutes : path \in route
    /\ path \in Extensions

-----------------------------------------------------------------------------
Arrive(r, q) ==
    /\ pc[r] = "idle"
    /\ req' = [req EXCEPT ![r] = q]
    /\ covered' = [covered EXCEPT ![r] = IsVerified(q)]
    /\ served' = [served EXCEPT ![r] = "nothing"]
    /\ Goto(r, "gate")
    /\ UNCHANGED <<zones, caches, names, verdict>>

\* The request goes to the next handler of Traefik ("site"), or the visitor gets
\* the challenge or the redirect to it.
Finish(r, outcome) ==
    /\ Goto(r, "idle")
    /\ served' = [served EXCEPT ![r] = outcome]
    /\ verdict' = [verdict EXCEPT ![r] = FALSE]
    /\ covered' = [covered EXCEPT ![r] = FALSE]
    /\ req' = [req EXCEPT ![r] = None]
    /\ UNCHANGED <<zones, caches, names>>

Pass(r) == Finish(r, "site")

Continue(r, l) ==
    /\ Goto(r, l)
    /\ UNCHANGED <<zones, caches, req, served, names, verdict, covered>>

\* Mutant: the bots are looked up before the visitors who are verified.
GateExemptFirst(r) ==
    /\ pc[r] = "gate"
    /\ IF ~req[r].protectedMethod \/ Client(r) \in Exempt
       THEN Pass(r)
       ELSE Continue(r, "uptimeRobot")

\* shouldApply up to isGoodBot.
Gate(r) ==
    /\ pc[r] = "gate"
    /\ IF ~req[r].protectedMethod \/ IsVerified(req[r]) \/ Client(r) \in Exempt
       THEN Pass(r)
       ELSE Continue(r, "uptimeRobot")

\* isGoodBot: the published lists, one after the other, each under its own lock.
CheckList(r, l, next) ==
    /\ pc[r] = l
    /\ IF Client(r) \in ranges[l] THEN Pass(r) ELSE Continue(r, next)

\* Mutant: requests with parameters are treated like the others.
CheckUptimeRobotOnly(r) == CheckList(r, "uptimeRobot", "commonCrawl")

\* A request with parameters is denied what follows the list of UptimeRobot.
CheckUptimeRobot(r) ==
    CheckList(r, "uptimeRobot",
              IF ProtectParameters /\ req[r].params THEN "rest" ELSE "commonCrawl")

CheckCrawlers(r) ==
    \/ CheckList(r, "commonCrawl", "googlebot")
    \/ CheckList(r, "googlebot", "cache")

\* Mutant: an entry that is missing reads as a negative verdict.
CheckBotCacheMissing(r) ==
    /\ pc[r] = "cache"
    /\ IF botCache[Client(r)].good THEN Pass(r) ELSE Continue(r, "rest")

\* botCache.Get: an unexpired verdict, or the lookup begins.
CheckBotCache(r) ==
    /\ pc[r] = "cache"
    /\ LET cached == botCache[Client(r)]
       IN  IF cached.left = 0 THEN Continue(r, "addr")
           ELSE IF cached.good THEN Pass(r) ELSE Continue(r, "rest")

\* A lookup is over: isGoodBot will store the verdict and return it.
Conclude(r, good) ==
    /\ verdict' = [verdict EXCEPT ![r] = good]
    /\ names' = [names EXCEPT ![r] = {}]
    /\ Goto(r, "store")
    /\ UNCHANGED <<zones, caches, req, served, covered>>

\* LookupAddr: hostnames outside of the good domains are skipped.
LookupAddr(r) ==
    /\ pc[r] = "addr"
    /\ LET found == ptr[Client(r)] \cap GoodHosts
       IN  IF found = {}
           THEN Conclude(r, FALSE)
           ELSE /\ names' = [names EXCEPT ![r] = found]
                /\ Goto(r, "ip")
                /\ UNCHANGED <<zones, caches, req, served, verdict, covered>>

\* Mutant: a hostname in a good domain is believed.
LookupIPTrusting(r) ==
    /\ pc[r] = "ip"
    /\ Conclude(r, TRUE)

Drop(r, h) ==
    IF names[r] = {h} THEN Conclude(r, FALSE)
    ELSE /\ names' = [names EXCEPT ![r] = @ \ {h}]
         /\ UNCHANGED <<zones, caches, pc, req, served, verdict, covered>>

\* One LookupIP: the hostname resolves to the client, or the next is tried.
LookupIP(r) ==
    /\ pc[r] = "ip"
    /\ \E h \in names[r] : IF Client(r) \in fwd[h] THEN Conclude(r, TRUE) ELSE Drop(r, h)

\* DNS errs, or goodBotLookupTimeout ends, or the client goes away.
LookupFails(r) ==
    \/ pc[r] = "addr" /\ Conclude(r, FALSE)
    \/ pc[r] = "ip" /\ \E h \in names[r] : Drop(r, h)

\* botCache.Set.  The verdict of a concurrent request is overwritten.
StoreVerdict(r) ==
    /\ pc[r] = "store"
    /\ botCache' = [botCache EXCEPT ![Client(r)] = [good |-> verdict[r], left |-> Window]]
    /\ Goto(r, "rest")
    /\ UNCHANGED <<zones, verified, lag, req, served, names, verdict, covered>>

\* isGoodBot returns the verdict; the end of shouldApply and of ServeHTTP.
Decide(r) ==
    /\ pc[r] = "rest"
    /\ IF verdict[r] \/ req[r].exemptAgent \/ ~RouteIsProtected(req[r].path)
       THEN Pass(r)
       ELSE Finish(r, "challenge")

-----------------------------------------------------------------------------
\* verifyChallengePage grants the key of a visitor (module Challenge).
Verify(k) ==
    /\ verified' = [verified EXCEPT ![k] = Window]
    /\ UNCHANGED <<zones, botCache, lag, handlers>>

\* Environment: the owners of addresses and domains edit their zones.
EditPtr ==
    /\ \E c \in Clients, s \in SUBSET Hostnames : ptr' = [ptr EXCEPT ![c] = s]
    /\ UNCHANGED <<fwd, ranges, age, caches, handlers>>

EditFwd ==
    /\ \E h \in Hostnames, s \in SUBSET Clients : fwd' = [fwd EXCEPT ![h] = s]
    /\ age' = [c \in Clients |-> IF Confirmed(c, fwd') THEN 0 ELSE age[c]]
    /\ UNCHANGED <<ptr, ranges, caches, handlers>>

\* A refresh replaces a list under its mutex.
Refresh(l) ==
    /\ \E s \in SUBSET Clients : ranges' = [ranges EXCEPT ![l] = s]
    /\ UNCHANGED <<ptr, fwd, age, caches, handlers>>

Storing == \E r \in Requests : verdict[r]

\* Mutant: what is expired goes on counting.
LessThanZero(n) == n - 1

Less(n) == IF n > 0 THEN n - 1 ELSE 0

Tick ==
    /\ Storing => lag < MaxLag
    /\ lag' = IF Storing THEN lag + 1 ELSE lag
    /\ verified' = [k \in Keys |-> Less(verified[k])]
    /\ botCache' = [c \in Clients |-> IF botCache[c].left > 1
                                      THEN [botCache[c] EXCEPT !.left = @ - 1] ELSE NoVerdict]
    /\ age' = [c \in Clients |-> IF Confirmed(c, fwd) THEN 0
                                 ELSE IF age[c] < Oldest THEN age[c] + 1 ELSE Oldest]
    /\ covered' = [r \in Requests |-> covered[r] /\ verified'[KeyOf(req[r])] > 0]
    /\ UNCHANGED <<ptr, fwd, ranges, pc, req, served, names, verdict>>

Handle(r) ==
    \/ Gate(r) \/ CheckUptimeRobot(r) \/ CheckCrawlers(r) \/ CheckBotCache(r)
    \/ LookupAddr(r) \/ LookupIP(r) \/ LookupFails(r) \/ StoreVerdict(r) \/ Decide(r)

Environment == EditPtr \/ EditFwd \/ \E l \in EnabledLists : Refresh(l)

Next ==
    \/ Tick \/ Environment
    \/ \E k \in Keys : Verify(k)
    \/ \E r \in Requests : Handle(r) \/ \E q \in Traffic : Arrive(r, q)

Spec == Init /\ [][Next]_vars

\* Handlers end, visitors come again, verdicts expire, and DNS does not fail
\* every time: a lookup that finds the client, if tried for ever, ends some time.
Fairness ==
    /\ WF_vars(Tick)
    /\ \A r \in Requests :
         /\ WF_vars(Handle(r)) /\ WF_vars(\E q \in Traffic : Arrive(r, q))
         /\ SF_vars(LookupAddr(r)) /\ SF_vars(LookupIP(r) /\ verdict'[r])

FairSpec == Spec /\ Fairness

-----------------------------------------------------------------------------
\* A positive verdict is younger than it looks by no more than the time it took
\* to store it: the forward zone confirmed the client when the lookup ended,
\* whatever the reverse zone says and whatever concurrent requests stored.
BotVerdictsWereConfirmed ==
    \A c \in Clients : botCache[c].good => age[c] <= Window - botCache[c].left + lag

Justified(r) ==
    LET q == req[r] IN
    \/ ~q.protectedMethod \/ ~RouteIsProtected(q.path)
    \/ IsVerified(q)
    \/ q.client \in Exempt \/ q.exemptAgent
    \/ q.client \in ranges["uptimeRobot"]
    \/ /\ ~(ProtectParameters /\ q.params)
       /\ (\E l \in Crawlers : q.client \in ranges[l]) \/ age[q.client] < Window + lag

\* A request that should be challenged passes only if its visitor is verified,
\* exempt or listed at that time, or is a bot that its domain owner confirmed
\* less than a window ago (plus the time that handlers kept the answer).
PassesAreJustified ==
    [][\A r \in Requests :
         pc[r] # "idle" /\ served[r] = "nothing" /\ served'[r] = "site" => Justified(r)]_vars

\* A visitor whose verification does not expire while the request is handled is
\* not challenged, whatever the bot cache and DNS say.
VerifiedAreNotChallenged ==
    [][\A r \in Requests : served[r] = "nothing" /\ served'[r] = "challenge" => ~covered[r]]_vars

\* A bot that keeps coming gets in again and again once its zones are right: no
\* verdict from before, and no failed lookup, shuts it out for good.
ConfirmedBotsGetIn ==
    \A c \in Clients :
      <>[](\E h \in GoodHosts : h \in ptr[c] /\ c \in fwd[h])
        => []<><<\E r \in Requests :
                  pc[r] # "idle" /\ Client(r) = c /\ served'[r] = "site">>_vars
=============================================================================
