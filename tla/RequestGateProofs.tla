-------------------------- MODULE RequestGateProofs --------------------------
(***************************************************************************)
(* Proofs about RequestGate, for every set of requests in flight, clients, *)
(* sessions, hostnames, lists and routes, and every window.                *)
(***************************************************************************)
EXTENDS RequestGate, TLAPS

\* A handler that runs has a request.
HandlersHaveRequests == \A r \in Requests : pc[r] # "idle" => req[r] \in Traffic

\* The visitors who are verified do not get past the gate.
CoveredAreAtTheGate ==
    \A r \in Requests : covered[r] => pc[r] = "gate" /\ IsVerified(req[r])

\* A hostname is resolved only if it is in a good domain, and a verdict is held
\* only between the lookup and the decision, for a confirmed client.
VerdictsAreConfirmed ==
    \A r \in Requests :
      verdict[r] => pc[r] \in {"store", "rest"} /\ age[Client(r)] <= lag

\* The ghost knows what the forward zones say now.
ZonesConfirm == \A c \in Clients : Confirmed(c, fwd) => age[c] = 0

\* Requests with parameters get neither to the lists of crawlers nor to the bot
\* cache nor to a lookup.
ParametersAreDenied ==
    \A r \in Requests :
      pc[r] \in Crawlers \cup {"cache", "addr", "ip", "store"} \/ verdict[r]
        => ~(ProtectParameters /\ req[r].params)

\* What the invariant says beyond the types.
Strengthening ==
    /\ HandlersHaveRequests
    /\ CoveredAreAtTheGate
    /\ VerdictsAreConfirmed
    /\ ZonesConfirm
    /\ ParametersAreDenied
    /\ BotVerdictsWereConfirmed

Inv == TypeOK /\ Strengthening

-----------------------------------------------------------------------------
\* The parts of a request.
LEMMA TrafficFacts ==
    ASSUME NEW q \in Traffic
    PROVE  /\ q.client \in Clients /\ q.cookie \in Sessions \cup {None}
           /\ q.params \in BOOLEAN
BY SetsAssumption

\* The bounds are numbers, and the window is not empty.
LEMMA NumberFacts ==
    /\ Window \in Nat /\ Window > 0 /\ MaxLag \in Nat /\ Oldest \in Nat /\ Oldest > Window
    /\ 0 \in 0 .. Window /\ Window \in 0 .. Window
    /\ 0 \in 0 .. Oldest /\ Oldest \in 0 .. Oldest /\ 0 \in 0 .. MaxLag
BY NumbersAssumption DEF Oldest

\* Every variable keeps its type.
LEMMA TypeStep == TypeOK /\ HandlersHaveRequests /\ [Next]_vars => TypeOK'
<1> SUFFICES ASSUME TypeOK, HandlersHaveRequests, [Next]_vars PROVE TypeOK'
  OBVIOUS
<1> USE DEF TypeOK, Pcs, Lists, Crawlers, Goto
<1>1. CASE Tick
  <2>1. verified' \in [Keys -> 0 .. Window]
    BY <1>1, NumberFacts DEF Tick, Less
  <2>2. botCache' \in [Clients -> [good : BOOLEAN, left : 0 .. Window]]
    <3>1. \A c \in Clients : botCache[c].left > 1 =>
            [botCache[c] EXCEPT !.left = @ - 1] \in [good : BOOLEAN, left : 0 .. Window]
      BY NumberFacts
    <3> QED BY <1>1, <3>1, NumberFacts DEF Tick, NoVerdict
  <2>3. age' \in [Clients -> 0 .. Oldest] /\ lag' \in 0 .. MaxLag
    BY <1>1, NumberFacts DEF Tick
  <2>4. covered' \in [Requests -> BOOLEAN]
    BY <1>1, Zenon DEF Tick
  <2> QED BY <1>1, <2>1, <2>2, <2>3, <2>4 DEF Tick
<1>2. CASE Environment
  <2>1. CASE EditPtr
    BY <2>1 DEF EditPtr, caches, handlers
  <2>2. CASE EditFwd
    BY <2>2, NumberFacts DEF EditFwd, caches, handlers
  <2>3. ASSUME NEW l \in EnabledLists, Refresh(l) PROVE TypeOK'
    BY <2>3 DEF Refresh, caches, handlers
  <2> QED BY <1>2, <2>1, <2>2, <2>3 DEF Environment
<1>3. ASSUME NEW k \in Keys, Verify(k) PROVE TypeOK'
  BY <1>3, NumberFacts DEF Verify, zones, handlers
<1>4. ASSUME NEW r \in Requests, NEW q \in Traffic, Arrive(r, q) PROVE TypeOK'
  <2>1. IsVerified(q) \in BOOLEAN
    BY Zenon DEF IsVerified
  <2> QED BY <1>4, <2>1 DEF Arrive, zones, caches
<1>5. ASSUME NEW r \in Requests, NEW o \in {"site", "challenge"}, Finish(r, o) PROVE TypeOK'
  BY <1>5 DEF Finish, zones, caches
<1>6. ASSUME NEW r \in Requests, NEW l \in Pcs, Continue(r, l) PROVE TypeOK'
  BY <1>6 DEF Continue, zones, caches
<1>7. ASSUME NEW r \in Requests, NEW good \in BOOLEAN, Conclude(r, good) PROVE TypeOK'
  BY <1>7 DEF Conclude, zones, caches
<1>8. ASSUME NEW r \in Requests, NEW h \in names[r], Drop(r, h) PROVE TypeOK'
  <2>1. CASE Conclude(r, FALSE)
    BY <1>7, <2>1
  <2>2. CASE /\ names' = [names EXCEPT ![r] = @ \ {h}]
             /\ UNCHANGED <<zones, caches, pc, req, served, verdict, covered>>
    BY <2>2 DEF zones, caches
  <2> QED BY <1>8, <2>1, <2>2 DEF Drop
<1>9. ASSUME NEW r \in Requests, Handle(r) PROVE TypeOK'
  <2>1. CASE Gate(r) \/ CheckBotCache(r) \/ Decide(r)
    BY <2>1, <1>5, <1>6 DEF Gate, CheckBotCache, Decide, Pass
  <2>5. CASE CheckUptimeRobot(r) \/ CheckCrawlers(r)
    BY <2>5, <1>5, <1>6 DEF CheckUptimeRobot, CheckCrawlers, CheckList, Pass
  <2>2. CASE LookupAddr(r)
    <3>1. CASE Conclude(r, FALSE)
      BY <1>7, <3>1
    <3>2. CASE names' = [names EXCEPT ![r] = ptr[Client(r)] \cap GoodHosts]
      BY <2>2, <1>7, <3>2 DEF LookupAddr, zones, caches
    <3> QED BY <2>2, <3>1, <3>2 DEF LookupAddr
  <2>3. CASE LookupIP(r) \/ LookupFails(r)
    BY <2>3, <1>7, <1>8 DEF LookupIP, LookupFails
  <2>4. CASE StoreVerdict(r)
    <3>1. [good |-> verdict[r], left |-> Window] \in [good : BOOLEAN, left : 0 .. Window]
      BY NumberFacts
    <3> QED BY <2>4, <3>1 DEF StoreVerdict, zones
  <2> QED BY <1>9, <2>1, <2>2, <2>3, <2>4, <2>5 DEF Handle
<1>10. CASE UNCHANGED vars
  BY <1>10 DEF vars, zones, caches, handlers
<1> QED BY <1>1, <1>2, <1>3, <1>4, <1>9, <1>10 DEF Next
\* The variables start in their types.
LEMMA TypeInit == Init => TypeOK
<1> SUFFICES ASSUME Init PROVE TypeOK
  OBVIOUS
<1>1. botCache \in [Clients -> [good : BOOLEAN, left : 0 .. Window]]
  BY NumberFacts DEF Init, NoVerdict
<1>2. verified \in [Keys -> 0 .. Window] /\ age \in [Clients -> 0 .. Oldest] /\ lag \in 0 .. MaxLag
  BY NumberFacts DEF Init
<1> QED BY <1>1, <1>2 DEF Init, TypeOK, Pcs, Lists, Crawlers

-----------------------------------------------------------------------------
\* Time: what is confirmed and what is stored grow older together.
LEMMA TickStep == Inv /\ Tick => Strengthening'
<1> SUFFICES ASSUME Inv, Tick PROVE Strengthening'
  OBVIOUS
<1> USE DEF Inv, Strengthening
<1>1. UNCHANGED <<fwd, pc, req, verdict>>
  BY DEF Tick
<1>2. HandlersHaveRequests' /\ ParametersAreDenied'
  BY <1>1 DEF HandlersHaveRequests, ParametersAreDenied
<1>3. CoveredAreAtTheGate'
  <2> SUFFICES ASSUME NEW r \in Requests, covered'[r]
               PROVE  pc'[r] = "gate" /\ IsVerified(req[r])'
    BY DEF CoveredAreAtTheGate
  <2>1. covered[r] /\ verified'[KeyOf(req[r])] > 0
    BY DEF Tick
  <2> QED BY <1>1, <2>1 DEF CoveredAreAtTheGate, IsVerified, KeyOf
<1>4. ASSUME NEW c \in Clients
      PROVE  /\ age[c] \in Nat /\ lag \in Nat /\ age'[c] \in Nat
             /\ age'[c] <= age[c] + 1
             /\ Confirmed(c, fwd) => age'[c] = 0
  BY NumberFacts DEF Tick, TypeOK
<1>5. ZonesConfirm'
  BY <1>1, <1>4 DEF ZonesConfirm, Confirmed
<1>6. VerdictsAreConfirmed'
  <2> SUFFICES ASSUME NEW r \in Requests, verdict'[r]
               PROVE  pc'[r] \in {"store", "rest"} /\ age'[Client(r)'] <= lag'
    BY DEF VerdictsAreConfirmed
  <2>1. pc[r] \in {"store", "rest"} /\ age[Client(r)] <= lag
    BY <1>1 DEF VerdictsAreConfirmed
  <2>2. Client(r) \in Clients /\ Client(r)' = Client(r)
    BY <1>1, <2>1, TrafficFacts DEF HandlersHaveRequests, Client
  <2>3. lag' = lag + 1
    BY <1>1 DEF Tick, Storing
  <2> QED BY <1>1, <1>4, <2>1, <2>2, <2>3
<1>7. BotVerdictsWereConfirmed'
  <2> SUFFICES ASSUME NEW c \in Clients, botCache'[c].good
               PROVE  age'[c] <= Window - botCache'[c].left + lag'
    BY DEF BotVerdictsWereConfirmed
  <2>1. botCache[c].good /\ botCache[c].left \in Int /\ botCache'[c].left = botCache[c].left - 1
    <3>1. botCache[c].left > 1 /\ botCache'[c] = [botCache[c] EXCEPT !.left = @ - 1]
      BY DEF Tick, NoVerdict
    <3> QED BY <3>1, NumberFacts DEF TypeOK
  <2>2. lag' \in Nat /\ lag' >= lag
    BY <1>4 DEF Tick
  <2>3. age[c] <= Window - botCache[c].left + lag
    BY <2>1 DEF BotVerdictsWereConfirmed
  <2> QED BY <1>4, <2>1, <2>2, <2>3, NumberFacts
<1> QED BY <1>2, <1>3, <1>5, <1>6, <1>7

\* The environment, and visitors who are verified elsewhere.
LEMMA EnvironmentStep ==
    ASSUME Inv, Environment \/ (\E k \in Keys : Verify(k)) \/ UNCHANGED vars
    PROVE  Strengthening'
<1> USE DEF Inv, Strengthening
<1>1. UNCHANGED <<pc, req, verdict, covered, botCache, lag>>
  BY DEF Environment, EditPtr, EditFwd, Refresh, Verify, vars, caches, handlers
<1>2. HandlersHaveRequests' /\ ParametersAreDenied'
  BY <1>1 DEF HandlersHaveRequests, ParametersAreDenied
<1>3. CoveredAreAtTheGate'
  <2>1. \A k \in Keys : verified[k] > 0 => verified'[k] > 0
    <3>1. ASSUME NEW k \in Keys, Verify(k) PROVE \A l \in Keys : verified[l] > 0 => verified'[l] > 0
      BY <3>1, NumberFacts DEF Verify, TypeOK
    <3>2. CASE UNCHANGED verified
      BY <3>2
    <3> QED BY <3>1, <3>2 DEF Environment, EditPtr, EditFwd, Refresh, vars, caches
  <2> QED BY <1>1, <2>1 DEF CoveredAreAtTheGate, IsVerified, KeyOf
<1>4. ZonesConfirm' /\ \A c \in Clients : age'[c] = age[c] \/ age'[c] = 0
  <2>1. CASE EditFwd
    BY <2>1 DEF EditFwd, ZonesConfirm, TypeOK
  <2>2. CASE UNCHANGED <<fwd, age>>
    BY <2>2 DEF ZonesConfirm, Confirmed
  <2> QED BY <2>1, <2>2 DEF Environment, EditPtr, Refresh, Verify, vars, zones
<1>5. VerdictsAreConfirmed'
  <2> SUFFICES ASSUME NEW r \in Requests, verdict'[r]
               PROVE  pc'[r] \in {"store", "rest"} /\ age'[Client(r)'] <= lag'
    BY DEF VerdictsAreConfirmed
  <2>1. pc[r] \in {"store", "rest"} /\ age[Client(r)] <= lag
    BY <1>1 DEF VerdictsAreConfirmed
  <2>2. Client(r) \in Clients /\ Client(r)' = Client(r)
    BY <1>1, <2>1, TrafficFacts DEF HandlersHaveRequests, Client
  <2>3. age'[Client(r)] <= lag
    BY <1>4, <2>1, <2>2, NumberFacts DEF TypeOK
  <2> QED BY <1>1, <2>1, <2>2, <2>3
<1>6. BotVerdictsWereConfirmed'
  <2> SUFFICES ASSUME NEW c \in Clients, botCache[c].good
               PROVE  age'[c] <= Window - botCache[c].left + lag
    BY <1>1 DEF BotVerdictsWereConfirmed
  <2>1. /\ botCache[c].left \in 0 .. Window /\ lag \in Nat
        /\ age[c] <= Window - botCache[c].left + lag
    BY NumberFacts DEF TypeOK, BotVerdictsWereConfirmed
  <2> QED BY <1>4, <2>1, NumberFacts
<1> QED BY <1>2, <1>3, <1>4, <1>5, <1>6
-----------------------------------------------------------------------------
\* What the invariant says of one request.
HandlerInv(r) ==
    /\ pc[r] # "idle" => req[r] \in Traffic
    /\ covered[r] => pc[r] = "gate" /\ IsVerified(req[r])
    /\ verdict[r] => pc[r] \in {"store", "rest"} /\ age[Client(r)] <= lag
    /\ pc[r] \in Crawlers \cup {"cache", "addr", "ip", "store"} \/ verdict[r]
         => ~(ProtectParameters /\ req[r].params)

\* The invariant speaks of one request at a time, but for zones and bot cache.
LEMMA HandlersApart ==
    Strengthening <=> /\ \A r \in Requests : HandlerInv(r)
                      /\ ZonesConfirm /\ BotVerdictsWereConfirmed
BY DEF Strengthening, HandlerInv, HandlersHaveRequests, CoveredAreAtTheGate,
       VerdictsAreConfirmed, ParametersAreDenied

\* Only the handler of r moves, and neither zones nor verifications change.
Alone(r) ==
    /\ UNCHANGED <<zones, verified, lag>>
    /\ \A s \in Requests \ {r} :
         /\ pc'[s] = pc[s] /\ req'[s] = req[s]
         /\ verdict'[s] = verdict[s] /\ covered'[s] = covered[s]

\* The other requests keep what is said of them.
LEMMA Bystander ==
    ASSUME NEW r \in Requests, Alone(r), NEW s \in Requests \ {r}, HandlerInv(s)
    PROVE  HandlerInv(s)'
BY DEF Alone, HandlerInv, IsVerified, KeyOf, Client, zones

\* The steps of a handler, one lemma for each kind: what it does to the request,
\* and that it leaves the others alone.
LEMMA FinishStep ==
    ASSUME TypeOK, NEW r \in Requests, NEW o, Finish(r, o)
    PROVE  HandlerInv(r)' /\ Alone(r) /\ UNCHANGED botCache
BY DEF TypeOK, Finish, Goto, HandlerInv, Crawlers, Alone, zones, caches

\* The handler goes on to the next check, ...
LEMMA ContinueStep ==
    ASSUME TypeOK, NEW r \in Requests, HandlerInv(r), pc[r] # "idle",
           NEW l \in {"uptimeRobot", "commonCrawl", "googlebot", "cache", "addr", "rest"},
           Continue(r, l), ~covered[r], ~verdict[r],
           l \notin {"uptimeRobot", "rest"} => ~(ProtectParameters /\ req[r].params)
    PROVE  HandlerInv(r)' /\ Alone(r) /\ UNCHANGED botCache
BY DEF TypeOK, Continue, Goto, HandlerInv, Crawlers, Alone, zones, caches

\* ... ends its lookup, ...
LEMMA ConcludeStep ==
    ASSUME TypeOK, NEW r \in Requests, HandlerInv(r), pc[r] \in {"addr", "ip"},
           NEW good \in BOOLEAN, Conclude(r, good), good => age[Client(r)] <= lag
    PROVE  HandlerInv(r)' /\ Alone(r) /\ UNCHANGED botCache
BY DEF TypeOK, Conclude, Goto, HandlerInv, Crawlers, Alone, Client, zones, caches

\* ... or gives up one hostname.
LEMMA DropStep ==
    ASSUME TypeOK, NEW r \in Requests, HandlerInv(r), pc[r] = "ip",
           NEW h \in names[r], Drop(r, h)
    PROVE  HandlerInv(r)' /\ Alone(r) /\ UNCHANGED botCache
<1>1. CASE Conclude(r, FALSE)
  BY <1>1, ConcludeStep
<1>2. CASE UNCHANGED <<zones, caches, pc, req, served, verdict, covered>>
  BY <1>2 DEF HandlerInv, Alone, Client, IsVerified, KeyOf, zones, caches
<1> QED BY <1>1, <1>2 DEF Drop

\* Every step of a handler, the answer of DNS and its storing included.
LEMMA HandlerStep ==
    ASSUME Inv, NEW r \in Requests, Handle(r)
    PROVE  HandlerInv(r)' /\ Alone(r) /\ BotVerdictsWereConfirmed'
<1>1. TypeOK /\ HandlerInv(r) /\ ZonesConfirm /\ BotVerdictsWereConfirmed
  BY HandlersApart DEF Inv
<1>2. CASE StoreVerdict(r)
  <2>1. HandlerInv(r)' /\ Alone(r)
    BY <1>1, <1>2 DEF TypeOK, StoreVerdict, Goto, HandlerInv, Crawlers, Alone, Client, zones
  <2>2. BotVerdictsWereConfirmed'
    <3> SUFFICES ASSUME NEW c \in Clients, botCache'[c].good
                 PROVE  age'[c] <= Window - botCache'[c].left + lag'
      BY DEF BotVerdictsWereConfirmed
    <3>1. UNCHANGED <<age, lag>>
      BY <1>2 DEF StoreVerdict, zones
    <3>2. CASE c = Client(r)
      <4>1. verdict[r] /\ botCache'[c].left = Window
        BY <1>1, <1>2, <3>2 DEF StoreVerdict, TypeOK
      <4>2. age[c] <= lag /\ age[c] \in Int /\ lag \in Int
        BY <1>1, <3>2, <4>1, NumberFacts DEF HandlerInv, TypeOK
      <4> QED BY <3>1, <4>1, <4>2, NumberFacts
    <3>3. CASE c # Client(r)
      <4>1. botCache'[c] = botCache[c]
        BY <1>1, <1>2, <3>3 DEF StoreVerdict, TypeOK
      <4> QED BY <1>1, <3>1, <4>1 DEF BotVerdictsWereConfirmed
    <3> QED BY <3>2, <3>3
  <2> QED BY <2>1, <2>2
<1>3. CASE ~StoreVerdict(r)
  <2> SUFFICES HandlerInv(r)' /\ Alone(r) /\ UNCHANGED botCache
    BY <1>1 DEF BotVerdictsWereConfirmed, Alone, zones
  <2>1. CASE Gate(r)
    \* A visitor who has been verified since the request arrived passes here.
    <3>1. Pass(r) \/ (Continue(r, "uptimeRobot") /\ ~covered[r] /\ ~verdict[r])
      BY <1>1, <2>1 DEF Gate, HandlerInv
    <3> QED BY <1>1, <2>1, <3>1, FinishStep, ContinueStep DEF Gate, Pass
  <2>2. CASE CheckUptimeRobot(r)
    <3>1. ~covered[r] /\ ~verdict[r] /\ pc[r] # "idle"
      BY <1>1, <2>2 DEF CheckUptimeRobot, CheckList, HandlerInv
    <3>2. CASE Pass(r)
      BY <1>1, <3>2, FinishStep DEF Pass
    <3>3. CASE ProtectParameters /\ req[r].params /\ Continue(r, "rest")
      BY <1>1, <3>1, <3>3, ContinueStep
    <3>4. CASE ~(ProtectParameters /\ req[r].params) /\ Continue(r, "commonCrawl")
      BY <1>1, <3>1, <3>4, ContinueStep
    <3> QED BY <2>2, <3>2, <3>3, <3>4 DEF CheckUptimeRobot, CheckList
  <2>8. CASE CheckCrawlers(r)
    <3>1. /\ ~covered[r] /\ ~verdict[r] /\ pc[r] # "idle"
          /\ ~(ProtectParameters /\ req[r].params)
      BY <1>1, <2>8 DEF CheckCrawlers, CheckList, HandlerInv, Crawlers
    <3>2. CASE Pass(r)
      BY <1>1, <3>2, FinishStep DEF Pass
    <3>3. CASE Continue(r, "googlebot") \/ Continue(r, "cache")
      BY <1>1, <3>1, <3>3, ContinueStep
    <3> QED BY <2>8, <3>2, <3>3 DEF CheckCrawlers, CheckList
  <2>3. CASE CheckBotCache(r)
    <3>1. ~covered[r] /\ ~verdict[r] /\ ~(ProtectParameters /\ req[r].params)
      BY <1>1, <2>3 DEF CheckBotCache, HandlerInv
    <3> QED BY <1>1, <2>3, <3>1, FinishStep, ContinueStep DEF CheckBotCache, Pass
  <2>4. CASE LookupAddr(r)
    <3>1. CASE Conclude(r, FALSE)
      BY <1>1, <2>4, <3>1, ConcludeStep DEF LookupAddr
    <3>2. CASE ~Conclude(r, FALSE)
      BY <1>1, <2>4, <3>2
         DEF LookupAddr, TypeOK, Goto, HandlerInv, Crawlers, Alone, Client, zones, caches
    <3> QED BY <3>1, <3>2
  <2>5. CASE LookupIP(r)
    <3>1. PICK h \in names[r] :
            IF Client(r) \in fwd[h] THEN Conclude(r, TRUE) ELSE Drop(r, h)
      BY <2>5 DEF LookupIP
    <3>2. CASE Client(r) \in fwd[h]
      \* The forward zone lists the client now.
      <4>1. Client(r) \in Clients /\ h \in GoodHosts
        BY <1>1, <2>5, TrafficFacts DEF LookupIP, HandlerInv, Client, TypeOK
      <4>2. age[Client(r)] = 0
        BY <1>1, <3>2, <4>1 DEF ZonesConfirm, Confirmed
      <4>3. age[Client(r)] <= lag
        BY <1>1, <4>2, NumberFacts DEF TypeOK
      <4> QED BY <1>1, <2>5, <3>1, <3>2, <4>3, ConcludeStep DEF LookupIP
    <3>3. CASE Client(r) \notin fwd[h]
      BY <1>1, <2>5, <3>1, <3>3, DropStep DEF LookupIP
    <3> QED BY <3>2, <3>3
  <2>6. CASE LookupFails(r)
    BY <1>1, <2>6, ConcludeStep, DropStep DEF LookupFails
  <2>7. CASE Decide(r)
    BY <1>1, <2>7, FinishStep DEF Decide, Pass
  <2> QED BY <1>3, <2>1, <2>2, <2>3, <2>4, <2>5, <2>6, <2>7, <2>8 DEF Handle
<1> QED BY <1>2, <1>3

\* A request that arrives starts with nothing but its verification.
LEMMA ArriveStep ==
    ASSUME Inv, NEW r \in Requests, NEW q \in Traffic, Arrive(r, q)
    PROVE  HandlerInv(r)' /\ Alone(r) /\ BotVerdictsWereConfirmed'
<1>1. TypeOK /\ HandlerInv(r) /\ BotVerdictsWereConfirmed
  BY HandlersApart DEF Inv
<1>2. Alone(r) /\ UNCHANGED botCache
  BY <1>1 DEF TypeOK, Arrive, Goto, Alone, zones, caches
<1>3. pc'[r] = "gate" /\ req'[r] = q /\ covered'[r] = IsVerified(q) /\ ~verdict'[r]
  BY <1>1 DEF TypeOK, Arrive, Goto, HandlerInv
<1>4. IsVerified(q)' = IsVerified(q)
  BY <1>2 DEF Alone, IsVerified, KeyOf
<1>5. HandlerInv(r)'
  BY <1>3, <1>4 DEF HandlerInv, Crawlers, IsVerified, KeyOf
<1>6. BotVerdictsWereConfirmed'
  BY <1>1, <1>2 DEF BotVerdictsWereConfirmed, Alone, zones
<1> QED BY <1>2, <1>5, <1>6

\* Every step keeps the invariant.
LEMMA InvStep == Inv /\ [Next]_vars => Inv'
<1> SUFFICES ASSUME Inv, [Next]_vars PROVE Inv'
  OBVIOUS
<1>1. TypeOK'
  BY TypeStep DEF Inv, Strengthening
<1>2. CASE Tick \/ Environment \/ (\E k \in Keys : Verify(k)) \/ UNCHANGED vars
  BY <1>1, <1>2, TickStep, EnvironmentStep DEF Inv
<1>3. ASSUME NEW r \in Requests, Handle(r) \/ \E q \in Traffic : Arrive(r, q) PROVE Inv'
  <2>1. HandlerInv(r)' /\ Alone(r) /\ BotVerdictsWereConfirmed'
    BY <1>3, HandlerStep, ArriveStep
  <2>2. \A s \in Requests : HandlerInv(s)'
    BY <2>1, Bystander, HandlersApart DEF Inv
  <2>3. ZonesConfirm'
    BY <2>1, HandlersApart DEF Inv, Alone, zones, ZonesConfirm, Confirmed
  <2>4. Strengthening'
    BY <2>1, <2>2, <2>3 DEF Strengthening, HandlerInv, HandlersHaveRequests, CoveredAreAtTheGate,
       VerdictsAreConfirmed, ParametersAreDenied
  <2> QED BY <1>1, <2>4 DEF Inv
<1> QED BY <1>2, <1>3 DEF Next
\* The invariant holds at the start.
LEMMA InvInit == Init => Inv
<1> SUFFICES ASSUME Init PROVE Inv
  OBVIOUS
<1>1. TypeOK
  BY TypeInit
<1>2. \A r \in Requests : HandlerInv(r)
  BY DEF Init, HandlerInv, Crawlers
<1>3. ZonesConfirm
  BY SetsAssumption DEF Init, ZonesConfirm, Confirmed
<1>4. BotVerdictsWereConfirmed
  BY DEF Init, NoVerdict, BotVerdictsWereConfirmed
<1> QED BY <1>1, <1>2, <1>3, <1>4, HandlersApart DEF Inv

\* The inductive invariant holds.
THEOREM Invariant == Spec => []Inv
BY InvInit, InvStep, PTL DEF Spec

\* Caches, handlers and zones are in their types in every reachable state; in
\* particular every hostname that a handler resolves is in a good domain.
THEOREM TypeCorrect == Spec => []TypeOK
<1>1. Inv => TypeOK
  BY DEF Inv
<1> QED BY <1>1, Invariant, PTL

\* A cached positive verdict about a bot is backed by its domain owner, however
\* many requests look the same client up at once and overwrite the verdict.
THEOREM VerdictsCorrect == Spec => []BotVerdictsWereConfirmed
<1>1. Inv => BotVerdictsWereConfirmed
  BY DEF Inv, Strengthening
<1> QED BY <1>1, Invariant, PTL

-----------------------------------------------------------------------------
\* Only a handler answers a request.
LEMMA WhoAnswers ==
    ASSUME Inv, [Next]_vars, NEW r \in Requests,
           served[r] = "nothing", served'[r] \in {"site", "challenge"}
    PROVE  /\ \/ Gate(r) \/ CheckUptimeRobot(r) \/ CheckCrawlers(r)
              \/ CheckBotCache(r) \/ Decide(r)
           /\ Finish(r, served'[r])
<1> USE DEF Inv, TypeOK
<1>1. ASSUME NEW s \in Requests, NEW o \in {"site", "challenge"}, Finish(s, o)
      PROVE  s = r /\ o = served'[r]
  BY <1>1 DEF Finish
<1>2. ASSUME NEW s \in Requests, NEW l, Continue(s, l) PROVE FALSE
  BY <1>2 DEF Continue
<1>3. ASSUME NEW s \in Requests, NEW good, Conclude(s, good) PROVE FALSE
  BY <1>3 DEF Conclude
<1>4. ASSUME NEW s \in Requests, NEW h, Drop(s, h) PROVE FALSE
  BY <1>3, <1>4 DEF Drop
<1>5. ASSUME NEW s \in Requests, \/ Gate(s) \/ CheckUptimeRobot(s) \/ CheckCrawlers(s)
                                 \/ CheckBotCache(s) \/ Decide(s)
      PROVE  s = r /\ Finish(r, served'[r])
  BY <1>1, <1>2, <1>5 DEF Gate, CheckUptimeRobot, CheckCrawlers, CheckList, CheckBotCache, Decide, Pass
<1>6. ASSUME NEW s \in Requests,
             LookupAddr(s) \/ LookupIP(s) \/ LookupFails(s) \/ StoreVerdict(s)
      PROVE  FALSE
  BY <1>3, <1>4, <1>6 DEF LookupAddr, LookupIP, LookupFails, StoreVerdict
<1>7. ASSUME NEW s \in Requests, NEW q \in Traffic, Arrive(s, q) PROVE FALSE
  BY <1>7 DEF Arrive
<1>8. ~(Tick \/ Environment \/ (\E k \in Keys : Verify(k)) \/ UNCHANGED vars)
  BY DEF Tick, Environment, EditPtr, EditFwd, Refresh, Verify, vars, handlers
<1> QED BY <1>5, <1>6, <1>7, <1>8 DEF Next, Handle

\* No request gets past the gate without a recent reason: the visitor is
\* verified, exempt or listed, or a bot confirmed less than a window ago.
THEOREM PassesCorrect == Spec => PassesAreJustified
<1> DEFINE Kept ==
      \A r \in Requests :
        pc[r] # "idle" /\ served[r] = "nothing" /\ served'[r] = "site" => Justified(r)
<1>1. ASSUME Inv, [Next]_vars, NEW r \in Requests,
             pc[r] # "idle", served[r] = "nothing", served'[r] = "site"
      PROVE  Justified(r)
  <2>1. TypeOK /\ HandlerInv(r) /\ BotVerdictsWereConfirmed
    BY <1>1, HandlersApart DEF Inv
  <2>2. Client(r) \in Clients /\ age[Client(r)] \in Int /\ lag \in Int
    BY <1>1, <2>1, TrafficFacts, NumberFacts DEF HandlerInv, Client, TypeOK
  <2>3. /\ \/ Gate(r) \/ CheckUptimeRobot(r) \/ CheckCrawlers(r)
           \/ CheckBotCache(r) \/ Decide(r)
        /\ Finish(r, "site")
    BY <1>1, WhoAnswers
  <2>4. pc'[r] = "idle"
    BY <2>1, <2>3 DEF Finish, Goto, TypeOK
  <2>5. ASSUME NEW l \in Pcs \ {"idle"}, Continue(r, l) PROVE FALSE
    BY <2>1, <2>4, <2>5 DEF Continue, Goto, TypeOK
  <2>6. CASE Gate(r)
    <3>1. ~req[r].protectedMethod \/ IsVerified(req[r]) \/ Client(r) \in Exempt
      BY <2>5, <2>6 DEF Gate, Pcs, Lists, Crawlers
    <3> QED BY <3>1 DEF Justified, Client
  <2>7. CASE CheckUptimeRobot(r)
    <3>1. Client(r) \in ranges["uptimeRobot"]
      BY <2>5, <2>7 DEF CheckUptimeRobot, CheckList, Pcs, Lists, Crawlers
    <3> QED BY <3>1 DEF Justified, Client
  <2>10. CASE CheckCrawlers(r)
    <3>1. pc[r] \in Crawlers /\ Client(r) \in ranges[pc[r]]
      BY <2>5, <2>10 DEF CheckCrawlers, CheckList, Pcs, Lists, Crawlers
    <3>2. ~(ProtectParameters /\ req[r].params)
      BY <2>1, <3>1 DEF HandlerInv
    <3> QED BY <3>1, <3>2 DEF Justified, Client
  <2>8. CASE CheckBotCache(r)
    <3>1. botCache[Client(r)].good /\ botCache[Client(r)].left # 0
      BY <2>5, <2>8 DEF CheckBotCache, Pcs, Lists, Crawlers
    <3>2. botCache[Client(r)].left \in 1 .. Window
      BY <2>1, <2>2, <3>1, NumberFacts DEF TypeOK
    <3>3. age[Client(r)] < Window + lag
      BY <2>1, <2>2, <3>1, <3>2, NumberFacts DEF BotVerdictsWereConfirmed
    <3> QED BY <2>1, <2>8, <3>3 DEF CheckBotCache, HandlerInv, Justified, Client
  <2>9. CASE Decide(r)
    <3>1. CASE verdict[r]
      <4>1. age[Client(r)] < Window + lag
        BY <2>1, <2>2, <3>1, NumberFacts DEF HandlerInv
      <4> QED BY <2>1, <3>1, <4>1 DEF HandlerInv, Justified, Client
    <3>2. CASE req[r].exemptAgent \/ ~RouteIsProtected(req[r].path)
      BY <3>2 DEF Justified
    <3>3. CASE Finish(r, "challenge")
      BY <1>1, <2>1, <3>3 DEF Finish, TypeOK
    <3> QED BY <2>9, <3>1, <3>2, <3>3 DEF Decide
  <2> QED BY <2>3, <2>6, <2>7, <2>8, <2>9, <2>10
<1>2. Inv /\ [Next]_vars => [Kept]_vars
  BY <1>1
<1> QED BY <1>2, Invariant, PTL DEF Spec, PassesAreJustified

\* A visitor whose verification does not expire while the request is handled is
\* never challenged: verified visitors pass before anything else is looked at.
THEOREM VerifiedCorrect == Spec => VerifiedAreNotChallenged
<1> DEFINE Kept ==
      \A r \in Requests : served[r] = "nothing" /\ served'[r] = "challenge" => ~covered[r]
<1>1. ASSUME Inv, [Next]_vars, NEW r \in Requests,
             served[r] = "nothing", served'[r] = "challenge"
      PROVE  ~covered[r]
  <2>1. TypeOK /\ HandlerInv(r)
    BY <1>1, HandlersApart DEF Inv
  <2>2. \/ Gate(r) \/ CheckUptimeRobot(r) \/ CheckCrawlers(r)
        \/ CheckBotCache(r) \/ Decide(r)
    BY <1>1, WhoAnswers
  <2>3. CASE Gate(r)
    <3>1. ~Pass(r)
      BY <1>1, <2>1 DEF Pass, Finish, TypeOK
    <3>2. ~IsVerified(req[r])
      BY <2>3, <3>1 DEF Gate
    <3> QED BY <2>1, <3>2 DEF HandlerInv
  <2>4. CASE pc[r] # "gate"
    BY <2>1, <2>4 DEF HandlerInv
  <2> QED BY <2>2, <2>3, <2>4 DEF CheckUptimeRobot, CheckCrawlers, CheckList, CheckBotCache, Decide
<1>2. Inv /\ [Next]_vars => [Kept]_vars
  BY <1>1
<1> QED BY <1>2, Invariant, PTL DEF Spec, VerifiedAreNotChallenged
=============================================================================
