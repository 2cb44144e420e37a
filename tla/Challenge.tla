------------------------------ MODULE Challenge ------------------------------
(***************************************************************************)
(* Serving and verifying challenges (serveChallengePage and                *)
(* verifyChallengePage of main.go) while the circuit breaker opens and     *)
(* closes under the handlers.  A visitor stands for a verification key:    *)
(* a client IP, or the holder of a session cookie.                         *)
(***************************************************************************)
EXTENDS CircuitBreaker

CONSTANTS
    Visitors,
    Primary,   \* config.CaptchaProvider: "external" (siteverify) or "poj"
    Window,    \* config.Window, in ticks
    Hour       \* the TTL of a fallback verification, in ticks

ASSUME ChallengeAssumption ==
    /\ Primary \in {"external", "poj"}
    /\ HasFallback => Primary # "poj"
    /\ Window \in Nat \ {0} /\ Hour \in Nat \ {0}

VARIABLES
    page,      \* provider of the challenge page that each visitor looks at
    pc,        \* where the POST of each visitor is
    grant,     \* what its handler is about to store
    entry,     \* verifiedCache: ticks left, and the provider that granted it
    verifyUp   \* environment: does the siteverify endpoint work?

challengeVars == <<page, pc, grant, entry>>
vars == <<breakerVars, probeVars, challengeVars, verifyUp>>

Providers == {"external", "poj"}
NoGrant == [left |-> 0, by |-> "none"]
Longest == IF Window > Hour THEN Window ELSE Hour
Grants == [left : 0 .. Longest, by : Providers \cup {"none"}]

TypeOK ==
    /\ BreakerTypeOK
    /\ page \in [Visitors -> Providers \cup {"none"}]
    /\ pc \in [Visitors -> {"idle", "internal", "siteverify", "decode", "grant"}]
    /\ grant \in [Visitors -> Grants]
    /\ entry \in [Visitors -> Grants]
    /\ verifyUp \in BOOLEAN

Init ==
    /\ BreakerInit
    /\ page = [v \in Visitors |-> "none"]
    /\ pc = [v \in Visitors |-> "idle"]
    /\ grant = [v \in Visitors |-> NoGrant]
    /\ entry = [v \in Visitors |-> NoGrant]
    /\ verifyUp \in BOOLEAN

Goto(v, l) == pc' = [pc EXCEPT ![v] = l]

-----------------------------------------------------------------------------
\* getActiveCaptchaConfig, under bc.mu.
ActiveKey == IF HasFallback /\ circuitState = "open" THEN "poj" ELSE Primary

\* Mutant: a browser that has a page keeps it (the page may be cached).
ServePageOnce(v) ==
    /\ pc[v] = "idle"
    /\ page[v] = "none"
    /\ page' = [page EXCEPT ![v] = Primary]
    /\ UNCHANGED <<pc, grant, entry, verifyUp, breakerVars, probeVars>>

\* serveChallengePage: the widget of the provider that is active now.
ServePage(v) ==
    /\ pc[v] = "idle"
    /\ page' = [page EXCEPT ![v] = ActiveKey]
    /\ UNCHANGED <<pc, grant, entry, verifyUp, breakerVars, probeVars>>

\* verifyChallengePage begins: the form must carry the field of the provider
\* that is active now, which need not be the one of the page: 400.
PostForm(v) ==
    /\ pc[v] = "idle"
    /\ page[v] # "none"
    /\ page' = [page EXCEPT ![v] = "none"]
    /\ Goto(v, IF page[v] # ActiveKey THEN "idle"
               ELSE IF ActiveKey = "poj" THEN "internal" ELSE "siteverify")
    /\ UNCHANGED <<grant, entry, verifyUp, breakerVars, probeVars>>

\* Proof of javascript always succeeds.  Its TTL depends on circuitState, read
\* here a second time and without bc.mu: the data race may also yield the
\* "open" that getActiveCaptchaConfig saw under the mutex.
ChooseTTL(v) ==
    /\ pc[v] = "internal"
    /\ \E seen \in {circuitState} \cup (IF HasFallback THEN {"open"} ELSE {}) :
         grant' = [grant EXCEPT ![v] =
                     [left |-> IF seen = "open" THEN Hour ELSE Window, by |-> "poj"]]
    /\ Goto(v, "grant")
    /\ UNCHANGED <<page, entry, verifyUp, breakerVars, probeVars>>

\* There is no request, or it fails before there is a status, because of the
\* endpoint or because the client left (the request has the client's context):
\* 500, not recorded.
SiteverifyFails(v) ==
    /\ pc[v] = "siteverify"
    /\ Goto(v, "idle")
    /\ UNCHANGED <<page, grant, entry, verifyUp, breakerVars, probeVars>>

\* Mutant: every answer of siteverify counts as a failure.
SiteverifyAnswersCounted(v) ==
    /\ pc[v] = "siteverify"
    /\ RecordFailure
    /\ Goto(v, "decode")
    /\ UNCHANGED <<page, grant, entry, verifyUp, probeVars>>

\* The status of siteverify arrives: below 200 or from 500 on it is recorded as
\* a failed health check, and the body is decoded all the same.
SiteverifyAnswers(v) ==
    /\ pc[v] = "siteverify"
    /\ IF verifyUp THEN UNCHANGED breakerVars ELSE RecordFailure
    /\ Goto(v, "decode")
    /\ UNCHANGED <<page, grant, entry, verifyUp, probeVars>>

\* Mutant: every verification while the circuit is open lasts one hour.
AcceptForAnHour(v) ==
    /\ pc[v] = "decode"
    /\ grant' = [grant EXCEPT ![v] =
                   [left |-> IF circuitState = "open" THEN Hour ELSE Window, by |-> "external"]]
    /\ Goto(v, "grant")
    /\ UNCHANGED <<page, entry, verifyUp, breakerVars, probeVars>>

\* The body says success, and for Turnstile the hostname and the age fit.
Accept(v) ==
    /\ pc[v] = "decode"
    /\ grant' = [grant EXCEPT ![v] = [left |-> Window, by |-> "external"]]
    /\ Goto(v, "grant")
    /\ UNCHANGED <<page, entry, verifyUp, breakerVars, probeVars>>

\* 403, or 500 when the body is no JSON.
Reject(v) ==
    /\ pc[v] = "decode"
    /\ Goto(v, "idle")
    /\ UNCHANGED <<page, grant, entry, verifyUp, breakerVars, probeVars>>

\* verifiedCache.Set (and the cookie, in session mode), then 302.
Grant(v) ==
    /\ pc[v] = "grant"
    /\ entry' = [entry EXCEPT ![v] = grant[v]]
    /\ grant' = [grant EXCEPT ![v] = NoGrant]
    /\ Goto(v, "idle")
    /\ UNCHANGED <<page, verifyUp, breakerVars, probeVars>>

\* Session mode: there is no random number for the token: 500.
GrantFails(v) ==
    /\ pc[v] = "grant"
    /\ grant' = [grant EXCEPT ![v] = NoGrant]
    /\ Goto(v, "idle")
    /\ UNCHANGED <<page, entry, verifyUp, breakerVars, probeVars>>

-----------------------------------------------------------------------------
\* Mutant: entries never expire.
TickBelowZero ==
    /\ entry' = [v \in Visitors |-> [entry[v] EXCEPT !.left = @ - 1]]
    /\ UNCHANGED <<page, pc, grant, verifyUp, breakerVars, probeVars>>

\* Time passes for every cache entry.
Tick ==
    /\ entry' = [v \in Visitors |->
                   IF entry[v].left > 1 THEN [entry[v] EXCEPT !.left = @ - 1] ELSE NoGrant]
    /\ UNCHANGED <<page, pc, grant, verifyUp, breakerVars, probeVars>>

\* Environment: siteverify goes down or comes back.
VerifyChanges ==
    /\ verifyUp' = ~verifyUp
    /\ UNCHANGED <<challengeVars, breakerVars, probeVars>>

Breaker == BreakerNext /\ UNCHANGED <<challengeVars, verifyUp>>

Handle(v) ==
    \/ ChooseTTL(v) \/ SiteverifyFails(v) \/ SiteverifyAnswers(v)
    \/ Accept(v) \/ Reject(v) \/ Grant(v) \/ GrantFails(v)

Next ==
    \/ Breaker \/ Tick \/ VerifyChanges
    \/ \E v \in Visitors : ServePage(v) \/ PostForm(v) \/ Handle(v)

Spec == Init /\ [][Next]_vars

-----------------------------------------------------------------------------
\* A verification through the fallback lasts at most one hour ("one hour when
\* the circuit breaker fallback is active").
FallbackGrantsLastAnHour ==
    \A v \in Visitors : HasFallback /\ entry[v].by = "poj" => entry[v].left <= Hour

\* A verification by the configured provider lasts for the whole window, also
\* when the circuit opens between the answer of the provider and the entry in
\* the cache.
PrimaryGrantsLastTheWindow ==
    [][\A v \in Visitors :
         entry'[v].by = Primary /\ entry'[v].left > entry[v].left
           => entry'[v].left = Window]_vars

\* Being verified again shortens what is left of an entry only if it is by the
\* fallback.  (A window below the hour of the fallback is another matter.)
OnlyFallbackShortens ==
    [][\A v \in Visitors :
         /\ Window >= Hour
         /\ pc[v] = "grant" /\ pc'[v] = "idle" /\ entry'[v].left < entry[v].left
         => HasFallback /\ entry'[v].by = "poj"]_vars

\* As long as the provider answers and the instance lives, nobody gets in by the
\* fallback, whatever captchas are rejected and whatever bodies are broken.
NoOutageNoFallback ==
    [](widgetUp /\ verifyUp /\ ~cancelled)
      => [](HasFallback => \A v \in Visitors : entry[v].by # "poj")
=============================================================================
