--------------------------- MODULE ChallengeProofs ---------------------------
(***************************************************************************)
(* Proofs about the circuit breaker and the challenges, for every set of   *)
(* visitors, threshold and lifetime, with and without a fallback.          *)
(***************************************************************************)
EXTENDS Challenge, TLAPS

\* What a handler is about to store for the configured provider lasts for the
\* window; a handler that is about to store something knows for whom.
PendingLastsTheWindow ==
    \A v \in Visitors : grant[v].by = Primary => grant[v].left = Window

\* A provider that needs no network never opens the circuit: nobody probes it,
\* and no handler waits for it.
PojNeedsNoNetwork ==
    Primary = "poj" =>
      /\ circuitState = "closed"
      /\ probe = "none" /\ loop = "exited"
      /\ \A v \in Visitors : pc[v] \notin {"siteverify", "decode"}

\* Only a fallback or a configured proof of javascript is verified internally.
InternalIsPoj ==
    \A v \in Visitors : pc[v] = "internal" => Primary = "poj" \/ HasFallback

\* What is about to be stored is by the configured provider or the fallback.
GrantHasProvider ==
    \A v \in Visitors :
      pc[v] = "grant" => grant[v].by = Primary \/ (HasFallback /\ grant[v].by = "poj")

Inv ==
    /\ TypeOK
    /\ CircuitMatchesCount
    /\ PendingLastsTheWindow
    /\ PojNeedsNoNetwork
    /\ InternalIsPoj
    /\ GrantHasProvider

-----------------------------------------------------------------------------
\* What is about to be stored, and what is stored, is of the type of an entry.
LEMMA GrantFacts ==
    /\ NoGrant \in Grants
    /\ \A n \in {Window, Hour}, b \in Providers : [left |-> n, by |-> b] \in Grants
BY ChallengeAssumption DEF NoGrant, Grants, Longest, Providers

\* The two operations under bc.mu keep the types of the two fields, and the
\* circuit agrees with the count.
LEMMA RecordFacts ==
    ASSUME BreakerTypeOK, RecordSuccess \/ RecordFailure
    PROVE  /\ circuitState' \in {"closed", "open"}
           /\ failureCount' \in 0 .. MaxFailures
           /\ CircuitMatchesCount => CircuitMatchesCount'
BY BreakerAssumption DEF BreakerTypeOK, RecordSuccess, RecordFailure, CircuitMatchesCount

\* The steps of the probes keep the types and the agreement.
LEMMA BreakerStep ==
    ASSUME BreakerTypeOK, BreakerNext
    PROVE  BreakerTypeOK' /\ (CircuitMatchesCount => CircuitMatchesCount')
<1>1. CASE RecordProbe
  BY <1>1, RecordFacts DEF RecordProbe, BreakerTypeOK
<1>2. CASE ~RecordProbe
  BY <1>2 DEF BreakerNext, BreakerTypeOK, CircuitMatchesCount, breakerVars,
     SendProbe, AnswerProbe, Cancel, ExitLoop, WidgetChanges
<1> QED BY <1>1, <1>2

-----------------------------------------------------------------------------
\* Every variable keeps its type.
LEMMA TypeStep == TypeOK /\ [Next]_vars => TypeOK'
<1> SUFFICES ASSUME TypeOK, [Next]_vars PROVE TypeOK'
  OBVIOUS
<1> USE DEF TypeOK
<1>1. CASE Breaker
  BY <1>1, BreakerStep DEF Breaker, challengeVars
<1>2. CASE Tick
  <2>1. \A v \in Visitors : entry[v].left > 1 =>
          [entry[v] EXCEPT !.left = @ - 1] \in Grants
    BY ChallengeAssumption DEF Grants, Longest
  <2> QED BY <1>2, <2>1, GrantFacts DEF Tick, BreakerTypeOK, breakerVars, probeVars
<1>3. CASE VerifyChanges
  BY <1>3 DEF VerifyChanges, challengeVars, BreakerTypeOK, breakerVars, probeVars
<1>4. ASSUME NEW v \in Visitors, ServePage(v) \/ PostForm(v) PROVE TypeOK'
  BY <1>4, ChallengeAssumption
     DEF ServePage, PostForm, ActiveKey, Providers, Goto, BreakerTypeOK, breakerVars, probeVars
<1>5. ASSUME NEW v \in Visitors, Handle(v) PROVE TypeOK'
  <2>1. CASE ChooseTTL(v)
    BY <2>1, GrantFacts DEF ChooseTTL, Goto, Providers, BreakerTypeOK, breakerVars, probeVars
  <2>2. CASE SiteverifyAnswers(v)
    BY <2>2, RecordFacts DEF SiteverifyAnswers, Goto, BreakerTypeOK, breakerVars, probeVars
  <2>3. CASE Accept(v)
    BY <2>3, GrantFacts DEF Accept, Goto, Providers, BreakerTypeOK, breakerVars, probeVars
  <2>4. CASE Grant(v)
    BY <2>4, GrantFacts DEF Grant, Goto, BreakerTypeOK, breakerVars, probeVars
  <2>5. CASE SiteverifyFails(v) \/ Reject(v)
    BY <2>5 DEF SiteverifyFails, Reject, Goto, BreakerTypeOK, breakerVars, probeVars
  <2>6. CASE GrantFails(v)
    BY <2>6, GrantFacts DEF GrantFails, Goto, BreakerTypeOK, breakerVars, probeVars
  <2> QED BY <1>5, <2>1, <2>2, <2>3, <2>4, <2>5, <2>6 DEF Handle
<1>6. CASE UNCHANGED vars
  BY <1>6 DEF vars, challengeVars, BreakerTypeOK, breakerVars, probeVars
<1> QED BY <1>1, <1>2, <1>3, <1>4, <1>5, <1>6 DEF Next

\* The variables start in their types.
LEMMA TypeInit == Init => TypeOK
<1> SUFFICES ASSUME Init PROVE TypeOK
  OBVIOUS
<1>1. BreakerTypeOK
  <2>1. failureCount \in 0 .. MaxFailures
    BY BreakerAssumption DEF Init, BreakerInit
  <2>2. loop \in {"running", "exited"}
    BY Zenon DEF Init, BreakerInit
  <2>3. cancelled \in BOOLEAN /\ widgetUp \in BOOLEAN
    BY Zenon DEF Init, BreakerInit
  <2> QED BY <2>1, <2>2, <2>3 DEF Init, BreakerInit, BreakerTypeOK
<1>2. /\ page \in [Visitors -> Providers \cup {"none"}]
      /\ grant \in [Visitors -> Grants]
      /\ entry \in [Visitors -> Grants]
      /\ verifyUp \in BOOLEAN
  BY GrantFacts DEF Init
<1>3. pc \in [Visitors -> {"idle", "internal", "siteverify", "decode", "grant"}]
  BY DEF Init
<1> QED BY <1>1, <1>2, <1>3 DEF TypeOK

\* Variables of Challenge are in their types in every reachable state: circuit
\* and count, pages, handlers, entries, for every threshold and lifetime.
THEOREM TypeCorrect == Spec => []TypeOK
BY TypeInit, TypeStep, PTL DEF Spec

-----------------------------------------------------------------------------
\* The invariant holds at the start.
LEMMA InvInit == Init => Inv
<1> SUFFICES ASSUME Init PROVE Inv
  OBVIOUS
<1>1. TypeOK
  BY TypeInit
<1>2. CircuitMatchesCount
  BY BreakerAssumption DEF Init, BreakerInit, CircuitMatchesCount
<1>3. PendingLastsTheWindow
  BY ChallengeAssumption DEF Init, NoGrant, PendingLastsTheWindow
<1>4. PojNeedsNoNetwork
  BY ChallengeAssumption DEF Init, BreakerInit, PojNeedsNoNetwork
<1>5. InternalIsPoj
  BY DEF Init, InternalIsPoj
<1>6. GrantHasProvider
  BY DEF Init, GrantHasProvider
<1> QED BY <1>1, <1>2, <1>3, <1>4, <1>5, <1>6 DEF Inv

\* A step of the probes, of time or of the provider.
LEMMA OtherStep ==
    ASSUME Inv, Breaker \/ Tick \/ VerifyChanges \/ UNCHANGED vars
    PROVE  /\ CircuitMatchesCount' /\ PendingLastsTheWindow'
           /\ PojNeedsNoNetwork' /\ InternalIsPoj' /\ GrantHasProvider'
<1> USE DEF Inv
<1>1. CircuitMatchesCount'
  <2>1. CASE Breaker
    BY <2>1, BreakerStep DEF Breaker, TypeOK
  <2>2. CASE ~Breaker
    BY <2>2 DEF Tick, VerifyChanges, vars, breakerVars, CircuitMatchesCount
  <2> QED BY <2>1, <2>2
<1>2. PendingLastsTheWindow' /\ InternalIsPoj' /\ GrantHasProvider'
  BY DEF Breaker, Tick, VerifyChanges, vars, challengeVars, PendingLastsTheWindow, InternalIsPoj,
     GrantHasProvider
<1>3. ASSUME Primary = "poj" PROVE PojNeedsNoNetwork'
  <2>1. ~ BreakerNext \/ Cancel \/ WidgetChanges
    BY <1>3 DEF PojNeedsNoNetwork, BreakerNext, SendProbe, AnswerProbe, RecordProbe, ExitLoop
  <2> QED
    BY <1>3, <2>1 DEF PojNeedsNoNetwork, Breaker, Cancel, WidgetChanges, Tick, VerifyChanges,
       vars, challengeVars, breakerVars, probeVars
<1> QED BY <1>1, <1>2, <1>3 DEF PojNeedsNoNetwork

\* A step of a visitor or of the handler of its form.
LEMMA VisitorStep ==
    ASSUME Inv, TypeOK', NEW v \in Visitors, ServePage(v) \/ PostForm(v) \/ Handle(v)
    PROVE  /\ CircuitMatchesCount' /\ PendingLastsTheWindow'
           /\ PojNeedsNoNetwork' /\ InternalIsPoj' /\ GrantHasProvider'
<1> USE DEF Inv
<1>1. CASE SiteverifyAnswers(v)
  <2>1. CircuitMatchesCount'
    <3>1. CASE verifyUp
      BY <1>1, <3>1 DEF SiteverifyAnswers, breakerVars, CircuitMatchesCount
    <3>2. CASE ~verifyUp
      BY <1>1, <3>2, RecordFacts DEF SiteverifyAnswers, TypeOK
    <3> QED BY <3>1, <3>2
  <2>2. PendingLastsTheWindow' /\ InternalIsPoj'
    BY <1>1 DEF SiteverifyAnswers, Goto, TypeOK, PendingLastsTheWindow, InternalIsPoj
  <2>3. PojNeedsNoNetwork'
    BY <1>1 DEF SiteverifyAnswers, PojNeedsNoNetwork
  <2>4. GrantHasProvider'
    BY <1>1 DEF SiteverifyAnswers, Goto, TypeOK, GrantHasProvider
  <2> QED BY <2>1, <2>2, <2>3, <2>4
<1>2. CASE ~SiteverifyAnswers(v)
  <2>1. UNCHANGED <<breakerVars, probeVars>>
    BY <1>2 DEF ServePage, PostForm, Handle, ChooseTTL, SiteverifyFails, Accept, Reject,
       Grant, GrantFails
  <2>2. CircuitMatchesCount'
    BY <2>1 DEF breakerVars, CircuitMatchesCount
  <2>3. PendingLastsTheWindow'
    <3>1. CASE ChooseTTL(v)
      \* Without a fallback the circuit of this provider has never opened.
      <4>1. grant'[v].by = "poj" /\ (Primary = "poj" => grant'[v].left = Window)
        BY <3>1, ChallengeAssumption DEF ChooseTTL, TypeOK, PojNeedsNoNetwork
      <4> QED BY <3>1, <4>1 DEF ChooseTTL, TypeOK, PendingLastsTheWindow
    <3>2. CASE Accept(v)
      BY <3>2 DEF Accept, TypeOK, PendingLastsTheWindow
    <3>3. CASE Grant(v)
      BY <3>3, ChallengeAssumption DEF Grant, NoGrant, TypeOK, PendingLastsTheWindow
    <3>4. CASE GrantFails(v)
      BY <3>4, ChallengeAssumption DEF GrantFails, NoGrant, TypeOK, PendingLastsTheWindow
    <3>5. CASE UNCHANGED grant
      BY <3>5 DEF PendingLastsTheWindow
    <3> QED BY <1>2, <3>1, <3>2, <3>3, <3>4, <3>5
            DEF ServePage, PostForm, Handle, SiteverifyFails, Reject
  <2>4. PojNeedsNoNetwork'
    BY <1>2, <2>1 DEF ServePage, PostForm, Handle, ChooseTTL, SiteverifyFails, Accept, Reject,
       Grant, GrantFails, Goto, ActiveKey, TypeOK, PojNeedsNoNetwork, breakerVars, probeVars
  <2>5. InternalIsPoj'
    BY <1>2, ChallengeAssumption DEF ServePage, PostForm, Handle, ChooseTTL, SiteverifyFails, Accept,
       Reject, Grant, GrantFails, Goto, ActiveKey, TypeOK, InternalIsPoj
  <2>6. GrantHasProvider'
    <3>1. CASE ChooseTTL(v)
      BY <3>1 DEF ChooseTTL, Goto, TypeOK, InternalIsPoj, GrantHasProvider
    <3>2. CASE Accept(v)
      BY <3>2, ChallengeAssumption DEF Accept, Goto, TypeOK, PojNeedsNoNetwork, GrantHasProvider
    <3>3. CASE ServePage(v) \/ PostForm(v) \/ SiteverifyFails(v) \/ Reject(v) \/ Grant(v)
               \/ GrantFails(v)
      BY <3>3 DEF ServePage, PostForm, SiteverifyFails, Reject, Grant, GrantFails, Goto, TypeOK,
         GrantHasProvider
    <3> QED BY <1>2, <3>1, <3>2, <3>3 DEF Handle
  <2> QED BY <2>2, <2>3, <2>4, <2>5, <2>6
<1> QED BY <1>1, <1>2

\* Every step keeps the invariant.
LEMMA InvStep == Inv /\ [Next]_vars => Inv'
<1> SUFFICES ASSUME Inv, [Next]_vars PROVE Inv'
  OBVIOUS
<1>1. TypeOK'
  BY TypeStep DEF Inv
<1>2. CASE Breaker \/ Tick \/ VerifyChanges \/ UNCHANGED vars
  BY <1>1, <1>2, OtherStep DEF Inv
<1>3. ASSUME NEW v \in Visitors, ServePage(v) \/ PostForm(v) \/ Handle(v) PROVE Inv'
  BY <1>1, <1>3, VisitorStep DEF Inv
<1> QED BY <1>2, <1>3 DEF Next

\* The inductive invariant holds.
THEOREM Invariant == Spec => []Inv
BY InvInit, InvStep, PTL DEF Spec

\* The circuit is open exactly when the failures recorded since the last good
\* probe have reached the threshold, although the loop and any number of
\* handlers record failures.
THEOREM CircuitCorrect == Spec => []CircuitMatchesCount
<1>1. Inv => CircuitMatchesCount
  BY DEF Inv
<1> QED BY <1>1, Invariant, PTL

\* Whatever the circuit does while a handler waits, an entry that it makes for
\* the configured provider lasts for the whole window.
THEOREM GrantsCorrect == Spec => PrimaryGrantsLastTheWindow
<1> DEFINE Kept ==
      \A v \in Visitors :
        entry'[v].by = Primary /\ entry'[v].left > entry[v].left => entry'[v].left = Window
<1>1. ASSUME Inv, [Next]_vars, NEW v \in Visitors,
             entry'[v].by = Primary, entry'[v].left > entry[v].left
      PROVE  entry'[v].left = Window
  <2> USE DEF Inv
  <2>1. entry[v] \in Grants
    BY <1>1 DEF TypeOK
  <2>2. entry[v].left \in Int
    <3>1. 0 .. Longest \subseteq Int
      OBVIOUS
    <3> QED BY <2>1, <3>1 DEF Grants
  <2>3. CASE Tick
    <3>1. CASE entry[v].left > 1
      <4>1. entry'[v].left = entry[v].left - 1
        BY <2>1, <2>3, <3>1 DEF Tick, Grants
      <4> QED BY <1>1, <2>2, <4>1
    <3>2. CASE ~(entry[v].left > 1)
      <4>1. entry'[v].by = "none"
        BY <2>3, <3>2 DEF Tick, NoGrant
      <4> QED BY <1>1, <4>1, ChallengeAssumption
    <3> QED BY <3>1, <3>2
  <2>4. ASSUME NEW w \in Visitors, Grant(w) PROVE entry'[v].left = Window
    <3>1. CASE v = w
      <4>1. entry'[v] = grant[v]
        BY <1>1, <2>4, <3>1 DEF Grant, TypeOK
      <4> QED BY <1>1, <4>1 DEF PendingLastsTheWindow
    <3>2. CASE v # w
      <4>1. entry'[v] = entry[v]
        BY <1>1, <2>4, <3>2 DEF Grant, TypeOK
      <4> QED BY <1>1, <2>2, <4>1
    <3> QED BY <3>1, <3>2
  <2>5. CASE UNCHANGED entry
    BY <1>1, <2>2, <2>5
  <2> QED
    BY <1>1, <2>3, <2>4, <2>5 DEF Next, Breaker, VerifyChanges, ServePage, PostForm, Handle,
       ChooseTTL, SiteverifyFails, SiteverifyAnswers, Accept, Reject, GrantFails, vars,
       challengeVars
<1>2. Inv /\ [Next]_vars => [Kept]_vars
  BY <1>1
<1> QED BY <1>2, Invariant, PTL DEF Spec, PrimaryGrantsLastTheWindow

\* Whatever is stored over an entry, and whenever, only the fallback leaves less
\* of it, when its hour is not above the window.
THEOREM ShorteningCorrect == Spec => OnlyFallbackShortens
<1> DEFINE Kept ==
      \A v \in Visitors :
        /\ Window >= Hour
        /\ pc[v] = "grant" /\ pc'[v] = "idle" /\ entry'[v].left < entry[v].left
        => HasFallback /\ entry'[v].by = "poj"
<1>1. ASSUME Inv, [Next]_vars, NEW v \in Visitors, Window >= Hour,
             pc[v] = "grant", pc'[v] = "idle", entry'[v].left < entry[v].left
      PROVE  HasFallback /\ entry'[v].by = "poj"
  <2> USE DEF Inv
  <2>1. Grant(v)
    <3>0. ~GrantFails(v)
      BY <1>1 DEF GrantFails, TypeOK, Grants, Longest
    <3>1. pc'[v] # pc[v]
      BY <1>1
    <3>2. PICK w \in Visitors : ServePage(w) \/ PostForm(w) \/ Handle(w)
      BY <1>1, <3>1 DEF Next, Breaker, Tick, VerifyChanges, vars, challengeVars
    <3>3. pc' = pc \/ \E l : pc' = [pc EXCEPT ![w] = l]
      BY <3>2, Zenon DEF ServePage, PostForm, Handle, ChooseTTL, SiteverifyFails,
         SiteverifyAnswers, Accept, Reject, Grant, GrantFails, Goto
    <3>4. v = w
      BY <1>1, <3>1, <3>3 DEF TypeOK
    <3> QED BY <1>1, <3>0, <3>2, <3>4 DEF ServePage, PostForm, Handle, ChooseTTL, SiteverifyFails,
            SiteverifyAnswers, Accept, Reject
  <2>2. entry'[v] = grant[v]
    BY <1>1, <2>1 DEF Grant, TypeOK
  <2>3. entry[v].left \in 0 .. Window
    BY <1>1, ChallengeAssumption DEF TypeOK, Grants, Longest
  <2>4. grant[v].by # Primary
    BY <1>1, <2>2, <2>3, ChallengeAssumption DEF PendingLastsTheWindow
  <2> QED BY <1>1, <2>2, <2>4 DEF GrantHasProvider
<1>2. Inv /\ [Next]_vars => [Kept]_vars
  BY <1>1
<1> QED BY <1>2, Invariant, PTL DEF Spec, OnlyFallbackShortens

-----------------------------------------------------------------------------
\* With a fallback configured: no failure is recorded or about to be, and nobody
\* has been verified by the fallback or is about to be.
NoFailure ==
    HasFallback =>
      /\ circuitState = "closed" /\ probe # "bad"
      /\ \A v \in Visitors :
           pc[v] # "internal" /\ grant[v].by # "poj" /\ entry[v].by # "poj"

Healthy == widgetUp /\ verifyUp /\ ~cancelled

\* A step from a state without an outage keeps it so, whatever it does to the
\* environment.
LEMMA HealthyStep ==
    ASSUME Inv, NoFailure, Healthy, [Next]_vars
    PROVE  NoFailure'
<1> SUFFICES ASSUME HasFallback PROVE NoFailure'
  BY DEF NoFailure
<1> USE DEF Inv, TypeOK, NoFailure
<1>1. Primary = "external" /\ ActiveKey = "external"
  BY ChallengeAssumption DEF ActiveKey
<1>2. CASE Breaker
  <2>1. circuitState' = "closed" /\ probe' # "bad"
    BY <1>2 DEF Breaker, BreakerNext, SendProbe, AnswerProbe, RecordProbe, RecordSuccess, Cancel,
       ExitLoop, WidgetChanges, breakerVars, Healthy
  <2> QED BY <1>2, <2>1 DEF Breaker, challengeVars
<1>3. CASE Tick
  <2>1. \A v \in Visitors : entry'[v].by # "poj"
    BY <1>3 DEF Tick, Grants, NoGrant
  <2> QED BY <1>3, <2>1 DEF Tick, breakerVars, probeVars
<1>4. CASE VerifyChanges
  BY <1>4 DEF VerifyChanges, challengeVars, breakerVars, probeVars
<1>5. ASSUME NEW v \in Visitors, ServePage(v) \/ PostForm(v) \/ Handle(v) PROVE NoFailure'
  <2>1. circuitState' = "closed" /\ probe' # "bad" /\ ~ ChooseTTL(v)
    BY <1>5 DEF ServePage, PostForm, Handle, ChooseTTL, SiteverifyFails, SiteverifyAnswers,
       Accept, Reject, Grant, GrantFails, breakerVars, probeVars, Healthy
  <2>2. CASE ServePage(v) \/ PostForm(v)
    BY <1>1, <2>1, <2>2 DEF ServePage, PostForm, Goto
  <2>3. CASE SiteverifyFails(v) \/ SiteverifyAnswers(v) \/ Reject(v)
    BY <2>1, <2>3 DEF SiteverifyFails, SiteverifyAnswers, Reject, Goto
  <2>4. CASE Accept(v)
    BY <2>1, <2>4 DEF Accept, Goto
  <2>5. CASE Grant(v)
    BY <2>1, <2>5 DEF Grant, Goto, NoGrant
  <2>6. CASE GrantFails(v)
    BY <2>1, <2>6 DEF GrantFails, Goto, NoGrant
  <2> QED BY <1>5, <2>1, <2>2, <2>3, <2>4, <2>5, <2>6 DEF Handle
<1>6. CASE UNCHANGED vars
  BY <1>6 DEF vars, challengeVars, breakerVars, probeVars
<1> QED BY <1>2, <1>3, <1>4, <1>5, <1>6 DEF Next

\* As long as widget and siteverify answer and the instance lives, nobody gets
\* in by the fallback, whatever captchas are rejected and bodies broken.
THEOREM NoFallbackCorrect == Spec => NoOutageNoFallback
<1> DEFINE Nobody == HasFallback => \A v \in Visitors : entry[v].by # "poj"
<1>1. Init => NoFailure
  BY DEF Init, BreakerInit, NoGrant, NoFailure
<1>2. Inv /\ NoFailure /\ Healthy /\ [Next]_vars => NoFailure'
  BY HealthyStep
<1>3. NoFailure => Nobody
  BY DEF NoFailure
<1>4. []Inv /\ []Healthy /\ Spec => []Nobody
  BY <1>1, <1>2, <1>3, PTL DEF Spec
<1>5. Healthy <=> (widgetUp /\ verifyUp /\ ~cancelled)
  BY DEF Healthy
<1> QED BY <1>4, <1>5, Invariant, PTL DEF NoOutageNoFallback
=============================================================================
