------------------------------- MODULE Visit -------------------------------
(***************************************************************************)
(* Visits of protected pages from end to end: browsers that ask for pages, *)
(* are challenged by ServeHTTP of main.go (on the page itself, or by a     *)
(* redirect to ChallengeURL), submit the form, and follow the redirect to  *)
(* the destination, while the circuit breaker and time go on.  A visitor   *)
(* has one address or one cookie jar; its earlier entries in verifiedCache *)
(* under other session tokens are never asked for again.                   *)
(***************************************************************************)
EXTENDS Challenge, ClientAddress, Destination

CONSTANTS
    Deployments,  \* the settings of ChallengeOnPage and of VerificationMode
    Wanted,     \* the URIs that visitors ask for
    Links,      \* the destinations, decoded, of links to ChallengeURL
    Forgeries,  \* what a client itself may put into the forwarding header
    Appended,   \* the addresses that the proxies behind the first one append
    Remote,     \* the address of the connection: the last proxy
    Token,      \* stands for the session token in the current cookie
    Unknown     \* a lost one

ASSUME VisitAssumption ==
    /\ Deployments \subseteq [onPage : BOOLEAN, session : BOOLEAN]
    /\ Wanted \subseteq Texts /\ \A uri \in Wanted : uri = Page(uri.escapes)
    /\ Links \subseteq Texts
    /\ Token # Unknown /\ Unknown \notin Visitors

\* The deployment: IPDepth says how many of the addresses that the proxies append
\* are not exempt, and visitors are none of those that are.
ASSUME ProxyAssumption ==
    /\ Visitors \subseteq Addresses \ (Exempt \cup {Blank})
    /\ Forgeries \subseteq Seq(Addresses)
    /\ Appended \in Seq(Addresses) /\ Cardinality(Counted(Appended)) = Depth

VARIABLES
    deployment,  \* config: challenge on the page itself? VerificationMode "session"?
    browser,     \* what each visitor sees, wanted, and the URI or destination of it
    key          \* the key of its entry, unless the browser lost the cookie

visitVars == <<deployment, browser, key>>
allVars == <<vars, visitVars>>

Views == {"blank", "content", "sent", "challenge", "posting", "back", "error"}

VisitTypeOK ==
    /\ deployment \in Deployments
    /\ browser \in [Visitors -> [at : Views, wanted : Texts, text : Texts]]
    /\ key \in [Visitors -> Visitors \cup {Token, Unknown}]

VisitInit ==
    /\ Init
    /\ deployment \in Deployments
    /\ browser = [v \in Visitors |-> [at |-> "blank", wanted |-> Root, text |-> Root]]
    /\ key = [v \in Visitors |-> Unknown]

Show(v, at, wanted, text) ==
    browser' = [browser EXCEPT ![v] = [at |-> at, wanted |-> wanted, text |-> text]]

-----------------------------------------------------------------------------
\* Mutant: the first address of the header is believed to be the client.
AddressOfFirst(v, forged) == Head(forged \o <<v>>)

\* The address that a request of v counts for.
AddressOf(v, forged) == ClientIP(forged \o <<v>> \o Appended, Remote)

\* The lookup in verifiedCache by shouldApply.
IsVerified(v, forged) ==
    /\ entry[v].left > 0
    /\ key[v] = IF deployment.session THEN Token ELSE AddressOf(v, forged)

\* ServeHTTP for a protected page (module RequestGate has the exceptions): the
\* page, the challenge on it, or the redirect to the challenge.
Request(v, uri, wanted) ==
    /\ pc[v] = "idle"
    /\ \E forged \in Forgeries :
         \/ /\ IsVerified(v, forged)
            /\ Show(v, "content", wanted, uri)
            /\ UNCHANGED vars
         \/ /\ ~IsVerified(v, forged) /\ deployment.onPage
            /\ ServePage(v)
            /\ Show(v, "challenge", wanted, QueryEscape(uri))
         \/ /\ ~IsVerified(v, forged) /\ ~deployment.onPage
            /\ Show(v, "sent", wanted, QueryEscape(uri))
            /\ UNCHANGED vars
    /\ UNCHANGED <<deployment, key>>

\* A visitor asks for a page, for the first time or again.
Browse(v, uri) == Request(v, uri, uri)

\* The redirect after the verification is followed.
Follow(v) ==
    /\ browser[v].at = "back"
    /\ Request(v, browser[v].text, browser[v].wanted)

\* The redirect to ChallengeURL is followed; the query is decoded.
OpenChallenge(v) ==
    /\ browser[v].at = "sent"
    /\ ServePage(v)
    /\ Show(v, "challenge", browser[v].wanted, Unescape(browser[v].text))
    /\ UNCHANGED <<deployment, key>>

\* A link to ChallengeURL with some destination is followed, or a bookmark of it
\* that has none.
OpenLink(v, text) ==
    /\ ~deployment.onPage
    /\ browser[v].at \in {"blank", "content", "error"}
    /\ ServePage(v)
    /\ Show(v, "challenge", text, text)
    /\ UNCHANGED <<deployment, key>>

\* The form goes off with the destination of the page.
Submit(v) ==
    /\ browser[v].at = "challenge"
    /\ PostForm(v)
    /\ browser' = [browser EXCEPT ![v].at = IF pc'[v] = "idle" THEN "error" ELSE "posting"]
    /\ UNCHANGED <<deployment, key>>

\* verifyChallengePage goes on, or ends with an error.
Verify(v) ==
    /\ \/ ChooseTTL(v) \/ SiteverifyFails(v) \/ SiteverifyAnswers(v)
       \/ Accept(v) \/ Reject(v)
       \/ deployment.session /\ GrantFails(v)
    /\ browser' = IF pc'[v] = "idle" THEN [browser EXCEPT ![v].at = "error"] ELSE browser
    /\ UNCHANGED <<deployment, key>>

\* It ends with the entry, under the address of the request or a new token, with
\* the cookie and the redirect to the destination.
Admit(v) ==
    /\ Grant(v)
    /\ IF deployment.session THEN key' = [key EXCEPT ![v] = Token]
       ELSE \E forged \in Forgeries : key' = [key EXCEPT ![v] = AddressOf(v, forged)]
    /\ Show(v, "back", browser[v].wanted, Redirect(Normalize(browser[v].text)))
    /\ UNCHANGED deployment

\* Environment: the cookie is deleted.
LoseCookie(v) ==
    /\ key[v] = Token
    /\ key' = [key EXCEPT ![v] = Unknown]
    /\ UNCHANGED <<vars, deployment, browser>>

VisitNext ==
    \/ (Breaker \/ Tick \/ VerifyChanges) /\ UNCHANGED visitVars
    \/ \E v \in Visitors :
         \/ \E uri \in Wanted : Browse(v, uri)
         \/ \E text \in Links : OpenLink(v, text)
         \/ Follow(v) \/ OpenChallenge(v) \/ LoseCookie(v)
         \/ Submit(v) \/ Verify(v) \/ Admit(v)

VisitSpec == VisitInit /\ [][VisitNext]_allVars

Retry(v) ==
    LET wanted == browser[v].wanted
    IN  /\ browser[v].at = "error"
        /\ IF wanted \in Wanted THEN Browse(v, wanted) ELSE OpenLink(v, wanted)
GoOn(v) == Retry(v) \/ Follow(v) \/ OpenChallenge(v) \/ Verify(v) \/ Admit(v)
FollowInTime(v) == Follow(v) /\ browser'[v].at = "content"

\* Handlers end (the HTTP client has a timeout) and time passes.  A visitor goes
\* on until it has its page: it follows redirects, now and then before the entry
\* expires or the cookie is gone, submits forms, waits for the answer and solves
\* the captcha now and then, and asks again after an error.  The system's random
\* numbers do not fail for ever.
VisitFairness ==
    /\ WF_allVars(Breaker /\ UNCHANGED visitVars)
    /\ WF_allVars(Tick /\ UNCHANGED visitVars)
    /\ \A v \in Visitors :
         /\ WF_allVars(GoOn(v))
         /\ SF_allVars(Submit(v)) /\ SF_allVars(FollowInTime(v))
         /\ SF_allVars(SiteverifyAnswers(v) /\ Verify(v))
         /\ SF_allVars(Accept(v) /\ Verify(v))
         /\ SF_allVars(Admit(v))

FairVisitSpec == VisitSpec /\ VisitFairness

-----------------------------------------------------------------------------
\* After a challenge the visitor is sent to the page that it wanted.  Only with a
\* challenge of its own URL, escapes in the query may be gone: the destination is
\* decoded once more than it was encoded, each time.
DestinationIsKept ==
    \A v \in Visitors :
      LET b == browser[v]
      IN  b.at \in {"back", "content"} =>
            /\ b.wanted = Empty => b.text = Root
            /\ b.wanted \in Wanted =>
                 \/ b.text = b.wanted
                 \/ /\ ~deployment.onPage
                    /\ \E n \in 0 .. b.wanted.escapes : b.text = Page(n)

\* Whatever destination a challenge was opened with, and however often it was
\* escaped and decoded on the way, no redirect leads to another host.  What
\* sanitizeDestination lets through may do so until http.Redirect has cleaned it.
RedirectsStayOnSite ==
    \A v \in Visitors :
      browser[v].at \in {"back", "content"} => Local(browser[v].text)

\* Whatever a client puts into its forwarding header, the redirect after the
\* verification leads to the page and not into the next challenge, unless the
\* entry has expired or the cookie is gone.
NoChallengeLoop ==
    [][\A v \in Visitors :
         browser[v].at = "back" /\ browser'[v].at \in {"sent", "challenge"}
           => entry[v].left = 0 \/ key[v] = Unknown]_allVars

\* Every visit ends at a page: a visitor that stays with what it wants gets one,
\* once the provider stays up or its widget stays down, however often before the
\* circuit changed between the page and the form, captchas were rejected, answers
\* did not arrive and entries expired on the way.
VisitsEnd ==
    \A v \in Visitors :
      /\ \/ <>[](widgetUp /\ verifyUp /\ ~cancelled)
         \/ HasFallback /\ <>[](~widgetUp /\ ~cancelled)
      /\ <>[][browser'[v].wanted = browser[v].wanted]_browser
      => []<>(browser[v].at \in {"blank", "content"})
=============================================================================
