# A verification development for captcha-protect

captcha-protect is a Traefik middleware in Go that shows a captcha to visitors
before it lets them through. This directory holds TLA+ models of the parts of
it that are concurrent, that fail, or that outlive a process; the TLC runs that
check them on small instances; and proofs, checked by TLAPS, of what matters
most for every instance. Source paths and line numbers are those of `src/`.

## The system

| component | where | state | operations |
|---|---|---|---|
| File lock | `internal/state/lock.go` | the `.lock` file (content, age), the `.cleanup` file | `NewFileLock`, `Lock`, `removeStaleLock`, `writeLockPID`, `Unlock`, `Close` |
| State persistence | `main.go:1249-1405`, `internal/state/state.go` | the state file; `stateDirty`, `stateSavedDirty` | `loadState`, the `saveState` goroutine, `saveStateNow`, `markStateDirty`, `markStateSaved` |
| Circuit breaker | `main.go:584-680` | `circuitState`, `healthCheckFailureCount` | `healthCheckLoop`, the probe, `recordHealthCheckSuccess`, `recordHealthCheckFailure` |
| Challenge | `main.go:566-580, 752-917` | `verifiedCache`; the page in the browser | `getActiveCaptchaConfig`, `serveChallengePage`, `verifyChallengePage` |
| Request gate | `main.go:682-736, 1025-1230`, `internal/helper/ip.go` | `verifiedCache`, `botCache`, the published address lists | `shouldApply`, `isGoodBot`, `IsIpGoodBotContext`, the route predicates |
| Crawler address lists | `internal/helper/google.go`, `commoncrawl.go`, `uptimerobot.go` | one list of networks each, under a mutex | three refresh loops, `Update`, `Contains`, `ReduceCIDRs` |
| Client address | `main.go:1163-1200` | none | `getClientIP` |
| Destination of the redirect | `main.go:728, 960-997` | the parameter `destination`, from the first request to the redirect | `normalizeDestination`, `sanitizeDestination` |
| Configuration, assets, statistics page, logging | `main.go:164-394, 738-750, 999-1023`, `internal/helper`, `internal/log` | none that changes | |

How they interact: a request enters `ServeHTTP`. The **gate** decides from
`verifiedCache`, the exemptions and the bots whether the visitor must solve a
captcha. If so, the **challenge** page carries the widget of the provider that
the **breaker** says is active, and the form comes back to `verifyChallengePage`,
which asks the provider, tells the breaker about server errors, and puts an
entry into `verifiedCache`. Every such entry marks the state dirty; the
**persistence** goroutine saves the cache to a file that other instances (after
a restart, after a reload of the configuration, in other processes) load and
save too, under the **file lock**. The key of an entry is the **client address**
of the request, or a token in a cookie; the redirect after the verification goes
to the **destination** that the challenge was given. The **address lists** are
refreshed in the background, each by a goroutine of its own, while the gate looks
clients up in them.

What is hard in this code: handlers, the breaker's loop and the save loop
interleave over shared state, and some of it is read outside its mutex or
before a network call and used after it; the lock is built from files, so
crashes leave them behind and staleness is guessed from an age; saves and loads
race with changes, shutdowns and other instances; verdicts from DNS are cached
for a whole window; a list is collected from several answers, one after the
other, that may fail or change in between; and a visit runs through several
requests, between which the circuit, the entry and the cookie may change. Each hazard is listed in `PROJECT.json` at its line, with
the properties that cover it or the reason why none does yet.

## The modules

| module | models | composed with |
|---|---|---|
| `ExclusiveLock` | what the lock promises: one holder, a free moment between two holders, no holder for ever | |
| `FileLock` | the protocol of `lock.go`, one action per system call | implements `ExclusiveLock` |
| `FileLockProofs` | the theorems about `FileLock` | |
| `CircuitBreaker` | the two fields under `bc.mu`, the probe loop | |
| `Challenge` | pages, forms, the siteverify call, the entry in the cache | extends `CircuitBreaker`: the handlers record failures too |
| `StateStore` | load, save and the dirty counters of several instances over one file | uses the lock through `ExclusiveLock` |
| `RequestGate` | `shouldApply` and `isGoodBot` of concurrent requests over both caches and a changing DNS | |
| `PublishedList` | what an address list promises to the handlers: it is replaced as a whole | |
| `CrawlerRanges` | one of the three lists: its refresh loop, the endpoints and DNS, the readers | implements `PublishedList` |
| `Prefixes` | `ReduceCIDRs` on CIDR notation: the order, the loop over the candidates | proved to be `CrawlerRanges!Reduced` |
| `ClientAddress` | the walk of `getClientIP` | |
| `Destination` | escaping, `normalizeDestination`, `sanitizeDestination`, what `http.Redirect` does to a path | |
| `Visit` | visits from the first request through challenge and redirect to the page | extends `Challenge`, `ClientAddress`, `Destination` |
| `ChallengeProofs`, `StateStoreProofs`, `RequestGateProofs`, `CrawlerRangesProofs`, `PrefixesProofs`, `VisitProofs` | the theorems about these modules; those of `VisitProofs` extend to `ClientAddress` and `Destination` | |
| `MC*` | values for TLC; in `MCVisit` and `MCCrawlerRanges` also `ClientIP` and `ReduceCIDRs` against reference definitions, for all small inputs (`ASSUME`) | |

In every module an action stands for the code between two points at which
another goroutine, process or the environment can be seen: a system call, the
section under a mutex, a cache operation, a network call. Names follow the
source: `RecordFailure` is `recordHealthCheckFailure`, `RestatLock` is the
second `os.Stat` of `removeStaleLock`, and so on; `map` in `PROJECT.json` gives
the lines. A definition marked *Mutant* is a plausible bug in the definition
below it, and shows that a property can fail; it is not part of any model.

### FileLock

`lockFile` is the file at the lock path: its creator (a ghost), the owner token
it contains (none yet, between `OpenFile` and `WriteString`), its age.
`guardFile` is the `.cleanup` file. Each process has a program counter `pc`, the
`owner` token of its current `FileLock`, the time `waited` since `Lock()`
started, and the pending result of `removeStaleLock`. A process may crash at
every step and then stays dead: a restart is another member of `Procs`. A system
call may fail when `IoErrors` holds. Time is in ticks of five seconds, so
`LockTimeout = 1` and `StaleAge = 2`, the ratio of the constants in the code. A
timer in ticks may fire up to one tick early; every property holds all the same.
The counter of tokens is represented by two values: what matters is whether a
token differs from the one its process left on disk.

### CircuitBreaker and Challenge

`circuitState` and `failureCount` change only in `RecordSuccess` and
`RecordFailure`, both under `bc.mu`. A probe is sent, answered and recorded in
separate steps; a cancelled context turns the answer into an error, as it does
in the code. A visitor stands for a key of `verifiedCache`: an address, or the
holder of a session cookie. The handler of a form goes from the choice of the
provider (`PostForm`) to the choice of the lifetime (`ChooseTTL`, a read without
the mutex: the data race may yield the current value or the one seen under the
mutex) or through the siteverify call, to the entry (`Grant`). That call may end
in an error at any time (`SiteverifyFails`), also when the endpoint works: the
request has the context of the client, who may leave. In session mode there may
be no random number for the token (`GrantFails`). The visitor sees an error in
both cases, and nothing is recorded. Entries count
down in ticks; `by` is a ghost that remembers the provider. `Challenge` leaves
open what a browser does next; `Visit` says so, and has the fairness.

### ClientAddress, Destination and Visit

`ClientIP` is the component of the forwarding header that is not exempt and has
`Depth` such components behind it, which is where the loop of `getClientIP` stops
on its way from the end; `MCVisit` compares it with that loop. `ProxyAssumption`
is what `ipDepth` has to be set to: `Depth` of the addresses that the proxies
append are not exempt, and visitors are not exempt themselves.

Of a destination, `Texts` keep what decides where it leads and how it changes: the
slashes that it begins with, each with the number of times it is escaped ("/" is
0, "%2F" is 1), whether anything follows them, and how often a sign in its
parameters is escaped. A text without a slash in front begins with a scheme or a
name. `QueryEscape` adds one level everywhere, `Unescape` takes one away;
`Sanitize` is `sanitizeDestination`, which looks for a scheme, for a host and, in
the decoded path, for a slash in front: "///host" and "%2F%2Fhost" pass it, and
only `Redirect`, which is what `http.Redirect` and its `path.Clean` make of them,
turns them into a page of the site. `Local` is what a browser takes for one.

`Visit` composes them with `Challenge`. `browser` is what each visitor sees, the
URI it wanted and the one under way; `deployment` is the configuration, one of
`Deployments`, chosen once: the challenge on the page itself or by a redirect to
`ChallengeURL`, and addresses or session cookies as keys. Visitors ask for pages
(`Browse`, the URIs in `Wanted`) or follow links to `ChallengeURL` with any
destination (`OpenLink`, those in `Links`). `Request` is `ServeHTTP`: the page if the
entry of the visitor's key is there, else the challenge or the redirect. Every
request may carry another forged header (`Forgeries`), to which the proxies
append the addresses that they were asked from. `Admit` is the end of
`verifyChallengePage`: entry, cookie and redirect. A lost cookie, expired entries
and everything of the circuit may come in between.

### PublishedList and CrawlerRanges

The three lists share nothing, so `source` chooses one of them at the start. A
network is the set of its addresses. `loop` follows the goroutine: one fetch
after the other (`FetchGoogle`, each URL with an answer of its own), for Common
Crawl the lookups one by one, and `Update` as lock, append, unlock. `reading` are
the handlers in `Contains`; as with `sync.RWMutex`, a writer that waits stops new
readers. The endpoints (`official`), the zone of the crawler and the network
change at any time. Four ghosts say what was published at some time or all the
time since the refresh began, what DNS confirmed, and which lookups failed.
`List` is what handlers can see, and refines the list of `PublishedList`; this is
what justifies that `RequestGate` replaces a list in one step.

`Reduced` says on sets what `ReduceCIDRs` does; `Prefixes` says it on prefixes,
that is on functions of `Width` bits (by family) and a length. `Kept` is the loop
over the candidates, as a function of their indices. What `sort.Slice` leaves is
any arrangement that `Sorts`; `ReductionCorrect` holds for all of them, and
`MCCrawlerRanges` checks for lists of up to three entries that sorting gives one.

### StateStore

An expiration is represented by the ticks left until it, which every `Tick`
decrements wherever the value is kept: the file, the caches, a snapshot. An entry
that has expired is 0, and no entry `Absent`: an expired one stays in the file
until the next save, a save leaves it out as `Items` does, and a load skips it
(`state.go:361`), so that it is never set with a duration of 0, which go-cache
takes for its default. Between
`LoadRead` and `LoadEntries` the durations stand still, since the code reads the
clock once and calls `Set` later. `Overlap` lets instances run at the same time,
`LockTimeouts` lets `Lock()` give up, `IoErrors` lets reads and writes fail.
Any number of handlers may have set an entry that they have not marked yet;
`marking` counts them, by key.
Cancellation, the final save and crashes are actions. The lock is an instance of
`ExclusiveLock`; a dead holder's lock expires (`LockExpires`).

### RequestGate

A route is the set of paths that it matches in the configured mode, which is all
the three `RouteIsProtected...` functions use of it. The reverse zone `ptr` and
the forward zones `fwd` change at any time; a lookup of a handler is one step
per DNS query, each of which may fail. The published lists are searched one after
the other, each in a step of its own, as each has its own lock, and may be
replaced in between; those that are not enabled (`EnabledLists`) stay empty.
`botCache` is read before the lookup and
written after it. `age` is a ghost: how long ago the forward zone of a good
domain last listed the client.

## The runs

| run | instance | shows |
|---|---|---|
| `lock_safety` | 3 processes, crashes, I/O errors | exclusive; one cleaner, on a file still stale; nobody removes a held lock file |
| `lock_liveness` | 3 processes, crashes, fairness | `Lock()` returns; stale locks go away unless a cleaner died; implements `ExclusiveLock` with its fairness |
| `lock_guard_leak` | 3 processes, crashes, fairness | finding: a dead cleaner's `.cleanup` file blocks all cleaning for ever |
| `lock_containers` | 2 processes with equal ids | finding: `Close()` after a failed `Lock()` removes another's lock |
| `visit` | 1 visitor, 2 proxies, with and without a forged header, a page and 2 links, 3 deployments, threshold 2, fairness | circuit and count agree, the circuit recovers and trips, no outage, no fallback; provider verifications last for the window, only the fallback shortens; the destination is kept; no redirect to another host; no redirect from a verification into the next challenge; every visit ends at a page |
| `challenge_ttl_race` | 2 visitors, threshold 2 | finding: fallback verifications that last for the whole window |
| `store_hostile` | 2 overlapping instances, every failure | an instance that thinks it has saved everything has; lives are prolonged by load times only; what an instance has loaded is what the file still has |
| `store_orderly` | 2 instances in turn, crashes, fairness | a shutdown saves all marks; entries of the file survive; every change is saved some time |
| `store_lost_load` | 2 instances in turn, lock timeouts | finding: a failed load leads to the loss of the file's entries |
| `gate_shared_caches` | 2 requests at a time of 7 kinds, session mode, 2 lists enabled | passes are justified by something recent; the verified are not challenged |
| `gate_liveness` | 2 requests, 2 good hostnames, 1 list enabled, fairness | confirmed bots get in again and again |
| `crawler_lists` | 3 sources, 2 URLs, 3 addresses in 4 networks, 3 answers, 1 reader, fairness | a list is replaced as a whole by what was published, and confirmed, during the refresh, and nothing else is missing; it catches up once endpoints are steady; its goroutine ends with its instance |

Bounds, and why they are enough. Three processes are the least for the races of
the lock: one left a stale file, two compete to clean up and to create. The
proofs remove the bounds of the safety properties. `Threshold = 2` with `MaxFailures = 3` has a count
below, at and above the threshold; above it the count decides nothing.
`Window = 2` and `Hour = 1` make the two lifetimes differ and let entries
expire. `visit` has one visitor: others share with it only the circuit, which
their failures move no further than probes do, and the safety properties are
proved for any number of visitors. One escaped parameter tells a destination that
was decoded once too often; the links are one without a destination and one with
"%2F%2Fhost", which two challenges turn into "///host" for `http.Redirect`. The
forged header has an address, a blank and an exempt address. Of the four
deployments `visit` leaves out the one with redirects and sessions, for its size:
where the challenge is shown decides about the destination and the mode about the
key, and neither about the other; the theorems hold for all four. In `crawler_lists` two URLs are one that fails
after one that answered; the answers are overlapping networks of one family, one
network of each family, and an entry that is no CIDR (an answer without entries
behaves like it, for Google as a list of nothing and for UptimeRobot as a failure;
Common Crawl fails or accepts, which `FetchCommonCrawl` leaves open). Addresses
of one bit in one family and of two in the other have every relation of prefixes
that reduction tells apart: equal, nested, apart, of different families. Two instances are enough for a save against a load, a save or a crash of
another; two marks (`MaxMarks`) for one change before and one during a save.
`LoadSlack` and `MaxLag` bound the ticks that pass while a load or a DNS answer
is held; with 1 the expirations drift, and `LoadsHardlyProlong` says by how
little. Requests of different clients share nothing but the zones and lists, so
the gate runs have one client. Their lists are UptimeRobot's and two of the
crawlers', of which `EnabledLists` are ever filled: in the larger run one of each
kind, since the two kinds give different reasons to pass. `store_orderly` has one key because a save writes
every entry in the same way, and one lifetime because a shorter one, set over a
longer one, is meant to win.

Fairness. Weak fairness on what a running process or goroutine does next, and
on the passing of time: the Go scheduler and the clock provide it. Crashes,
cancellations, I/O errors and changes of the environment are never fair. Strong
fairness is assumed of `Timeout` (`select` picks a ready case at random, so a
timer that has fired is noticed), of `SaveLock` and `Write` (a save retried
every second succeeds some time: the random jitter of `saveState` is there for
it), of `Exit` (`select` between a tick and the end of the context, both ready)
and of DNS lookups that would succeed. Of a visitor it is assumed that it goes on
(`GoOn`: it follows redirects, and after an error asks again for the page or the
link), and, with strong fairness, that now and then it submits the form
(`Submit`), waits for the answer (`SiteverifyAnswers`), solves the captcha
(`Accept`) and follows the redirect before the entry expires or the cookie is
gone (`FollowInTime`); `VisitsEnd` is about a visitor that stays with what it
wants. Random numbers do not fail for ever (`Admit`). Endpoints and DNS
are never fair: `ListCatchesUp` assumes that they stay up. That the lock of a dead
holder expires (`LockExpires`) is what `ExclusiveLock` promises and what
`lock_guard_leak` shows to fail once a cleaner has died; the instances of
`store_orderly` follow one another, so that none of them meets another in the
cleaning. `LockReturns` is checked without
I/O errors: a process that removes one stale lock after another skips its timer
every time.

## What is proved

For every set of processes, visitors, instances, requests and keys, and every
value of the other constants:

| theorem | from | says |
|---|---|---|
| `FileLockProofs!TypeCorrect` | assumptions on the constants | types |
| `FileLockProofs!MutexCorrect`, `CleanerCorrect`, `HeldFileCorrect` | `Disciplined` | one holder; one cleaner, on a stale file; held files stay |
| `FileLockProofs!Refinement` | `Disciplined` | the protocol implements `ExclusiveLock`, safety part |
| `ChallengeProofs!TypeCorrect` | assumptions on the constants | types |
| `ChallengeProofs!CircuitCorrect`, `GrantsCorrect`, `ShorteningCorrect` | the same | circuit and count agree; provider verifications last for the window; only the fallback shortens an entry |
| `ChallengeProofs!NoFallbackCorrect` | the same | no fallback as long as the provider answers |
| `VisitProofs!VisitsImplementChallenge` | none | visits are behaviours of `Challenge`, so all of the above holds of them |
| `VisitProofs!DestinationCorrect` | assumptions on the constants | the destination is kept |
| `VisitProofs!ClientCannotChooseAddress`, `VisitTypeCorrect`, `NoLoopCorrect` | the same, with `ProxyAssumption` | a request counts for the address of its client, whatever header it forged; types; a verified visitor is not challenged again by the redirect |
| `VisitProofs!StaysOnSite` | the assumptions on the constants | whatever destination a link to a challenge has, and however often it is escaped, no redirect leads to another host |
| `StateStoreProofs!TypeCorrect` | assumptions on the constants | types |
| `StateStoreProofs!SavedCorrect`, `LivesCorrect`, `LoadsCurrentCorrect` | the same, with every failure and overlap | saved means on disk; loads prolong lives by their own time only; what was loaded is what the file still has |
| `StateStoreProofs!ShutdownCorrect` | `NoFailures` | a shutdown saves everything marked before |
| `StateStoreProofs!SurvivalCorrect` | `Orderly` | unexpired entries of the file survive saves, crashes and restarts |
| `RequestGateProofs!TypeCorrect` | assumptions on the constants | types |
| `RequestGateProofs!VerdictsCorrect`, `PassesCorrect`, `VerifiedCorrect` | the same | the gate's three safety properties |
| `CrawlerRangesProofs!ReducedDenotesTheSame` | finitely many addresses | reducing a list changes no answer |
| `CrawlerRangesProofs!TypeCorrect`, `ListCorrect`, `NothingLost` | assumptions on the constants | types; the list is what was published and confirmed during the refresh |
| `CrawlerRangesProofs!Refinement` | the same | the list implements `PublishedList`, safety part |
| `PrefixesProofs!ReductionCorrect` | `Sorts`, the contract of `sort.Slice` | `ReduceCIDRs` keeps the networks that no other covers, each once, and all addresses |

`Disciplined` is: process ids differ, and a holder finishes within the stale
age. Both are needed: `lock_containers` shows what equal process ids do, and
with a `HoldBound` above `StaleAge` TLC finds two holders, which is how a lock
that goes by ages has to behave. `NoFailures` is: reads and writes succeed, and
`Lock()` waits for its turn. The last save is tried once only, so without it the
theorem is false. `Orderly` adds that instances run one after the other, that
there is one lifetime, and that a file loads within a tick: `store_lost_load`
shows what a failed load does, and a shorter lifetime is meant to win.

The arguments. None of these properties is inductive.

- *Lock.* Nothing in mutual exclusion says that the lock file exists while a
  process is between `Lock()` and `Close()`. The invariant adds that a process
  in possession is the creator of the file at the path and, past its write, that
  its token is in it; that a token found in the file is its creator's, so
  `Unlock` only ever removes its own; that processes with the guard in hand own
  the `.cleanup` file, hence at most one; and that a cleaner about to remove has
  seen a file that is still stale. A held file is never stale under
  `Disciplined`, so no cleaner removes it: lemma `HeldNotStale`.
- *Challenge.* What a handler is about to store for the provider lasts for the
  window; a configured proof of javascript has no fallback and never opens the
  circuit, so its second reading of `circuitState` is harmless.
- *No outage, no fallback.* While widget and siteverify answer, nobody records a
  failure: a rejected captcha is no failure, and a probe that was answered before
  is recorded as it was answered. So the circuit stays
  closed, no handler takes the fallback's way, and what is granted is granted for
  the provider.
- *Addresses and keys.* Behind the client's own address the header has only what
  the proxies appended, of which `Depth` components count: the indices behind it
  are those of `Appended`, moved, so there are as many. Whatever stands before it
  has more behind it. So every request of a visitor has one address; the key of
  its entry is that address or the token of the cookie, chosen by the deployment,
  and the request after the verification computes the same key.
- *Saving.* `stateSavedDirty <= dirtyAtStart <= stateDirty` during a save; and
  for every key, the snapshot (before the write) or the file (after it) has what
  the cache has, unless the change is still unmarked or is one that
  `dirtyAtStart` does not count. When the counters agree at the end, no change is
  uncounted. This is where the order of reading the counter and copying the cache
  matters. An instance that is still loading has not written the file.
- *Shutdown.* The final save counts every mark that was there at the
  cancellation, and no other save is final.
- *Lives.* File, caches and snapshots all stay below the granted time plus the
  ticks of loading: the one duration that stands still during a tick is that of
  a load, and that tick is counted.
- *Loads.* Whoever works under the lock works alone: the file changes only by the
  holder's write, and a lock expires only when its holder is dead. What was read
  thus stays what the file has, but for ticks, each of which is counted.
- *Survival.* The instance that runs has, once it has loaded, no less of any entry
  than the file has; what it is about to write lies between the two. A new entry
  has the one lifetime, which bounds all others.
- *Destinations.* At every point between the first request and the redirect, the
  text is the URI that the visitor asked for, escaped as often as this point has
  it, but for the escapes that earlier challenges in redirect mode took away.
- *Redirects.* What `sanitizeDestination` lets through begins with a slash, plain
  or escaped once, and `url.Parse` sees no host in it. That alone keeps nobody on
  the site: "///host" is such a text. But `http.Redirect` takes it for a path,
  puts a slash in front of an escaped one and makes one of many, so that what is
  sent has exactly one plain slash in front.
- *Lists.* What was collected so far was published since the refresh began; what
  was published all the time since then is collected, for the URLs already
  fetched, or is still to be verified, or its lookup failed. While a writer holds
  the mutex there is no reader, and what it has appended is part of the result, so
  handlers see nothing in between. That reduction loses nothing takes an argument
  of its own: among the networks that cover a given one there is one with the
  fewest addresses outside (sets are finite, the naturals well-founded), and
  nothing covers that one.
- *Reduction.* In a sorted list whatever covers a prefix comes before it, or is
  equal to it (`WiderComesFirst`). Of the indices that cover a candidate the least
  is not covered by any before, hence kept (`KeptIsUncovered`): one step of
  well-foundedness, no induction over the loop. A kept prefix is covered by no
  other, and equal ones are kept once, at their first place.
- *Gate.* A verdict in a handler is at most as old as the lag; requests with
  parameters reach neither cache nor lookup; a visitor who stays verified is
  never past the gate. The proof looks at one request at a time (`HandlerInv`)
  and shows that the steps of the others leave it alone.

TLC checked the properties on the small instances before they were proved.

Every invariant and every safety property that a passing run checks is a theorem.
Only model-checked: all liveness (fairness and `ENABLED` are outside of what the
provers reach), with it the fairness parts of `ExclusiveLock` and
`PublishedList`; and two facts about sequences that would need induction, for all
small inputs: that the loop of `getClientIP` ends at `ClientIP` (headers of up to
four components), and that a list can be sorted as `Sorts` says (up to three
entries).

## What is not modelled

The encoding of the state file and the requests to the providers; the checks of
Turnstile's hostname and age (one choice between accept and reject); the
temporary files of `atomicWriteStateFile` and what a power failure does to a
rename without a sync: what is left then depends on the file system, and the
repository promises nothing about it. HTTP and JSON are an answer or a failure;
`Fetch...` without a context and the constructors differ from what is modelled in
nothing that matters. Of addresses, the port that `getClientIP` cuts off, and
several visitors behind one address, who share an entry by design. Of
destinations, malformed escapes, backslashes, fragments, and dots in paths; pages
that visitors ask for, other than the destinations of links, begin with one
slash. Entries under the session
tokens that a visitor had before are never asked for again, and left out. The
statistics page reads the cache and changes nothing; configuration is checked
once before anything is concurrent, and the models start in the states that it
leaves; assets and logging change nothing. `StateStore` relies on
`ExclusiveLock`, that is on `Disciplined`; what happens without it is shown by
the runs of `FileLock` only. The go-cache library is modelled by what its
callers see of it.

## Plan

Done: every component with state that changes, each with its proofs, the request
from its arrival to the page, and the address lists behind the gate. Left:

1. Crashes of the machine in `StateStore` (the rename without a sync), as soon as
   it is settled what the state file should survive.
2. `StateStore` over `FileLock` itself, so that a stale lock is taken from a save
   that is slower than the stale age.
3. A bot that goes through `RequestGate` in `Visit`, so that both kinds of entries
   are in one state space.
