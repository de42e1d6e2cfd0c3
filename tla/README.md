# A verification project for the load balancer

TLA+ models of the HTTP load balancer in `src/`, checked by TLC on small
instances and, where a result matters for every configuration, proved with TLAPS.
Every module is written from the Go source; where a document or a comment says
something else, the difference is kept as a run that TLC refutes or as an entry
in the list of differences below.

    tlc -workers 2 -config BreakerHistory.cfg BreakerHistory
    tlapm CircuitBreakerProofs.tla

`PROJECT.json` lists the runs, the source lines behind each definition, a mutant
for each property, the hazards of the code and the theorems.

## 1. Inventory

| Component | State | Operations | What makes it correct |
|---|---|---|---|
| Circuit breaker (`circuitbreaker/breaker.go`) | state, generation, counts, expiry, under one mutex | `Allow`, the function it returns, `State`, `TripManually`, `ResetManually` | a slot of the half-open state is never lost; it trips in time, recovers, and follows CLOSED, OPEN, HALF-OPEN |
| Breaker manager (`circuitbreaker/manager.go`) | map from host to breaker, RWMutex | `GetBreaker`, `RemoveBreaker` | one breaker per host; no race on the map; no deadlock |
| net/http engine (`server/proxy.go`, `retry/retry.go`) | per request: the selected backend, `done`, attempts | select, fall back, forward with retries, report | each admission reported exactly once; no needless 503; every request answered; only idempotent requests repeated |
| fasthttp engine (`server/fastproxy.go`) | as above, and an unguarded map of clients | `Handler`, `getClient` | each admission reported once, and no race on the map |
| Backends and pool (`balancer/backend.go`, `pool.go`) | alive flag, connection count, failure counts | `SetAlive`, `HealthyBackends`, `IncrementConn`, ... | counts return to zero |
| Strategies (`balancer/*.go`) | round-robin counters, the hash ring | `Select`, `SelectKey` | a backend that was seen alive; fair shares; few keys move |
| Health checker (`health/checker.go`) | ticker, a goroutine per probe | `Start`, `probe`, `setAlive` | verdicts in order; flag and gauge follow the server |
| Admin API (`cmd/proxy/net.go`, `fasthttp.go`) | none of its own | `/api/backends`, `/api/chaos/*` | what it shows is what is |
| Metrics (`metrics/collector.go`) | gauges and counters | `Set*`, `Record*` | gauges agree with the state they report |
| Middleware (`middleware/*.go`) | a token bucket per address; per request the writer that bounds a response | handlers in a fixed order | what is refused never reaches a backend, the bounds hold, no panic escapes |
| Configuration (`config/*.go`) | the current `Config` | load, validate, watch, reload | only valid values are stored; the last valid one is, in the end |
| Lifecycle (`cmd/proxy/main.go`, `net.go`, `fasthttp.go`) | servers, signal handler, context | start, listen, shut down, exit | what is served is health-checked; a signal ends the process; requests in flight are drained |
| Request ids, TLS loading, errors, buffer pools, test server | none that the above reads | | |

How they interact: a request goroutine passes the middleware, asks the strategy
for a backend (which reads the pool's flags), asks the manager for the backend's
breaker, asks the breaker, and falls back to the other healthy backends if it
refuses. The outcome goes to the breaker through the function that `Allow`
returned, to the backend's counters and to the metrics. Meanwhile the health
checker and the chaos endpoints write the flags, the admin API reads the breakers
(and, in doing so, moves them on), the watcher reloads the configuration, timers
expire, and a signal may end it all.

What is hard: everything above runs concurrently, and only single accesses are
guarded. A request is away for up to 30 seconds between the two calls that it
makes to a breaker, during which the breaker may open, expire and close. Flags,
counts, gauges and the hash ring are read and written in separate critical
sections. Probes may overlap. The configuration file is read while it is written.
Shutdown, retries, panics and disconnecting clients cut requests short.
`PROJECT.json` lists each of these under `hazards`, at its line.

## 2. Modules

| Module | Models | Theorems in |
|---|---|---|
| `Breaker` | the methods of `*Breaker` as operators on its value | |
| `CircuitBreaker` | one breaker, its requests, the admin API and the clock; implements `CircuitProtocol` | `CircuitBreakerProofs` |
| `BreakerHistory` | `CircuitBreaker` and the failures in a row that were really reported | `CircuitBreakerProofs` |
| `CircuitProtocol` | the abstract breaker: three states and two counters | |
| `BreakerManager` | `GetBreaker`'s double-checked locking | `CircuitBreakerProofs` |
| `Proxy` | the net/http engine on top of one `Breaker` per backend; uses each as `CircuitBreaker` prescribes | `ProxyProofs` |
| `FastProxy` | the fasthttp engine, its clients, the gauges, the chaos handlers | `FastProxyProofs` |
| `Strategies` | round robin, weighted round robin, least connections | `StrategiesProofs` |
| `ConsistentHash` | the hash ring and the calls that share it | `ConsistentHashProofs` |
| `HealthChecker` | ticker, probes, flag, count, gauges, chaos toggle | `HealthCheckerProofs` |
| `Frontend` | both middleware chains around the proxy | `FrontendProofs` |
| `Process` | start, configuration, watcher, listeners, signals, shutdown | `ProcessProofs` |

`MCFastProxy`, `MCStrategies`, `MCConsistentHash`, `MCFrontend` and `MCProcess` give
the constants that a configuration file cannot express: weights, placements of
virtual nodes, sets of configurations, symmetries. `MCProxy` puts two instances of
`Proxy` into one run. An operator whose comment
begins with "Mutant of" is a plausible bug in the definition that follows it; no
specification uses it.

### Breaker, CircuitBreaker

Each method holds `cb.mu` throughout and is therefore one step. `currentState`,
which both returns a state and may reset the counts, is split into
`currentState` and `currentStateEffect`; `State` stores the result and `Allow`
does not, exactly as in the code. Times are relative: `expiry` is the number of
ticks left, and the `now` that a request captured when it was admitted and passes
to `setState` when it reports is its `age`. Ages stop at `Horizon`, beyond which
every deadline is past. The zero `time.Time` of `NewBreaker` and of the half-open
state is a value of its own. Counters wrap at `CounterMod` (2^32 in the code) and
the generation at `GenerationMod`. `DefaultConfig` is the only configuration that
the program uses; its thresholds are constants. `TotalSuccesses`, which nothing
reads, and the calls of `OnStateChange` are left out here; `FastProxy` has the
latter.

The history variable `fresh` holds the requests in flight that were admitted in
the current generation. The code counts the generation and never compares it, so
late reports of older requests are counted as if they were current; several
properties are about what survives this.

`BreakerHistory` adds `streak`, the failures in a row that were reported to the closed
breaker. It is counted by the reports alone, so that it does not forget what the
breaker's own `ConsecutiveFailures` forgets when `currentState` clears the counts. A
success, an opening and a tick of the clock after the window end a streak, so that
failures that are far apart are not held against the breaker.

### BreakerManager

One step per lock operation; what a thread does to the map between two of them is
one step. A `Lock` that waits keeps new readers out, as in `sync.RWMutex`. The
history variables record how often a name was removed.

### Proxy

A step is an access to shared state. `HealthyBackends` reads the flags one by one.
The strategy may return any backend as long as one was seen alive, which covers all
strategies (a hash ring that another request has just rebuilt may name a backend
that this one did not see). `GetBreaker` is part of the step that uses the breaker;
`BreakerManager` is the justification. `Attempt`, `AttemptAgain` and
`AttemptsExhausted` are the three ways in which an iteration of `RetryWithData` can
end, `Disconnect` is a client that goes away, which the retry loop notices during
a backoff and the transport during an attempt. Results are classes of outcomes: a
status below 500, one of 502 to 504, another 5xx, a transport error, a cancelled
context. `SetAlive` stands for the health checker and the chaos endpoint. `steady`
is a history variable: the backends that were available during the whole of a
selection.

### FastProxy

The selection is that of `Proxy`, but a breaker is reduced to its state, which moves
along the edges of `CircuitProtocol`, and flags to the fact that they may be
anything. In exchange, what `Proxy` leaves out is taken apart: `IncrementConn`, the
read of the count, the write of its gauge, the read and the write of the aggregate
gauge are five steps, at the start of a request and again in its deferred function;
the lookup in the map of clients and the beginning and the end of a store are
three, and an access that begins during a store may abort the process. A chaos
handler changes the breaker, whose callback sets the gauge, and sets the gauge
again in a step of its own. `overtaken` is a history variable: the breakers whose last
change of state came while a chaos handler was between these two. It is about
what happened, not about whether the gauge is right. The net/http engine writes its gauges in the same way.

### Strategies

One strategy, chosen at the start, is used by all threads. A step reads one flag,
one connection count, or accesses the counter: `Add` of round robin is one step,
weighted round robin loads and stores in two. `span` remembers which backends were
alive during a call and between which bounds their counts were; `returned` how many
calls of a round robin returned each backend, `stable` whether a flag was ever
changed, and `raced` whether two calls of weighted round robin were ever between load
and store at the same time. A sum of weights is the cardinality of a set in which each backend has as
many slots as its weight, which is something proofs can count.

### ConsistentHash

A call reads the flags one by one, compares fingerprints under the read lock,
rebuilds under the write lock, and looks up under the read lock. Hash values are
positions given by constants, so any placement is covered, collisions of virtual
nodes included. The sorted slice is represented by the domain of `nodeMap`;
`sort.Search` finds the least position at or above the hash. The 64-bit fingerprint
of the list of URLs is taken to differ for different lists. `Flapping` bounds
which flags change.

### HealthChecker

One backend, because probes of different backends share nothing. The four writes
of `setAlive` are three steps (the last two write unrelated gauges). A server is
up, down or hung; a probe that waits for a hung one expires at the timeout. A
goroutine that has its verdict finishes within a tick. The timeout is any that the
validator accepts, and the operator may be there or not: both are fixed in `Init`.

### Frontend

A request goes down the chain that `runNetHttp` or `runFasthttp` puts together, in
the order in which the handlers really wrap each other, to the next handler that
does more than pass it on (`Stops`, `Down`): a filter that answers it, the rate
limiter, or the proxy. `getLimiter` and `Limiter.Allow` are two critical sections
and two steps. The proxy answers in any way that `Proxy` and `FastProxy` can; the
reverse proxy copies a body in pieces of any length, and panics if a write is
refused by `limitedResponseWriter` or the copying fails. Tokens come one per tick,
which is 1/rps; `win` and `age` count the admissions of each address in a window
that may begin at any time. Statuses of handlers and lengths are kept, texts are not;
200 stands for every status of a backend. `SizeLimit` is the writer that bounds
responses. `max_request_size` installs the same handler (net.go:155); all that does is to
make the read of a long body fail, and the proxy answers this as it answers any other
failure (`ProxyError`).

### Process

`main` loads and validates the file, starts the goroutines and listens. The signal
handler, the watcher, requests and editors are actions of their own. An editor
writes in place, in two parts each of which is an event, or renames a new file over
the path, which detaches the watch. The difference between the engines is kept:
net/http remembers a `Shutdown` that came before `ListenAndServe` and bounds the
drain, fasthttp does neither and does not look at `cfg.TLS`. Configurations are
records of the fields that `Validate` reads, with a class for each string.

## 3. Runs

| Run | Instance | Properties |
|---|---|---|
| `breaker` | 3 requests, 2 trials, window 2, timeout 1, thresholds 2 and 3, counters mod 4, operator | `TypeOK`, `NeverWedged`, `TrialAccounting`, `TripsInWindow`, `ImplementsProtocol`, `HalfOpenResolves`, `RecoveryWhenPolled` |
| `manager` | 3 goroutines, one host, removed up to twice | `OneBreaker`, `NoMapRace`, `CallsReturn` |
| `proxy` | 2 requests that share 1 backend, with operator and disconnections; or 1 request on 2 backends; 1 retry | `ConnsExact`, `SentOnce`, `NoNeedless503`, `UsesBreakers`, `NoneUnrecorded`, `Answered` |
| `fastproxy` | 3 requests, 2 at a time, on 2 backends, two chaos requests | `AccountedOnce`, `GaugesExact`, `BreakerGaugeAgrees`, `SafeOnceWarm` |
| `strategies` | 2 threads, 2 backends of weights 2 and 1, up to 4 calls that return the same one, each strategy | `ChoiceIsCurrent`, `RoundRobinEven`, `WeightedShare`, `LeastOfTheCall` |
| `health` | interval 2, timeouts 1 and 2, with and without operator | `GaugeAgrees`, `VerdictsInOrder`, `HealthDetected` |
| `consistent_hash` | 3 backends, 2 of which come and go, 2 goroutines, 2 keys | `RecentlyAlive`, `NilOnlyIfNoneSeen`, `MinimalDisruption`, `Affinity` |
| `frontend` | 2 requests from 2 addresses, burst 1, bodies up to 3 with a bound of 2, three configurations (both engines, with and without limits, black and white lists) | `RateBound`, `ProxyGuarded`, `ResponseBounded`, `Answered`, `NotStarved` |
| `process` | 2 requests, 6 configurations (3 valid), 3 changes of the file | `ServedIsChecked`, `ReloadConverges`, `StopsOnSignal` |

Why these bounds are enough. Three requests of a breaker allow one admitted before
it opened, one trial and one newcomer at the same time; the timers are short and the
counters narrow so that windows end, deadlines lie in the past and counters wrap
within the run. The proxy is too large for two requests on two backends (over ten
million states), so the two kinds of interference are split by the initial state of
`MCProxy`: requests that share a breaker, and a request whose alternatives change under
it. What an instance leaves out are inputs (which requests come, what the operator
does) and choices of the strategy, so a request that can go on in `Proxy` can go on
there, and `Answered` means the same. The trip thresholds are
1 there, which makes every failure matter. `MaxStreak` only has to reach the limit that
a property compares a streak with. Two connections, one of which serves a
second request, are enough for the map of clients to be written by both, and for
gauges to be overwritten; two chaos requests can each overtake the other. Four calls that return the first backend make two full rounds of the
weights (3), with values repeated and the counter put back in between. An interval of 2 has a timeout below it, which
keeps probes apart, and one equal to it, which lets them overlap.
`MinimalDisruption` needs three backends, since with two a key cannot move between
backends that both stay. In `frontend` a body may be below, at and above the bound, in
one piece or several, and a burst of 1 makes two overlapping requests compete. In
`process`, three changes suffice for a write that is read in the middle, another one
during the reload, and a rename.

The deadlock check is off for `fastproxy`, where an aborted process stops and
arrivals are bounded, and for `process`, where the process ends.

### Runs that refute what is documented

| Run | The text | What happens |
|---|---|---|
| `breaker_recovery_unpolled` (`AutomaticRecovery`) | "Automatic recovery detection" (ARCHITECTURE.md:81) | `Allow` never stores the half-open state. A breaker that opened with `MaxRequests` or more requests counted refuses for ever, until somebody calls `GET /api/backends`, whose `State()` stores it. |
| `breaker_never_trips` (`FailuresTrip`) | "Trip if >= 3 consecutive failures or >= 5 failures with > 40% failure rate" (breaker.go:52), "`Interval`: Rolling window for error counting" (ARCHITECTURE.md:74) | After the first window of a closed breaker, `currentState` clears the counts at every call and begins no new window (breaker.go:165). Failures reported one after the other are each the first one: the breaker stays closed, however many they are. |
| `process_draining` (`InFlightComplete`) | "Implements connection draining to ensure in-flight requests complete during shutdown" (README.md:378) | `Shutdown` closes the listener first; `ListenAndServe` returns at that moment, and so does `main`, which ends the process while `Shutdown` still waits for requests in another goroutine. |

### Other differences

Met while modelling, without a run of their own.

Breaker and engines:

- The open period is counted from the admission of the request that failed
  (breaker.go:143): one that took longer than the timeout opens a breaker that has
  already expired, against "Requests fail fast (circuit open)" (ARCHITECTURE.md:68).
- A success of a request from before the breaker opened counts as a trial
  (breaker.go:220).
- The rate rule compares the number of requests with 5 (breaker.go:56) where the comment
  says ">= 5 failures" (breaker.go:52), and works on counters that wrap.
- A client that disconnects is reported as a failure of the backend (proxy.go:172;
  ARCHITECTURE.md:80), and so is a request body above the size limit.
- A request whose transport failed is recorded twice, by `RoundTrip` (proxy.go:309) and by
  `errorHandler` (proxy.go:189), so `proxy_requests_total` is not the "Total number of HTTP
  requests proxied" (collector.go:66; README.md:295). `NoneUnrecorded` is about requests that
  would be missing; it does not defend the second record. A trip through the chaos
  endpoint is counted twice as well.
- Overlapping requests lose updates of the aggregate gauge, which then never comes back
  to zero (proxy.go:250, fastproxy.go:132), against "Total number of active in-flight
  connections across all backends" (collector.go:83); what `GaugesExact` says of the gauges
  is about requests that do not overlap in them.
- The map of clients of the fasthttp engine has no lock (fastproxy.go:58, 72): two requests
  that arrive before every backend has a client can crash the whole process, with all
  requests in flight ("concurrent map writes"). `FastProxy` has this crash as `Abort`, and no
  property says that it does not happen; `SafeOnceWarm` says that it cannot happen any more
  once every backend has a client.
- Overlapping calls of weighted round robin draw the same value, and a late store sets
  the counter back (weighted_round_robin.go:33-34). The operations are atomic one by one
  and not together, against "Smooth distribution based on weights" and "Atomic operations
  for thread safety" (ARCHITECTURE.md:55-56): after an overlap the lighter of two backends
  may get more calls than the heavier one, against "Higher weight = more requests"
  (README.md:245). `WeightedShare` therefore bounds the shares from above only up to the first
  overlap; that no backend gets less than its weight in a round holds throughout.
- Overlapping calls of least connections choose the same backend.
- A breaker that changes between the two writes of a chaos handler (net.go:86-87) may show
  its old state until it changes again; `BreakerGaugeAgrees` excludes this (`overtaken`).
- A client without `X-Forwarded-For` is hashed by `r.RemoteAddr` with its port (proxy.go:117)
  and so has another key on every connection. `Affinity` is about keys; that a client
  stays with one backend over several connections, the "session affinity" of
  ARCHITECTURE.md:48, does not follow.

Health checker:

- `validateHealth` accepts a timeout equal to the interval although its message says
  "must be less than" (validator.go:97); a stale verdict may then overwrite a newer
  one, so `VerdictsInOrder` and `GaugeAgrees` are about smaller timeouts.
- A chaos toggle that overlaps a probe may leave gauge and flag in disagreement until
  the next probe, so `GaugeAgrees` is about processes without an operator.
- Failed requests show in the gauge of failed probes (collector.go:157).

Middleware:

- The chain is Recovery, Logging, SizeLimit, IPFilter, Security, RateLimit, RequestID.
  ARCHITECTURE.md:113 and 166-168 put "Rate Limit" before "IP Filter" and CORS: as documented,
  blocked and preflight requests use up tokens of their address; in the code they are
  answered before the limiter and are never limited. `ProxyGuarded` holds for both orders.
- CORS cannot be switched off.
- The rate limiter goes by the peer's address and the IP filter by the headers.
- Recovery swallows `http.ErrAbortHandler`, so a response that was cut short may look
  complete to the client, with the text of the error appended.
- Logging logs the status of the writer it was given (logging.go:26), not the one
  that was sent through a wrapper.
- A burst of 0 with a positive rate is accepted and refuses everything.
- `limitedResponseWriter.ReadFrom` bypasses the bound; nothing calls it.

Configuration and process:

- `config.yaml` has `rate_limit.rate` where the code reads `rps`. The rate is then 0, the
  burst is not, and the validator rejects the file (validator.go:118).
- A reloaded configuration is stored and nobody reads it again; README.md:25 promises
  "Hot-reload configuration without service interruption". A file that is renamed
  over the path is no longer watched.
- `Shutdown` of fasthttp before it listens is forgotten; the properties that exclude this
  say so (`Forgotten`). The fasthttp engine ignores `tls` and `security`.
- A minimum of TLS 1.3 without a maximum accepts no client, since an empty version is
  read as TLS 1.2.

### Fairness

Requests in flight report (weak fairness): the transport's dial, header and read
timeouts end every attempt. Requests keep arriving at a breaker, and time passes.
Goroutines that can run do run. `sync.RWMutex` hands the lock over, which is strong
fairness of `RLock` and `Lock`. Nobody is obliged to poll the admin API or to use
the chaos endpoints; `RecoveryWhenPolled` has polling as its premise. The server's
health and the flags change at will, and convergence is claimed only once they
stop. In `Frontend` the goroutines of requests and the clock are fair and arrivals are
not; what is copied ends. In `Process` the goroutines of main, handler and watcher are
fair; signals, requests, editors and failures are not, and a request may take for
ever.

## 4. Proofs

All proofs hold for every value of the constants that satisfies the named
assumptions of the modules: `BreakerAssumption` (what `NewBreaker` enforces:
positive limits and durations, and thresholds that fit the counters),
`CallersAssumption`, `ProxyAssumption` and `FastProxyAssumption` (finitely many requests
at a time), `StreakAssumption` (a streak is counted up to the limit at least), `RingAssumption` (each backend has a virtual node), `HealthAssumption`
(a positive interval, room for two probes), `StrategiesAssumption` (positive weights,
which `NewBackend` enforces), `FrontendAssumption` (types of the configurations) and `ProcessAssumption` (what is seen in
the middle of a write is a content too). `ManagerAssumption` only types a bound.

**Breaker.** The inductive invariant is `IInv == TypeOK /\ TrialAccounting /\
CountsBelowLimit`. `NeverWedged`, the goal, is not inductive: a half-open breaker could
be at its limit with only requests of an earlier generation in flight. What rules
this out is the accounting: the slots counted are at most the successes plus the
fresh requests in flight, the successes are below `MaxRequests`, and a failure
leaves the state at once. Late successes only add to the left summand, late
failures reopen, and every entry to the half-open state zeroes both sides. The
theorems are `TypeCorrect`, `TrialsAccountedFor`, `HalfOpenNeverWedged` and `Refinement`:
every step of the breaker is a step of `CircuitProtocol` or a stutter, with `admitted` and
`passed` read from the counts while half-open. `CountsBelowLimit`, that a closed breaker's own
count of failures is below the limit, is only a part of the argument. The theorem is
`FailuresTripInWindow`, about the failures that were reported: within the window of a closed
breaker they are all in its count (`StreakInv`), which is what the end of the window breaks. Each action is reduced to a lemma about the operator of `Breaker` that it
applies.

**Manager.** `CircuitBreakerProofs` is about the whole package `circuitbreaker` and extends
`BreakerManager` too, whose specification has names of its own for that reason.
`ManagerInv == ManagerTypeOK /\ LockInv /\ MapAgrees /\ OneBreaker`. `LockInv` ties the
program counters to the holders of the lock, `MapAgrees` says that what a call
returned since the last removal is what the map still holds. `SharedBreaker` and
`MapIsGuarded` follow for any number of goroutines.

**net/http engine.** `IInv` has four parts: `Shape` (types), `ConnsExact`, and for each
request `Fine` (it waits for a retry only if it may be repeated; how often it has been
recorded at each place) and `Untried`. The last one carries `NoNeedless503`: of the
backends that were available all the time, those that the scan has passed are on the
list, the selected one is not among them once its breaker has refused, and a
breaker that refuses takes its backend off both. `ConnectionsExact`,
`RepeatedOnlyIfSafe`, `RefusedOnlyIfNone` and `Recorded` follow for any number of
requests, backends and retries.

`BreakersUsedProperly` is the composition of the proxy with its breakers: every step of
the proxy is, for each breaker, a step of `CircuitBreaker` or a stutter (`UsesBreakers`).
A request that is admitted reports to that breaker, once, with the age it has by then,
whatever path it takes. `BInv` adds to `IInv` what this needs: a request has an age
exactly while it is between `Allow` and the report (`Away`), and every breaker has a
generation and its set of fresh requests. `QuietStep` disposes of the steps that do not concern a breaker; an
admission, a refusal, a report, the operator and the clock have a lemma each
(`AdmitUses`, `RefuseUses`, `DoneUses`, `OperatorUses`, `ClockUses`). Since what
`CircuitBreaker` starts in is what each breaker starts in (`UsesInit`), the theorems about
the breaker hold for each one inside the proxy; this last inference is by hand, because
the prover cannot cite a theorem through an instance with a parameter.

**fasthttp engine.** `IInv == TypeOK /\ Account /\ GaugeInv /\ Gauges`. `GaugeInv` adds to
`BreakerGaugeAgrees` that what a chaos handler is about to write is the state of its breaker,
unless this has changed since the handler forced it. `Account` adds to `AccountedOnce` that only the deferred function counts downwards.
`Accounted`, `GaugeIsBreaker` and `WarmIsSafe` follow; each action is first reduced to what
it does to the request that takes it. `Gauges` carries `GaugesExactAlone`: the count of a
backend is always a number of requests, and as long as no two have overlapped at most
one is among the gauges (`OneWriter`), the gauges are right but for what this one still
owes them, and the values it has read are the ones that are there.

**Strategies.** `IInv == TypeInv /\ CallInv /\ StableInv /\ TurnInv /\ RoundInv`. `CallInv`
follows each call: what it has on its list was alive during its span, a backend that
stayed alive and that the scan has passed is on the list or has been compared, and the
best count so far is not above what any compared backend ever reached. A span only
widens, and what a call knows survives this (`GoodWidens`, `WatchWidens`), which is why
steps of others do no harm. `CurrentChoice` and `LeastConnections` follow. For the shares,
`TurnInv` writes the counter of round robin as `q` rounds and `r` turns and says who has
had a turn; `EvenShares` is then arithmetic. `RoundInv` does the same for the slots of
weighted round robin, as a lower bound: the counter and the values that calls have
loaded may be behind `q` rounds and `x` slots, never ahead; before two calls have been
storing together they are exactly there, and so are the shares (`Exact`). A store of an older value adds
to some share and moves nothing, a store of the newest one takes the next slot, which
lies in the band of the backend that is returned (`ByWeightOfAll`, `TakenStep`).
`WeightedShares`, both bounds, follows for any weights. The lemmas about lists say that an index within
a list finds a node (`NthInList`, since counting smaller nodes is injective) and that the
loop of weighted round robin returns from its body (`ByWeightInList`), so that the
statement after it is never reached.

**Hash ring.** `IInv == TypeOK /\ CallsInv /\ RecentlyAlive /\ NilOnlyIfNoneSeen`. `CallsInv`
says that a call saw only backends alive in its course and that calls under way
know each other's views, which is what makes a ring built by another call
acceptable. `NoLongDeadBackend` and `SomeBackendIfSeen` follow. `KeysStay` is proved from
lemmas about the operators: a search finds the first position in the cyclic order
from the hash (`SearchFinds`, by the well-foundedness of `<` on the naturals), a lookup
the last backend that shares it (`LookupFinds`), and two rings that both have the
backends they give to a key agree on it (`OwnersAgree`).

**Health checker.** `IInv == TypeOK /\ OneAtATime /\ GaugeFollows`. With a timeout below
the interval, the age of a probe and the time to the next tick add up to the
interval, so that one that has not expired by then cannot exist and there is never
more than one. From this `InOrder` and, with the verdict in hand standing for the
gauge, `GaugeIsFlag`, for every interval and timeout.

**Middleware.** `IInv == ReqInv /\ RateInv`. `ReqInv` says of each request where it
stands in the chain: beyond the limiter if and only if it has paid, with no filter to
stop it if it came as far as the limiter or the proxy, and within the bound wherever it
is inside the size limit. `RateInv` is the potential `win[i] + tokens[i] <=
Burst + age`: an admission moves one from the right summand to the left, a tick adds
at most one to the tokens and exactly one to the age, and a window begins with at most
`Burst` tokens. `RateBounded`, `Guarded` and `ResponsesBounded` follow for
every configuration.

**Process.** `IInv == TypeOK /\ CtxInv /\ ServedIsChecked`; `CtxInv` says that in a live
process only the signal handler, at its end, has cancelled the context, and that it
does not wait before main has started it. `TypeCorrect` includes that what main and the
manager hold has passed the validator.

Every safety property that a passing run checks is also a theorem. Only model-checked are the
liveness properties, since fairness and ENABLED are outside the prover: `HalfOpenResolves`,
`RecoveryWhenPolled`, `CallsReturn`, `Answered` (of `Proxy` and of `Frontend`), `HealthDetected`,
`Affinity`, `NotStarved`, `ReloadConverges` and `StopsOnSignal`.

## 5. Not modelled

- Request ids, errors, TLS loading: no state; the place of the request-id handlers in
  the chains and the decision to use TLS are in `Frontend` and `Process`.
- The buffer pools are wrappers of `sync.Pool` that no request path uses.
- The test server is not part of the load balancer.
- YAML parsing is external; a file is what it parses to, and one that does not parse
  is treated as one that is not valid, as `load` does.
- Header rewriting, logging, histograms, the dashboard's snapshot and the read-only
  admin endpoints: data that no property tells apart.
- `Retry` without data, `SetBackends` and `GetAllBreakers` are never called by the program.
- Hijacked connections (protocol upgrades) leave the reverse proxy's copying and with it
  the bound on responses.
- The length of a backoff: a backoff may end at any time.
- A backend that answers 101 although no upgrade was asked for (the director deletes the
  header, proxy.go:106): `ReverseProxy` would call `modifyResponse` and then the error handler,
  and the breaker would get two reports for one admission.
- Backends are taken to have different hosts. The validator does not ask for it
  (validator.go:55-85); two entries with one host would share a breaker and be passed over
  together when it refuses (proxy.go:138-140).
- Fingerprints of different lists of backends are taken to differ; consistent_hash.go:66-71 is a
  polynomial over the URLs without separators, and two lists may collide.

What could follow: a composition of `Proxy` with `HealthChecker` in which flags follow the
servers, to relate the time a backend is down to the requests that still reach it; the
shares of weighted round robin from above, given a bound on the calls that overlap.
