----------------------------- MODULE FastProxy -----------------------------
(***************************************************************************)
(* The fasthttp engine of internal/server/fastproxy.go and the gauges of   *)
(* internal/metrics/collector.go that it shares with the admin API.        *)
(*                                                                         *)
(* Requests select a backend as in Proxy, but send it once.  What is added *)
(* here is what is not guarded: the map of clients, the connection gauges, *)
(* which are read and written back in separate steps, and the breaker      *)
(* gauge, which the chaos endpoints write after the breaker's lock was     *)
(* released.                                                               *)
(*                                                                         *)
(* A breaker is its state, which moves along the edges of CircuitProtocol  *)
(* (CircuitBreaker implements it).  The alive flags change at any time, so *)
(* the strategy may return any backend or nil, and a list of healthy       *)
(* backends may be any subset of the pool.                                 *)
(***************************************************************************)
EXTENDS Integers, FiniteSets, FiniteSetsExt

CONSTANTS
  Requests,      \* the connections, each with one request at a time
  NumBackends,   \* the length of the pool's slice of backends
  Handlers,      \* the chaos requests, each made once
  MaxArrivals    \* bound: requests that arrive

ASSUME FastProxyAssumption ==
  /\ IsFiniteSet(Requests)
  /\ NumBackends \in Nat
  /\ MaxArrivals \in Nat

VARIABLES
  circuit,       \* the state of the breaker of each backend
  circuitGauge,  \* proxy_circuit_breaker_state; closed (0) if never set
  conns,         \* Backend.connections
  connsGauge,    \* proxy_backend_active_connections
  active,        \* Collector.activeConns, shown as proxy_active_connections
  clients,       \* the backends that have an entry in FastProxy.clients
  aborted,       \* the Go runtime has found concurrent accesses to the map
  req,           \* the local variables of each request
  chaos,         \* the local variables of the chaos handlers
  arrivals,      \* the number of requests so far
  owed,          \* history: admissions of each breaker that are unreported
  overtaken,     \* history: the breakers whose last change of state came
                 \* between the two writes of a chaos handler
  overlapped     \* history: two requests were writing gauges together

breakers == <<circuit, circuitGauge, owed, overtaken>>
gauges == <<conns, connsGauge, active, overlapped>>
vars == <<breakers, gauges, clients, aborted, req, chaos, arrivals>>

Backends == 1 .. NumBackends
None == 0
States == {"closed", "half-open", "open"}

Blank(records) ==
  [pc |-> "idle", be |-> None,
   list |-> {},           \* HealthyBackends that were not tried yet
   delta |-> 1,           \* 1 before the request is sent, -1 in the defer
   n |-> 0,               \* the value read from a count
   records |-> records]   \* history: calls of RecordRequest

Init ==
  /\ circuit = [b \in Backends |-> "closed"]
  /\ circuitGauge = [b \in Backends |-> "closed"]
  /\ conns = [b \in Backends |-> 0]
  /\ connsGauge = [b \in Backends |-> 0]
  /\ active = 0
  /\ clients = {}
  /\ aborted = FALSE
  /\ req = [r \in Requests |-> Blank(1)]
  /\ chaos = [h \in Handlers |-> [pc |-> "idle", host |-> None, to |-> "open"]]
  /\ arrivals = 0
  /\ owed = [b \in Backends |-> 0]
  /\ overtaken = {}
  /\ overlapped = FALSE

----------------------------------------------------------------------------
(* Breakers, and the callback that NewFastProxy gives them                 *)

\* Mutant of OnStateChange: a closing breaker is not shown.
OnStateChangeOpening(b, to) ==
  circuitGauge' = IF to = "closed" THEN circuitGauge
                  ELSE [circuitGauge EXCEPT ![b] = to]

\* SetCircuitBreakerState, under the lock of the breaker.
OnStateChange(b, to) == circuitGauge' = [circuitGauge EXCEPT ![b] = to]

\* A chaos handler has forced the breaker of b and not yet written its gauge.
Pending(b) == \E h \in Handlers : chaos[h].pc = "publish" /\ chaos[h].host = b

\* setState: the callback is for changes only.
Enter(b, to) ==
  /\ circuit' = [circuit EXCEPT ![b] = to]
  /\ IF to = circuit[b]
     THEN UNCHANGED <<circuitGauge, overtaken>>
     ELSE /\ OnStateChange(b, to)
          /\ overtaken' = IF Pending(b) THEN overtaken \cup {b} ELSE overtaken \ {b}

\* The states that a breaker may be in after a report.
AfterReport(s, success) ==
  IF success THEN (IF s = "half-open" THEN {"half-open", "closed"} ELSE {s})
  ELSE (IF s = "closed" THEN {"closed", "open"} ELSE {"open"})

\* GET /api/backends: State() stores the half-open state.
Poll(b) ==
  /\ circuit[b] = "open"
  /\ Enter(b, "half-open")
  /\ UNCHANGED <<owed, gauges, clients, aborted, req, chaos, arrivals>>

\* POST /api/chaos/trip and /api/chaos/reset: the breaker, then the gauge.
ChaosForce(h, b, to) ==
  /\ chaos[h].pc = "idle"
  /\ Enter(b, to)
  /\ chaos' = [chaos EXCEPT ![h] = [pc |-> "publish", host |-> b, to |-> to]]
  /\ UNCHANGED <<owed, gauges, clients, aborted, req, arrivals>>

ChaosPublish(h) ==
  /\ chaos[h].pc = "publish"
  /\ circuitGauge' = [circuitGauge EXCEPT ![chaos[h].host] = chaos[h].to]
  /\ chaos' = [chaos EXCEPT ![h].pc = "done"]
  /\ UNCHANGED <<circuit, overtaken, owed, gauges, clients, aborted, req, arrivals>>

----------------------------------------------------------------------------
(* selectBackend                                                           *)

\* The strategy returns backend b, or nil.
Select(r, b) ==
  /\ req[r].pc = "idle" /\ arrivals < MaxArrivals
  /\ arrivals' = arrivals + 1
  /\ req' = [req EXCEPT ![r] = [Blank(0) EXCEPT
       !.pc = IF b = None THEN "alternatives" ELSE "allow", !.be = b]]
  /\ UNCHANGED <<breakers, gauges, clients, aborted, chaos>>

Admit(r, b) ==
  /\ owed' = [owed EXCEPT ![b] = @ + 1]
  /\ req' = [req EXCEPT ![r].pc = "count", ![r].be = b, ![r].list = {}]

AllowSelected(r) ==
  /\ req[r].pc = "allow"
  /\ Admit(r, req[r].be)
  /\ UNCHANGED <<circuit, circuitGauge, overtaken, gauges, clients, aborted,
                 chaos, arrivals>>

\* An open breaker, or a half-open one at its limit, refuses.
RefuseSelected(r, list) ==
  /\ req[r].pc = "allow"
  /\ circuit[req[r].be] # "closed"
  /\ req' = [req EXCEPT ![r].pc = "alternatives", ![r].list = list \ {req[r].be}]
  /\ UNCHANGED <<breakers, gauges, clients, aborted, chaos, arrivals>>

AllowAlternative(r) ==
  /\ req[r].pc = "alternatives" /\ req[r].list # {}
  /\ Admit(r, Min(req[r].list))
  /\ UNCHANGED <<circuit, circuitGauge, overtaken, gauges, clients, aborted,
                 chaos, arrivals>>

RefuseAlternative(r) ==
  /\ req[r].pc = "alternatives" /\ req[r].list # {}
  /\ circuit[Min(req[r].list)] # "closed"
  /\ req' = [req EXCEPT ![r].list = @ \ {Min(@)}]
  /\ UNCHANGED <<breakers, gauges, clients, aborted, chaos, arrivals>>

\* No backend: the request is recorded and answered with status 503.
Unavailable(r) ==
  /\ req[r].pc = "alternatives" /\ req[r].list = {}
  /\ req' = [req EXCEPT ![r] = Blank(@.records + 1)]
  /\ UNCHANGED <<breakers, gauges, clients, aborted, chaos, arrivals>>

----------------------------------------------------------------------------
(* The connection count and its gauges, at the start and in the defer      *)

InGauges(r) == req[r].pc \in {"count", "conns", "gauge", "active", "store"}

Step(r, pc, n) ==
  /\ req' = [req EXCEPT ![r].pc = pc, ![r].n = n]
  /\ overlapped' = (overlapped \/ \E q \in Requests \ {r} : InGauges(q))
  /\ UNCHANGED <<breakers, clients, aborted, chaos, arrivals>>

\* IncrementConn, or DecrementConn in the defer.
Counted(q, n) == n + q.delta

CountConn(r) ==
  /\ req[r].pc = "count"
  /\ conns' = [conns EXCEPT ![req[r].be] = Counted(req[r], @)]
  /\ Step(r, "conns", 0)
  /\ UNCHANGED <<connsGauge, active>>

ReadConns(r) ==
  /\ req[r].pc = "conns"
  /\ Step(r, "gauge", conns[req[r].be])
  /\ UNCHANGED <<conns, connsGauge, active>>

SetBackendActive(r) ==
  /\ req[r].pc = "gauge"
  /\ connsGauge' = [connsGauge EXCEPT ![req[r].be] = req[r].n]
  /\ Step(r, "active", 0)
  /\ UNCHANGED <<conns, active>>

GetActiveConnections(r) ==
  /\ req[r].pc = "active"
  /\ Step(r, "store", active)
  /\ UNCHANGED <<conns, connsGauge, active>>

\* Mutant of NewActive: the deferred function counts the request again.
NewActiveUp(q) == q.n + 1

NewActive(q) == q.n + q.delta

\* The request goes on, or is over.
SetActive(r) ==
  /\ req[r].pc = "store"
  /\ active' = NewActive(req[r])
  /\ req' = [req EXCEPT ![r] = IF @.delta = 1 THEN [@ EXCEPT !.pc = "lookup", !.n = 0]
                               ELSE Blank(@.records)]
  /\ overlapped' = (overlapped \/ \E q \in Requests \ {r} : InGauges(q))
  /\ UNCHANGED <<breakers, conns, connsGauge, clients, aborted, chaos, arrivals>>

----------------------------------------------------------------------------
(* getClient                                                               *)

\* Mutant of Hit: no entry is ever found.
HitNever(r) == FALSE

Hit(r) == req[r].be \in clients

Lookup(r) ==
  /\ req[r].pc = "lookup"
  /\ req' = [req EXCEPT ![r].pc = IF Hit(r) THEN "send" ELSE "missed"]
  /\ UNCHANGED <<breakers, gauges, clients, aborted, chaos, arrivals>>

BeginStore(r) ==
  /\ req[r].pc = "missed"
  /\ req' = [req EXCEPT ![r].pc = "writing"]
  /\ UNCHANGED <<breakers, gauges, clients, aborted, chaos, arrivals>>

EndStore(r) ==
  /\ req[r].pc = "writing"
  /\ clients' = clients \cup {req[r].be}
  /\ req' = [req EXCEPT ![r].pc = "send"]
  /\ UNCHANGED <<breakers, gauges, aborted, chaos, arrivals>>

(***************************************************************************)
(* "fatal error: concurrent map read and map write": the runtime notices   *)
(* an access that begins during a write.  It may also miss it.             *)
(***************************************************************************)
Abort(r) ==
  /\ req[r].pc \in {"lookup", "missed"}
  /\ \E q \in Requests \ {r} : req[q].pc = "writing"
  /\ aborted' = TRUE
  /\ UNCHANGED <<breakers, gauges, clients, req, chaos, arrivals>>

----------------------------------------------------------------------------
(* client.Do                                                               *)

\* Mutant of CbDone: only successes are reported.
CbDoneGood(r, success) ==
  IF success THEN owed' = [owed EXCEPT ![req[r].be] = @ - 1] ELSE UNCHANGED owed

CbDone(r, success) == owed' = [owed EXCEPT ![req[r].be] = @ - 1]

\* RecordRequest, on the error path and on the other.
Recorded(q, success) == q.records + 1

\* An answer below 500 is a success; another one, or an error, a failure.
Do(r, success) ==
  /\ req[r].pc = "send"
  /\ \E s \in AfterReport(circuit[req[r].be], success) : Enter(req[r].be, s)
  /\ CbDone(r, success)
  /\ req' = [req EXCEPT ![r].pc = "count", ![r].delta = -1,
                        ![r].records = Recorded(req[r], success)]
  /\ UNCHANGED <<gauges, clients, aborted, chaos, arrivals>>

----------------------------------------------------------------------------

Serve(r) ==
  \/ AllowSelected(r) \/ AllowAlternative(r) \/ RefuseAlternative(r)
  \/ \E list \in SUBSET Backends : RefuseSelected(r, list)
  \/ Unavailable(r)
  \/ CountConn(r) \/ ReadConns(r) \/ SetBackendActive(r)
  \/ GetActiveConnections(r) \/ SetActive(r)
  \/ Lookup(r) \/ BeginStore(r) \/ EndStore(r)
  \/ \E success \in BOOLEAN : Do(r, success)

Next ==
  /\ ~aborted
  /\ \/ \E b \in Backends : Poll(b)
     \/ \E h \in Handlers, b \in Backends, to \in {"open", "closed"} : ChaosForce(h, b, to)
     \/ \E h \in Handlers : ChaosPublish(h)
     \/ \E r \in Requests, b \in Backends \cup {None} : Select(r, b)
     \/ \E r \in Requests : Serve(r)
     \/ \E r \in Requests : Abort(r)

Spec == Init /\ [][Next]_vars

----------------------------------------------------------------------------
(* Correctness                                                             *)

Places == {"idle", "allow", "alternatives", "count", "conns", "gauge", "active",
           "store", "lookup", "missed", "writing", "send"}

Calls ==
  [pc : Places, be : Backends \cup {None}, list : SUBSET Backends, delta : {1, -1},
   n : Int, records : Nat]

\* Every variable has its type; who is past the selection has a backend.
TypeOK ==
  /\ circuit \in [Backends -> States] /\ circuitGauge \in [Backends -> States]
  /\ conns \in [Backends -> Int] /\ connsGauge \in [Backends -> Int] /\ active \in Int
  /\ clients \in SUBSET Backends /\ aborted \in BOOLEAN
  /\ req \in [Requests -> Calls]
  /\ \A r \in Requests : req[r].pc \notin {"idle", "alternatives"} => req[r].be \in Backends
  /\ chaos \in [Handlers -> [pc : {"idle", "publish", "done"}, host : Backends \cup {None},
                             to : States]]
  /\ \A h \in Handlers : chaos[h].pc = "publish" => chaos[h].host \in Backends
  /\ arrivals \in 0 .. MaxArrivals
  /\ owed \in [Backends -> Int] /\ overtaken \in SUBSET Backends /\ overlapped \in BOOLEAN

\* The requests that a breaker has admitted and that have not reported.
Admitted(b) ==
  {r \in Requests : /\ req[r].be = b /\ req[r].delta = 1
                    /\ req[r].pc \notin {"idle", "allow", "alternatives"}}

(***************************************************************************)
(* Every admission is reported to the breaker exactly once, on the error   *)
(* path as well (fastproxy.go:156, 171, 176): what a breaker is owed are   *)
(* the requests on their way to its backend.  By then the request has been *)
(* recorded, and once (fastproxy.go:124, 162, 186), unlike in the other    *)
(* engine, where failures count twice.                                     *)
(***************************************************************************)
AccountedOnce ==
  /\ \A b \in Backends : owed[b] = Cardinality(Admitted(b))
  /\ \A r \in Requests :
       req[r].records = IF req[r].pc = "idle" \/ req[r].delta = -1 THEN 1 ELSE 0

\* All backends have a client and nobody is about to store another one.
Warm ==
  /\ clients = Backends
  /\ \A r \in Requests : req[r].pc \notin {"missed", "writing"}

(***************************************************************************)
(* The unguarded map (fastproxy.go:58, 72) can only abort the process      *)
(* until every backend has a client: from then on it is only read.         *)
(***************************************************************************)
SafeOnceWarm == [][Warm => Warm' /\ aborted' = aborted]_vars

\* Past the gauges on the way in: the request is looking for a client or away.
Forwarding == {"lookup", "missed", "writing", "send"}

\* The requests between IncrementConn and DecrementConn.
Connected(b) ==
  {r \in Requests :
     /\ req[r].be = b
     /\ IF req[r].delta = 1
        THEN req[r].pc \in Forwarding \cup {"conns", "gauge", "active", "store"}
        ELSE req[r].pc = "count"}

(***************************************************************************)
(* The connection count of a backend is the number of its requests between *)
(* IncrementConn and DecrementConn, however they overlap.  The gauges show *)
(* the counts whenever nobody is writing them, as long as no two requests  *)
(* wrote them at the same time (fastproxy.go:130-138, proxy.go:248-250):   *)
(* overlapping ones lose updates.                                          *)
(***************************************************************************)
GaugesExact ==
  /\ \A b \in Backends : conns[b] = Cardinality(Connected(b))
  /\ ~overlapped /\ (\A r \in Requests : ~InGauges(r)) =>
       /\ \A b \in Backends : connsGauge[b] = conns[b]
       /\ active = Cardinality({r \in Requests : req[r].pc \in Forwarding})

(***************************************************************************)
(* The breaker gauge shows the state of the breaker, with two writers that *)
(* share no lock: the callback under the lock of the breaker               *)
(* (fastproxy.go:26) and the chaos handlers after it (fasthttp.go:107,     *)
(* 117).  It can be wrong only for a breaker whose last change of state    *)
(* came between the two writes of a handler: any later change repairs it.  *)
(***************************************************************************)
BreakerGaugeAgrees ==
  \A b \in Backends : b \notin overtaken => circuitGauge[b] = circuit[b]
=============================================================================
