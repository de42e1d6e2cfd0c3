------------------------------- MODULE Proxy -------------------------------
(***************************************************************************)
(* The net/http engine of internal/server/proxy.go: concurrent requests    *)
(* that select a backend, ask its breaker, fall back to another, forward   *)
(* with retries and report the outcome to the breaker.                     *)
(*                                                                         *)
(* Each request is a goroutine; its steps are the accesses to state it     *)
(* shares with the others: the alive flags, the breakers (whose operators  *)
(* are those of Breaker) and the connection counts.  GetBreaker is part of *)
(* the step that uses the breaker: BreakerManager shows that it always     *)
(* returns the same one.  The load balancing strategy may return any       *)
(* backend once it saw one alive, since ConsistentHash may return one that *)
(* only another request saw.  Hosts are distinct.                          *)
(***************************************************************************)
EXTENDS Breaker, FiniteSets, FiniteSetsExt

CONSTANTS
  Requests,      \* the client connections, each with one request at a time
  NumBackends,   \* the length of the pool's slice of backends
  MaxRetries,    \* retry.Config.MaxRetries of RoundTrip (2)
  Operator       \* whether the chaos endpoints of the admin API are used

ASSUME ProxyAssumption ==
  /\ IsFiniteSet(Requests)
  /\ NumBackends \in Nat
  /\ MaxRetries \in Nat
  /\ Operator \in BOOLEAN

VARIABLES
  alive,     \* the backends whose alive flag is set
  cb,        \* the breaker of each backend
  conns,     \* Backend.connections of each backend
  req,       \* the local state of each request
  fresh,     \* history: as in CircuitBreaker, for each breaker
  steady     \* history: for each request that is selecting, the backends
             \* that were alive, with a closed breaker, all the time

vars == <<alive, cb, conns, req, fresh, steady>>

Backends == 1 .. NumBackends

None == 0
Idle == -1

Selecting == {"scan", "allow", "rescan", "unavailable"}
Ended == {"unavailable", "answered"}

Failures == {"failed", "cancelled"}
Results == {"ok", "error", "gateway"} \cup Failures

\* The local variables of a request, at a place where none is in use.
Blank(place, records) ==
  [pc |-> place,          \* where the goroutine is
   be |-> None,           \* be: the backend selected
   next |-> 1,            \* HealthyBackends: the index to be looked at
   list |-> {},           \* HealthyBackends: the result, in pool order
   tries |-> 0,           \* attempts sent to the backend
   idempotent |-> FALSE,  \* GET, HEAD or OPTIONS
   gone |-> FALSE,        \* the request's context is done
   result |-> "failed",   \* what RoundTrip returns
   age |-> Idle,          \* ticks since Allow admitted the request
   records |-> records]   \* calls of RecordRequest for this request

Init ==
  /\ alive = Backends
  /\ cb = [b \in Backends |-> NewBreaker]
  /\ conns = [b \in Backends |-> 0]
  /\ req = [r \in Requests |-> Blank("answered", 1)]
  /\ fresh = [b \in Backends |-> {}]
  /\ steady = [r \in Requests |-> {}]

----------------------------------------------------------------------------
(* History                                                                 *)

\* For every request that is selecting, the backends that are still alive
\* with a closed breaker; the requests in new have just begun.
Watch(new) ==
  steady' = [r \in Requests |->
               IF req'[r].pc \notin Selecting THEN {}
               ELSE {b \in IF r \in new THEN Backends ELSE steady[r] :
                       b \in alive' /\ cb'[b].state = StateClosed}]

\* The breaker of b becomes new; the requests in S stay fresh unless this
\* begins a generation.
SetBreaker(b, new, S) ==
  /\ cb' = [cb EXCEPT ![b] = new]
  /\ fresh' = [fresh EXCEPT ![b] =
                 IF new.generation = cb[b].generation THEN S ELSE {}]

----------------------------------------------------------------------------
(* selectAvailableBackend                                                  *)

Arrive(r, idempotent) ==
  /\ req[r].pc \in Ended
  /\ req' = [req EXCEPT ![r] =
               [Blank("scan", 0) EXCEPT !.idempotent = idempotent]]
  /\ UNCHANGED <<alive, cb, conns, fresh>>
  /\ Watch({r})

\* One iteration of HealthyBackends: each flag is read at a time of its own.
Scan(r) ==
  /\ req[r].pc \in {"scan", "rescan"}
  /\ req[r].next \in Backends
  /\ req' = [req EXCEPT ![r].next = @ + 1,
                        ![r].list = @ \cup ({req[r].next} \cap alive)]
  /\ UNCHANGED <<alive, cb, conns, fresh>>
  /\ Watch({})

Scanned(r) == req[r].next \notin Backends

\* strategy.Select or SelectKey, if the list that was read is not empty.
Select(r) ==
  /\ req[r].pc = "scan" /\ Scanned(r)
  /\ req[r].list # {}
  /\ \E b \in Backends :
       req' = [req EXCEPT ![r].pc = "allow", ![r].be = b, ![r].list = {}]
  /\ UNCHANGED <<alive, cb, conns, fresh>>
  /\ Watch({})

\* The breaker of b admits request r, which goes on to the backend.
Admit(r, b) ==
  /\ Admits(cb[b])
  /\ SetBreaker(b, Allow(cb[b]), fresh[b] \cup {r})
  /\ req' = [req EXCEPT ![r].pc = "forward", ![r].be = b, ![r].age = 0,
                        ![r].list = {}]

AllowSelected(r) ==
  /\ req[r].pc = "allow"
  /\ Admit(r, req[r].be)
  /\ UNCHANGED <<alive, conns>>
  /\ Watch({})

\* The selected backend's breaker refuses; the healthy ones are read again.
RefuseSelected(r) ==
  /\ req[r].pc = "allow"
  /\ ~Admits(cb[req[r].be])
  /\ SetBreaker(req[r].be, Reject(cb[req[r].be]), fresh[req[r].be])
  /\ req' = [req EXCEPT ![r].pc = "rescan", ![r].next = 1]
  /\ UNCHANGED <<alive, conns>>
  /\ Watch({})

\* Mutant of Alternatives: only those after the selected one.
LaterAlternatives(r) == {b \in req[r].list : b > req[r].be}

\* The alternatives, which the loop tries in pool order.
Alternatives(r) == req[r].list \ {req[r].be}

AllowAlternative(r) ==
  /\ req[r].pc = "rescan" /\ Scanned(r)
  /\ Alternatives(r) # {}
  /\ Admit(r, Min(Alternatives(r)))
  /\ UNCHANGED <<alive, conns>>
  /\ Watch({})

RefuseAlternative(r) ==
  /\ req[r].pc = "rescan" /\ Scanned(r)
  /\ Alternatives(r) # {}
  /\ LET b == Min(Alternatives(r))
     IN  /\ ~Admits(cb[b])
         /\ SetBreaker(b, Reject(cb[b]), fresh[b])
         /\ req' = [req EXCEPT ![r].list = @ \ {b}]
  /\ UNCHANGED <<alive, conns>>
  /\ Watch({})

\* No backend: the request is recorded and answered with status 503.
Unavailable(r) ==
  /\ Scanned(r)
  /\ \/ req[r].pc = "scan" /\ req[r].list = {}
     \/ req[r].pc = "rescan" /\ Alternatives(r) = {}
  /\ req' = [req EXCEPT ![r] = Blank("unavailable", @.records + 1)]
  /\ UNCHANGED <<alive, cb, conns, fresh>>
  /\ Watch({})

----------------------------------------------------------------------------
(* countingTransport.RoundTrip                                             *)

StartRoundTrip(r) ==
  /\ req[r].pc = "forward"
  /\ conns' = [conns EXCEPT ![req[r].be] = @ + 1]
  /\ req' = [req EXCEPT ![r].pc = "attempt", ![r].tries = 1]
  /\ UNCHANGED <<alive, cb, fresh>>
  /\ Watch({})

\* Mutant of Retryable: every method is retried.
RetryableAlways(q, result) == result \in {"gateway", "failed", "cancelled"}

\* Whether RetryWithData goes round again after an attempt with this result.
Retryable(q, result) == q.idempotent /\ result \in {"gateway", "failed", "cancelled"}

\* Mutant of DecrementConn: only a response gives the connection back.
DecrementConnOnSuccess(n, result) == IF result \in Failures THEN n ELSE n - 1

DecrementConn(n, result) == n - 1

\* Mutant of RecordRequest: a 5xx is left to errorHandler, like an error.
RecordRequestOnSuccess(n, result) == IF result = "ok" THEN n + 1 ELSE n

RecordRequest(n, result) == n + 1

\* RoundTrip returns to the reverse proxy: the connection is given back and
\* the request is recorded.
Return(r, result) ==
  /\ conns' = [conns EXCEPT ![req[r].be] = DecrementConn(@, result)]
  /\ req' = [req EXCEPT ![r] =
               [Blank("returned", RecordRequest(@.records, result)) EXCEPT
                  !.be = req[r].be, !.age = req[r].age, !.result = result]]

(***************************************************************************)
(* base.RoundTrip answers: a status below 500, another 5xx, one of 502-504 *)
(* or an error, of the backend or because the context is done.             *)
(***************************************************************************)
Attempt(r, result) ==
  /\ req[r].pc = "attempt"
  /\ result = "cancelled" => req[r].gone
  /\ ~Retryable(req[r], result)
  /\ Return(r, IF result = "gateway" THEN "error" ELSE result)
  /\ UNCHANGED <<alive, cb, fresh>>
  /\ Watch({})

\* Attempts of RetryWithData that are left.
Left(q) == q.tries <= MaxRetries

\* An attempt that is worth another one, as long as there is one left.
AttemptAgain(r, result) ==
  /\ req[r].pc = "attempt"
  /\ result = "cancelled" => req[r].gone
  /\ Retryable(req[r], result)
  /\ Left(req[r])
  /\ req' = [req EXCEPT ![r].pc = "backoff"]
  /\ UNCHANGED <<alive, cb, conns, fresh>>
  /\ Watch({})

\* The last attempt: its response, if there is one, is dropped for an error.
AttemptsExhausted(r, result) ==
  /\ req[r].pc = "attempt"
  /\ result = "cancelled" => req[r].gone
  /\ Retryable(req[r], result)
  /\ ~Left(req[r])
  /\ Return(r, IF result = "gateway" THEN "failed" ELSE result)
  /\ UNCHANGED <<alive, cb, fresh>>
  /\ Watch({})

\* Mutant of Counted: the attempts are not counted.
CountedNever(n) == n

Counted(n) == n + 1

\* The backoff is over.
Retry(r) ==
  /\ req[r].pc = "backoff"
  /\ req' = [req EXCEPT ![r].pc = "attempt", ![r].tries = Counted(@)]
  /\ UNCHANGED <<alive, cb, conns, fresh>>
  /\ Watch({})

\* ctx.Done() during the backoff.
Cancelled(r) ==
  /\ req[r].pc = "backoff" /\ req[r].gone
  /\ Return(r, "cancelled")
  /\ UNCHANGED <<alive, cb, fresh>>
  /\ Watch({})

\* The client closes its connection.
Disconnect(r) ==
  /\ req[r].pc \in {"attempt", "backoff"} /\ ~req[r].gone
  /\ req' = [req EXCEPT ![r].gone = TRUE]
  /\ UNCHANGED <<alive, cb, conns, fresh>>
  /\ Watch({})

\* Mutant of Done: a success is not reported.
DoneOnFailure(r, success) ==
  IF success THEN UNCHANGED <<cb, fresh>>
  ELSE LET b == req[r].be
       IN  SetBreaker(b, onResult(cb[b], success, req[r].age), fresh[b] \ {r})

\* done(success), which modifyResponse and errorHandler take from the context.
Done(r, success) ==
  LET b == req[r].be
  IN  SetBreaker(b, onResult(cb[b], success, req[r].age), fresh[b] \ {r})

ModifyResponse(r) ==
  /\ req[r].pc = "returned"
  /\ req[r].result \notin Failures
  /\ Done(r, req[r].result = "ok")
  /\ req' = [req EXCEPT ![r] = Blank("answered", @.records)]
  /\ UNCHANGED <<alive, conns>>
  /\ Watch({})

\* errorHandler records the request a second time.
ErrorHandler(r) ==
  /\ req[r].pc = "returned"
  /\ req[r].result \in Failures
  /\ Done(r, FALSE)
  /\ req' = [req EXCEPT ![r] = Blank("answered", @.records + 1)]
  /\ UNCHANGED <<alive, conns>>
  /\ Watch({})

----------------------------------------------------------------------------
(* The environment                                                         *)

\* The health checker, or POST /api/chaos/backend, sets the flag of b.
SetAlive(b, v) ==
  /\ alive' = IF v THEN alive \cup {b} ELSE alive \ {b}
  /\ UNCHANGED <<cb, conns, req, fresh>>
  /\ Watch({})

Poll(b) ==
  /\ SetBreaker(b, State(cb[b]), fresh[b])
  /\ UNCHANGED <<alive, conns, req>>
  /\ Watch({})

Trip(b) ==
  /\ Operator
  /\ SetBreaker(b, TripManually(cb[b]), fresh[b])
  /\ UNCHANGED <<alive, conns, req>>
  /\ Watch({})

Reset(b) ==
  /\ Operator
  /\ SetBreaker(b, ResetManually(cb[b]), fresh[b])
  /\ UNCHANGED <<alive, conns, req>>
  /\ Watch({})

Older(a) == IF a = Idle \/ a = Horizon THEN a ELSE a + 1

Clock ==
  /\ cb' = [b \in Backends |-> Tick(cb[b])]
  /\ req' = [r \in Requests |-> [req[r] EXCEPT !.age = Older(@)]]
  /\ UNCHANGED <<alive, conns, fresh>>
  /\ Watch({})

----------------------------------------------------------------------------

Next ==
  \/ \E r \in Requests, i \in BOOLEAN : Arrive(r, i)
  \/ \E r \in Requests : Scan(r)
  \/ \E r \in Requests : Select(r)
  \/ \E r \in Requests : AllowSelected(r)
  \/ \E r \in Requests : RefuseSelected(r)
  \/ \E r \in Requests : AllowAlternative(r)
  \/ \E r \in Requests : RefuseAlternative(r)
  \/ \E r \in Requests : Unavailable(r)
  \/ \E r \in Requests : StartRoundTrip(r)
  \/ \E r \in Requests, result \in Results : Attempt(r, result)
  \/ \E r \in Requests, result \in Results : AttemptAgain(r, result)
  \/ \E r \in Requests, result \in Results : AttemptsExhausted(r, result)
  \/ \E r \in Requests : Retry(r)
  \/ \E r \in Requests : Cancelled(r)
  \/ \E r \in Requests : Disconnect(r)
  \/ \E r \in Requests : ModifyResponse(r)
  \/ \E r \in Requests : ErrorHandler(r)
  \/ \E b \in Backends, v \in BOOLEAN : SetAlive(b, v)
  \/ \E b \in Backends : Poll(b)
  \/ \E b \in Backends : Trip(b)
  \/ \E b \in Backends : Reset(b)
  \/ Clock

Spec == Init /\ [][Next]_vars

\* The goroutine of request r, from its arrival to its answer.
Progress(r) ==
  \/ Scan(r) \/ Select(r)
  \/ AllowSelected(r) \/ RefuseSelected(r)
  \/ AllowAlternative(r) \/ RefuseAlternative(r) \/ Unavailable(r)
  \/ StartRoundTrip(r)
  \/ \E result \in Results :
       Attempt(r, result) \/ AttemptAgain(r, result) \/ AttemptsExhausted(r, result)
  \/ Retry(r) \/ Cancelled(r)
  \/ ModifyResponse(r) \/ ErrorHandler(r)

\* Goroutines run, and the timeouts of the transport end every attempt.
FairSpec == Spec /\ \A r \in Requests : WF_vars(Progress(r))

----------------------------------------------------------------------------
(* Correctness                                                             *)

\* The breaker of b with the requests that the proxy sends to b.
BreakerOf(b) == INSTANCE CircuitBreaker
  WITH Callers <- Requests, cb <- cb[b], fresh <- fresh[b],
       age <- [r \in Requests |-> IF req[r].be = b THEN req[r].age ELSE Idle]

(***************************************************************************)
(* The proxy uses every breaker as CircuitBreaker expects: each admission  *)
(* is followed by at most one report, to the same breaker, with the time   *)
(* of that admission, on every path through fallback, retries, errors and  *)
(* disconnected clients.  All that is proved of a breaker and its callers  *)
(* therefore holds of the breakers inside the proxy.                       *)
(***************************************************************************)
UsesBreakers ==
  /\ \A b \in Backends : BreakerOf(b)!Init
  /\ [][ \A b \in Backends :
           BreakerOf(b)!Next \/ UNCHANGED BreakerOf(b)!vars ]_vars

(***************************************************************************)
(* Backend.connections counts the requests between IncrementConn and       *)
(* DecrementConn (proxy.go:248, 291), which least-connections compares.    *)
(***************************************************************************)
ConnsExact ==
  \A b \in Backends :
    conns[b] = Cardinality({r \in Requests :
                 req[r].be = b /\ req[r].pc \in {"attempt", "backoff"}})

(***************************************************************************)
(* A request is answered with 503 (proxy.go:152) only if no backend was    *)
(* alive with a closed breaker during the whole selection, although the    *)
(* flags and the breakers are read one at a time while they change.        *)
(***************************************************************************)
NoNeedless503 ==
  \A r \in Requests : req[r].pc = "unavailable" => steady[r] = {}

(***************************************************************************)
(* A request that is not idempotent reaches a backend at most once         *)
(* (proxy.go:255): no retry and no fallback repeats it.                    *)
(***************************************************************************)
SentOnce ==
  \A r \in Requests : req[r].tries > 1 => req[r].idempotent

(***************************************************************************)
(* No request is missing from proxy_requests_total, whatever retries,      *)
(* fallbacks and disconnections it went through: one that was refused      *)
(* (proxy.go:152) or that a backend answered (proxy.go:309) is in it       *)
(* exactly once.  Of one whose transport failed this says only that it is  *)
(* there: the code counts it twice (proxy.go:309 and 189), against the     *)
(* Help of the counter (collector.go:66).                                  *)
(***************************************************************************)
NoneUnrecorded ==
  [][ \A r \in Requests :
        req[r].pc \notin Ended /\ req'[r].pc \in Ended =>
          \/ req'[r].records = 1
          \/ /\ req'[r].records > 1
             /\ req[r].pc = "returned" /\ req[r].result \in Failures ]_vars

(***************************************************************************)
(* Every request is answered: selection, retries and backoff end, whatever *)
(* backends, breakers, clients and operators do.                           *)
(***************************************************************************)
Answered ==
  \A r \in Requests : req[r].pc \notin Ended ~> req[r].pc \in Ended

=============================================================================
