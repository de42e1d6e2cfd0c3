--------------------------- MODULE CircuitBreaker ---------------------------
(***************************************************************************)
(* One breaker of internal/circuitbreaker and the requests that use it.    *)
(*                                                                         *)
(* A request calls Allow, is away at the backend for any time, and reports *)
(* its outcome through the function that Allow returned.  The breaker's    *)
(* mutex makes each call one step; requests, the admin API, which polls    *)
(* State, the chaos endpoints and the clock interleave freely.             *)
(***************************************************************************)
EXTENDS Breaker, FiniteSets

CONSTANTS
  Callers,    \* the requests that may be in flight at the same time
  Operator    \* whether the chaos endpoints of the admin API are used

ASSUME CallersAssumption == IsFiniteSet(Callers) /\ Operator \in BOOLEAN

VARIABLES
  cb,         \* the breaker
  age,        \* for each request: ticks since Allow admitted it, or Idle
  fresh       \* history: the requests in flight that were admitted in the
              \* breaker's current generation

vars == <<cb, age, fresh>>

Idle == -1

InFlight == {r \in Callers : age[r] # Idle}

Init ==
  /\ cb = NewBreaker
  /\ age = [r \in Callers |-> Idle]
  /\ fresh = {}

\* The members of S survive in fresh unless this step began a generation.
KeepFresh(S) == fresh' = IF cb'.generation = cb.generation THEN S ELSE {}

(***************************************************************************)
(* done, err := cb.Allow(), with and without an error.                     *)
(***************************************************************************)
Begin(r) ==
  /\ age[r] = Idle
  /\ Admits(cb)
  /\ cb' = Allow(cb)
  /\ age' = [age EXCEPT ![r] = 0]
  /\ KeepFresh(fresh \cup {r})

Refused(r) ==
  /\ age[r] = Idle
  /\ ~Admits(cb)
  /\ cb' = Reject(cb)
  /\ UNCHANGED <<age, fresh>>

\* Mutant of Report: it waits for a verdict that it should bring about.
ReportWaiting(r, success) ==
  /\ age[r] # Idle /\ cb.state # StateHalfOpen
  /\ cb' = onResult(cb, success, age[r])
  /\ age' = [age EXCEPT ![r] = Idle]
  /\ KeepFresh(fresh \ {r})

\* done(success): the closure of Allow, which captured the time of admission.
Report(r, success) ==
  /\ age[r] # Idle
  /\ cb' = onResult(cb, success, age[r])
  /\ age' = [age EXCEPT ![r] = Idle]
  /\ KeepFresh(fresh \ {r})

\* GET /api/backends asks every breaker for its state.
Poll ==
  /\ cb' = State(cb)
  /\ UNCHANGED age
  /\ KeepFresh(fresh)

\* POST /chaos/trip and /chaos/reset.
Trip ==
  /\ Operator
  /\ cb' = TripManually(cb)
  /\ UNCHANGED age
  /\ KeepFresh(fresh)

Reset ==
  /\ Operator
  /\ cb' = ResetManually(cb)
  /\ UNCHANGED age
  /\ KeepFresh(fresh)

\* Time passes for the breaker and for the requests in flight.
Older(a) == IF a = Idle \/ a = Horizon THEN a ELSE a + 1

Clock ==
  /\ cb' = Tick(cb)
  /\ age' = [r \in Callers |-> Older(age[r])]
  /\ UNCHANGED fresh

Next ==
  \/ \E r \in Callers : Begin(r)
  \/ \E r \in Callers : Refused(r)
  \/ \E r \in Callers, success \in BOOLEAN : Report(r, success)
  \/ Poll
  \/ Trip
  \/ Reset
  \/ Clock

Spec == Init /\ [][Next]_vars

----------------------------------------------------------------------------
(* Safety                                                                  *)

\* Every field holds a value of its Go type, and only requests in flight
\* count as admitted.
TypeOK ==
  /\ cb \in Breakers
  /\ age \in [Callers -> Idle .. Horizon]
  /\ fresh \in SUBSET InFlight

(***************************************************************************)
(* A half-open breaker (breaker.go:136, 220, 231) can only be at its limit *)
(* while a request it admitted is still away: the slot it holds will be    *)
(* given back, as a success or as a trip, and the breaker never refuses    *)
(* everybody for good.  This must survive late reports of requests that an *)
(* earlier generation admitted.                                            *)
(***************************************************************************)
NeverWedged ==
  cb.state = StateHalfOpen /\ ~Admits(cb) => fresh # {}

(***************************************************************************)
(* The accounting behind NeverWedged.  A half-open breaker has counted     *)
(* neither a failure (the first one reopens it) nor enough successes to    *)
(* close, and every request it has counted is either still away or among   *)
(* the successes; a late success may add to those.                         *)
(***************************************************************************)
TrialAccounting ==
  cb.state = StateHalfOpen =>
    /\ cb.expiry = ZeroTime
    /\ cb.counts.TotalFailures = 0
    /\ cb.counts.ConsecutiveFailures = 0
    /\ cb.counts.ConsecutiveSuccesses < MaxRequests
    /\ cb.counts.Requests <= MaxRequests
    /\ Cardinality(fresh) <= cb.counts.Requests
    /\ cb.counts.Requests <= cb.counts.ConsecutiveSuccesses + Cardinality(fresh)

(***************************************************************************)
(* The breaker implements CircuitProtocol: whatever the overlap of calls,  *)
(* late reports, wrapping counters and expiring windows, its state only    *)
(* moves along the documented edges, with at most MaxRequests admissions   *)
(* and exactly MaxRequests successes in each half-open period.             *)
(***************************************************************************)
WhileHalfOpen(n) == IF cb.state = StateHalfOpen THEN n ELSE 0

Protocol == INSTANCE CircuitProtocol
              WITH Limit <- MaxRequests, Forced <- Operator, st <- cb.state,
                   admitted <- WhileHalfOpen(cb.counts.Requests),
                   passed <- WhileHalfOpen(cb.counts.ConsecutiveSuccesses)

ImplementsProtocol == Protocol!Spec

----------------------------------------------------------------------------
(* Liveness                                                                *)

(***************************************************************************)
(* Requests keep coming, the transport's timeouts make each one report,    *)
(* and time passes.  Nobody is obliged to poll the admin API.              *)
(***************************************************************************)
Fairness ==
  /\ \A r \in Callers : WF_vars(Begin(r))
  /\ \A r \in Callers : WF_vars(\E success \in BOOLEAN : Report(r, success))
  /\ WF_vars(Clock)

FairSpec == Spec /\ Fairness

(***************************************************************************)
(* A half-open breaker always reaches a verdict (breaker.go:220, 231): it  *)
(* closes or it opens again, with no help from a poll or an operator.      *)
(***************************************************************************)
HalfOpenResolves == cb.state = StateHalfOpen ~> cb.state # StateHalfOpen

(***************************************************************************)
(* "Automatic recovery detection" (ARCHITECTURE.md:81): a breaker that     *)
(* opened closes again once its backend stops failing and no operator      *)
(* trips it.                                                               *)
(***************************************************************************)
AutomaticRecovery ==
  <>[][~Trip /\ \A r \in Callers : ~Report(r, FALSE)]_vars
    => (cb.state = StateOpen ~> cb.state = StateClosed)

(***************************************************************************)
(* The same, with a dashboard that polls GET /api/backends for ever: State *)
(* stores the half-open state (breaker.go:116) that Allow only computes.   *)
(***************************************************************************)
RecoveryWhenPolled == WF_vars(Poll) => AutomaticRecovery
=============================================================================
