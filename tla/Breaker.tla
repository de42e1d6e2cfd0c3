------------------------------ MODULE Breaker ------------------------------
(***************************************************************************)
(* The circuit breaker of internal/circuitbreaker/breaker.go as operators  *)
(* on its value: every operator below is the body of one method of *Breaker*)
(* and is executed while cb.mu is held, so it is one atomic step.          *)
(*                                                                         *)
(* Time is kept relative to the present.  cb.expiry is the number of ticks *)
(* until the expiry time of the code, Past once it lies before now, and    *)
(* ZeroTime for the zero time.Time{}, which Go also orders before now.     *)
(* The time at which a request was admitted, which onResult passes on as   *)
(* "now", is the age of the request in ticks.                              *)
(*                                                                         *)
(* Counts.TotalSuccesses is left out: no method reads it.                  *)
(***************************************************************************)
EXTENDS Integers

CONSTANTS
  MaxRequests,       \* Config.MaxRequests: trials admitted while half-open
  Interval,          \* Config.Interval in ticks: the window of a closed breaker
  Timeout,           \* Config.Timeout in ticks: the time a breaker stays open
  ConsecutiveLimit,  \* ReadyToTrip: consecutive failures that trip (3)
  MinRequests,       \* ReadyToTrip: requests before the rate counts (5)
  RatePercent,       \* ReadyToTrip: failure rate to exceed, in percent (40)
  CounterMod,        \* the counters are uint32: 2^32
  GenerationMod      \* the generation is uint64: 2^64

(***************************************************************************)
(* NewBreaker replaces every value that is not positive by its default, so *)
(* a breaker never runs with one.  The counters are wide enough for the    *)
(* thresholds they are compared with.                                      *)
(***************************************************************************)
ASSUME BreakerAssumption ==
  /\ MaxRequests \in Nat \ {0} /\ MaxRequests < CounterMod
  /\ Interval \in Nat \ {0}
  /\ Timeout \in Nat \ {0}
  /\ ConsecutiveLimit \in Nat \ {0} /\ ConsecutiveLimit < CounterMod
  /\ MinRequests \in Nat \ {0} /\ MinRequests < CounterMod
  /\ RatePercent \in 0..100
  /\ CounterMod \in Nat
  /\ GenerationMod \in Nat /\ GenerationMod > 1

StateClosed == "closed"
StateHalfOpen == "half-open"
StateOpen == "open"

BreakerStates == {StateClosed, StateHalfOpen, StateOpen}

----------------------------------------------------------------------------
(* Time                                                                    *)

Past == -1
ZeroTime == -2

\* A tick count beyond which no difference can be observed: every deadline
\* set from a time that old is past.
Horizon == Interval + Timeout

\* t.Before(now)
Before(t) == t < 0

\* now.Add(d), where now was read age ticks ago.
Deadline(d, age) == IF age > d THEN Past ELSE d - age

\* The same deadline one tick later.
OneTickCloser(t) == IF Before(t) THEN t ELSE t - 1

----------------------------------------------------------------------------
(* The breaker                                                             *)

Counter == 0 .. CounterMod - 1

Counts == [Requests : Counter, TotalFailures : Counter,
           ConsecutiveSuccesses : Counter, ConsecutiveFailures : Counter]

Breakers == [state : BreakerStates, generation : 0 .. GenerationMod - 1,
             counts : Counts, expiry : ZeroTime .. Horizon]

\* Mutant of Increment: a counter without a width.
WideIncrement(n) == n + 1

Increment(n) == (n + 1) % CounterMod

ZeroCounts == [Requests |-> 0, TotalFailures |-> 0,
               ConsecutiveSuccesses |-> 0, ConsecutiveFailures |-> 0]

NewBreaker == [state |-> StateClosed, generation |-> 0,
               counts |-> ZeroCounts, expiry |-> ZeroTime]

\* Mutant of ReadyToTrip: more than the limit instead of at least.
LateToTrip(counts) ==
  \/ counts.ConsecutiveFailures > ConsecutiveLimit
  \/ /\ counts.Requests >= MinRequests
     /\ 100 * counts.TotalFailures > RatePercent * counts.Requests

(***************************************************************************)
(* DefaultConfig().ReadyToTrip.  The quotient of the code is a float64,    *)
(* which compares with 0.4 exactly as the rational number does.            *)
(***************************************************************************)
ReadyToTrip(counts) ==
  \/ counts.ConsecutiveFailures >= ConsecutiveLimit
  \/ /\ counts.Requests >= MinRequests
     /\ 100 * counts.TotalFailures > RatePercent * counts.Requests

resetCounts(cb) == [cb EXCEPT !.counts = ZeroCounts]

(***************************************************************************)
(* currentState(now) returns a state and, when the window of a closed      *)
(* breaker is over, resets the counts: its result and its effect.          *)
(***************************************************************************)
currentState(cb) ==
  IF cb.state = StateOpen /\ Before(cb.expiry) THEN StateHalfOpen ELSE cb.state

WindowOver(cb) ==
  cb.state = StateClosed /\ cb.expiry # ZeroTime /\ Before(cb.expiry)

currentStateEffect(cb) == IF WindowOver(cb) THEN resetCounts(cb) ELSE cb

\* Mutant of KeepsCounts: the counts survive the step to half-open.
KeepsCountsUntilClosed(newState) == newState # StateClosed

KeepsCounts(newState) == newState = StateOpen

\* setState(newState, now), now having been read age ticks ago.
setState(cb, newState, age) ==
  [state |-> newState,
   generation |-> (cb.generation + 1) % GenerationMod,
   counts |-> IF KeepsCounts(newState) THEN cb.counts ELSE ZeroCounts,
   expiry |-> CASE newState = StateClosed -> Deadline(Interval, age)
                [] newState = StateOpen -> Deadline(Timeout, age)
                [] newState = StateHalfOpen -> ZeroTime]

\* Mutant of State: the state is returned and not stored.
StateUnstored(cb) == currentStateEffect(cb)

\* State(): the only method that stores the half-open state.
State(cb) ==
  LET seen == currentStateEffect(cb)
  IN  IF currentState(cb) # cb.state THEN setState(seen, currentState(cb), 0)
                                     ELSE seen

\* Mutant of Admits: one trial too many.
AdmitsOneMore(cb) ==
  /\ currentState(cb) # StateOpen
  /\ currentState(cb) = StateHalfOpen => cb.counts.Requests <= MaxRequests

\* Allow() returns no error.
Admits(cb) ==
  /\ currentState(cb) # StateOpen
  /\ currentState(cb) = StateHalfOpen => cb.counts.Requests < MaxRequests

\* What Allow() does to a breaker that admits, and to one that does not.
Allow(cb) == LET seen == currentStateEffect(cb)
             IN  [seen EXCEPT !.counts.Requests = Increment(@)]

Reject(cb) == currentStateEffect(cb)

TripManually(cb) == setState(cb, StateOpen, 0)

ResetManually(cb) == setState(cb, StateClosed, 0)

onSuccess(cb, age) ==
  LET counted == [cb EXCEPT !.counts.ConsecutiveSuccesses = Increment(@),
                            !.counts.ConsecutiveFailures = 0]
  IN  IF /\ cb.state = StateHalfOpen
         /\ counted.counts.ConsecutiveSuccesses >= MaxRequests
      THEN setState(counted, StateClosed, age)
      ELSE counted

\* Mutant of Trips: a half-open breaker waits for ReadyToTrip as well.
TripsLeniently(cb, counts) == ReadyToTrip(counts)

Trips(cb, counts) == cb.state = StateHalfOpen \/ ReadyToTrip(counts)

onFailure(cb, age) ==
  LET counted == [cb EXCEPT !.counts.TotalFailures = Increment(@),
                            !.counts.ConsecutiveFailures = Increment(@),
                            !.counts.ConsecutiveSuccesses = 0]
  IN  IF Trips(cb, counted.counts)
      THEN setState(counted, StateOpen, age)
      ELSE counted

onResult(cb, success, age) ==
  IF success THEN onSuccess(cb, age) ELSE onFailure(cb, age)

\* A tick of the clock, seen by the breaker.
Tick(cb) == [cb EXCEPT !.expiry = OneTickCloser(@)]
============================================================================
