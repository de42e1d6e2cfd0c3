------------------------ MODULE CircuitBreakerProofs ------------------------
(***************************************************************************)
(* Proofs about the package circuitbreaker: about CircuitBreaker and       *)
(* BreakerHistory for any number of requests, any thresholds and any       *)
(* durations, and about BreakerManager for any number of goroutines, hosts *)
(* and removals.                                                           *)
(***************************************************************************)
EXTENDS CircuitBreaker, BreakerHistory, BreakerManager, FiniteSetTheorems, TLAPS

----------------------------------------------------------------------------
(* Arithmetic                                                              *)

\* The uint32 counters stay in range, and count exactly below the wrap.
LEMMA IncrementType ==
  ASSUME NEW n \in Counter
  PROVE  /\ Increment(n) \in Counter
         /\ n + 1 < CounterMod => Increment(n) = n + 1
BY BreakerAssumption DEF Counter, Increment

\* A new generation (breaker.go:183) differs from the one before.
LEMMA NewGeneration ==
  ASSUME NEW g \in 0 .. GenerationMod - 1
  PROVE  /\ (g + 1) % GenerationMod \in 0 .. GenerationMod - 1
         /\ (g + 1) % GenerationMod # g
<1>1. (g + 1) % GenerationMod \in 0 .. GenerationMod - 1
  BY BreakerAssumption
<1>2. CASE g + 1 < GenerationMod
  BY <1>1, <1>2, BreakerAssumption
<1>3. CASE g + 1 = GenerationMod
  <2>1. (g + 1) % GenerationMod = 0
    BY <1>3, BreakerAssumption
  <2> QED  BY <1>1, <1>3, <2>1, BreakerAssumption
<1> QED  BY <1>2, <1>3, BreakerAssumption

\* A deadline set from a time that is age ticks old.
LEMMA DeadlineType ==
  ASSUME NEW a \in 0 .. Horizon
  PROVE  /\ Deadline(Interval, a) \in Past .. Horizon
         /\ Deadline(Timeout, a) \in Past .. Horizon
BY BreakerAssumption DEF Deadline, Past, Horizon

----------------------------------------------------------------------------
(* The methods of the breaker                                              *)

\* setState (breaker.go:177) always begins a generation.
LEMMA SetStateFacts ==
  ASSUME NEW b \in Breakers, NEW s \in BreakerStates, NEW a \in 0 .. Horizon
  PROVE  /\ setState(b, s, a) \in Breakers
         /\ setState(b, s, a).state = s
         /\ setState(b, s, a).generation # b.generation
         /\ s # StateOpen => setState(b, s, a).counts = ZeroCounts
         /\ s = StateHalfOpen => setState(b, s, a).expiry = ZeroTime
         /\ s # StateHalfOpen => setState(b, s, a).expiry # ZeroTime
<1>1. ZeroCounts \in Counts
  BY BreakerAssumption DEF ZeroCounts, Counts, Counter
<1>2. /\ (b.generation + 1) % GenerationMod \in 0 .. GenerationMod - 1
      /\ (b.generation + 1) % GenerationMod # b.generation
  BY NewGeneration DEF Breakers
<1>3. /\ ZeroTime \in ZeroTime .. Horizon
      /\ Past .. Horizon \subseteq ZeroTime .. Horizon
      /\ ZeroTime \notin Past .. Horizon
  BY BreakerAssumption DEF ZeroTime, Past, Horizon
<1> QED
  BY <1>1, <1>2, <1>3, DeadlineType
  DEF setState, KeepsCounts, Breakers, BreakerStates, StateClosed, StateOpen, StateHalfOpen

\* Reading the state of a breaker (breaker.go:162) leaves all but the counts
\* alone, and those only at the end of the window of a closed breaker.
LEMMA CurrentStateFacts ==
  ASSUME NEW b \in Breakers
  PROVE  /\ currentStateEffect(b) \in Breakers
         /\ currentStateEffect(b).state = b.state
         /\ currentStateEffect(b).generation = b.generation
         /\ currentStateEffect(b).expiry = b.expiry
         /\ currentStateEffect(b).counts \in {b.counts, ZeroCounts}
         /\ b.state # StateClosed => currentStateEffect(b) = b
         /\ currentState(b) \in {b.state, StateHalfOpen}
         /\ b.state # StateOpen => currentState(b) = b.state
<1>1. ZeroCounts \in Counts
  BY BreakerAssumption DEF ZeroCounts, Counts, Counter
<1> QED
  BY <1>1 DEF currentStateEffect, currentState, WindowOver, resetCounts, Breakers

\* Allow (breaker.go:125) counts the request and keeps the rest.
LEMMA AllowFacts ==
  ASSUME NEW b \in Breakers
  PROVE  /\ Allow(b) \in Breakers
         /\ Allow(b).state = b.state
         /\ Allow(b).generation = b.generation
         /\ Allow(b).expiry = b.expiry
         /\ Allow(b).counts.ConsecutiveFailures
              \in {b.counts.ConsecutiveFailures, 0}
         /\ b.state # StateClosed =>
              Allow(b).counts
                = [b.counts EXCEPT !.Requests = Increment(b.counts.Requests)]
<1> DEFINE e == currentStateEffect(b)
<1>1. e \in Breakers /\ Increment(e.counts.Requests) \in Counter
  BY CurrentStateFacts, IncrementType DEF Breakers, Counts
<1>2. Allow(b) = [e EXCEPT !.counts.Requests = Increment(e.counts.Requests)]
  BY DEF Allow
<1>3. /\ e.state = b.state /\ e.generation = b.generation /\ e.expiry = b.expiry
      /\ e.counts \in {b.counts, ZeroCounts}
      /\ b.state # StateClosed => e = b
  BY CurrentStateFacts
<1> HIDE DEF e
<1>4. Allow(b) \in Breakers
  BY <1>1, <1>2 DEF Breakers, Counts
<1>5. Allow(b).counts = [e.counts EXCEPT !.Requests = Increment(e.counts.Requests)]
  BY <1>1, <1>2 DEF Breakers
<1> QED
  BY <1>1, <1>2, <1>3, <1>4, <1>5 DEF Breakers, Counts, ZeroCounts

\* State (breaker.go:112) leaves a breaker alone, resets the counts of a
\* closed one, or makes an open one half-open.
LEMMA StateFacts ==
  ASSUME NEW b \in Breakers
  PROVE  /\ State(b) \in Breakers
         /\ \/ State(b) = currentStateEffect(b)
            \/ /\ b.state = StateOpen
               /\ State(b) = setState(b, StateHalfOpen, 0)
<1>1. 0 \in 0 .. Horizon /\ StateHalfOpen \in BreakerStates
  BY BreakerAssumption DEF Horizon, BreakerStates
<1>2. CASE currentState(b) = b.state
  BY <1>2, CurrentStateFacts DEF State
<1>3. CASE currentState(b) # b.state
  <2>1. b.state = StateOpen /\ currentState(b) = StateHalfOpen
    BY <1>3, CurrentStateFacts
  <2>2. State(b) = setState(b, StateHalfOpen, 0)
    BY <1>3, <2>1, CurrentStateFacts DEF State, StateOpen, StateClosed
  <2> QED  BY <1>1, <2>1, <2>2, SetStateFacts
<1> QED  BY <1>2, <1>3

\* A success (breaker.go:215) is counted, or it closes a half-open breaker.
LEMMA SuccessFacts ==
  ASSUME NEW b \in Breakers, NEW a \in 0 .. Horizon
  PROVE  LET n == Increment(b.counts.ConsecutiveSuccesses)
             c == onSuccess(b, a)
         IN  /\ c \in Breakers
             /\ \/ /\ b.state = StateHalfOpen => n < MaxRequests
                   /\ c.state = b.state
                   /\ c.generation = b.generation
                   /\ c.expiry = b.expiry
                   /\ c.counts = [b.counts EXCEPT !.ConsecutiveSuccesses = n,
                                                  !.ConsecutiveFailures = 0]
                \/ /\ b.state = StateHalfOpen /\ n >= MaxRequests
                   /\ c.state = StateClosed
                   /\ c.generation # b.generation
                   /\ c.counts = ZeroCounts
<1> DEFINE n == Increment(b.counts.ConsecutiveSuccesses)
           d == [b EXCEPT !.counts.ConsecutiveSuccesses = n,
                          !.counts.ConsecutiveFailures = 0]
<1>1. n \in Counter /\ 0 \in Counter
  BY IncrementType, BreakerAssumption DEF Breakers, Counts, Counter
<1> HIDE DEF n
<1>2. d.counts = [b.counts EXCEPT !.ConsecutiveSuccesses = n,
                                  !.ConsecutiveFailures = 0]
  BY <1>1 DEF Breakers, Counts
<1>3. /\ d \in Breakers /\ d.state = b.state
      /\ d.generation = b.generation /\ d.expiry = b.expiry
      /\ d.counts.ConsecutiveSuccesses = n
  BY <1>1, <1>2 DEF Breakers, Counts
<1>4. onSuccess(b, a) = IF b.state = StateHalfOpen /\ n >= MaxRequests
                        THEN setState(d, StateClosed, a) ELSE d
  BY <1>3 DEF onSuccess, n
<1> HIDE DEF d
<1>5. CASE b.state = StateHalfOpen /\ n >= MaxRequests
  <2>1. onSuccess(b, a) = setState(d, StateClosed, a)
    BY <1>4, <1>5
  <2>2. StateClosed \in BreakerStates /\ StateClosed # StateOpen
    BY DEF BreakerStates, StateClosed, StateOpen
  <2>3. /\ setState(d, StateClosed, a) \in Breakers
        /\ setState(d, StateClosed, a).state = StateClosed
        /\ setState(d, StateClosed, a).generation # d.generation
        /\ setState(d, StateClosed, a).counts = ZeroCounts
    BY <1>3, <2>2, SetStateFacts
  <2> QED  BY <1>3, <1>5, <2>1, <2>3 DEF n
<1>6. CASE ~(b.state = StateHalfOpen /\ n >= MaxRequests)
  <2>1. b.state = StateHalfOpen => n < MaxRequests
    BY <1>1, <1>6, BreakerAssumption DEF Counter
  <2> QED  BY <1>2, <1>3, <1>4, <1>6, <2>1 DEF n
<1> QED  BY <1>5, <1>6

\* A failure (breaker.go:226) opens a half-open breaker; any other it opens
\* if ReadyToTrip says so, and otherwise it is counted.
LEMMA FailureFacts ==
  ASSUME NEW b \in Breakers, NEW a \in 0 .. Horizon
  PROVE  LET c == onFailure(b, a)
         IN  /\ c \in Breakers
             /\ \/ /\ b.state # StateHalfOpen
                   /\ c.state = b.state
                   /\ c.generation = b.generation
                   /\ c.expiry = b.expiry
                   /\ c.counts.ConsecutiveFailures
                        = Increment(b.counts.ConsecutiveFailures)
                   /\ c.counts.ConsecutiveFailures < ConsecutiveLimit
                \/ /\ c.state = StateOpen
                   /\ c.generation # b.generation
                   /\ c.expiry # ZeroTime
<1> DEFINE f == Increment(b.counts.ConsecutiveFailures)
           t == Increment(b.counts.TotalFailures)
           d == [b EXCEPT !.counts.TotalFailures = t,
                          !.counts.ConsecutiveFailures = f,
                          !.counts.ConsecutiveSuccesses = 0]
<1>1. f \in Counter /\ t \in Counter /\ 0 \in Counter
  BY IncrementType, BreakerAssumption DEF Breakers, Counts, Counter
<1>2. onFailure(b, a) = IF b.state = StateHalfOpen \/ ReadyToTrip(d.counts)
                        THEN setState(d, StateOpen, a) ELSE d
  BY DEF onFailure, Trips
<1> HIDE DEF f, t
<1>3. d.counts = [b.counts EXCEPT !.TotalFailures = t,
                                  !.ConsecutiveFailures = f,
                                  !.ConsecutiveSuccesses = 0]
  BY <1>1 DEF Breakers, Counts
<1>4. /\ d \in Breakers /\ d.state = b.state
      /\ d.generation = b.generation /\ d.expiry = b.expiry
      /\ d.counts.ConsecutiveFailures = f
  BY <1>1, <1>3 DEF Breakers, Counts
<1> HIDE DEF d
<1>5. ~ReadyToTrip(d.counts) => f < ConsecutiveLimit
  <2>1. ~ReadyToTrip(d.counts) => ~(f >= ConsecutiveLimit)
    BY <1>4, Zenon DEF ReadyToTrip
  <2>2. f \in Int /\ ConsecutiveLimit \in Int
    BY <1>1, BreakerAssumption DEF Counter
  <2> QED  BY <2>1, <2>2
<1>6. CASE b.state = StateHalfOpen \/ ReadyToTrip(d.counts)
  <2>1. onFailure(b, a) = setState(d, StateOpen, a)
    BY <1>2, <1>6, Zenon
  <2>2. StateOpen \in BreakerStates /\ StateOpen # StateHalfOpen
    BY DEF BreakerStates, StateOpen, StateHalfOpen
  <2>3. /\ setState(d, StateOpen, a) \in Breakers
        /\ setState(d, StateOpen, a).state = StateOpen
        /\ setState(d, StateOpen, a).generation # d.generation
        /\ setState(d, StateOpen, a).expiry # ZeroTime
    BY <1>4, <2>2, SetStateFacts
  <2> QED  BY <1>4, <2>1, <2>3, Zenon
<1>7. CASE ~(b.state = StateHalfOpen \/ ReadyToTrip(d.counts))
  BY <1>2, <1>4, <1>5, <1>7 DEF f
<1> QED  BY <1>6, <1>7

\* A tick moves the expiry time and nothing else, and never past Past.
LEMMA TickFacts ==
  ASSUME NEW b \in Breakers
  PROVE  /\ Tick(b) \in Breakers
         /\ Tick(b).state = b.state
         /\ Tick(b).generation = b.generation
         /\ Tick(b).counts = b.counts
         /\ b.expiry = ZeroTime <=> Tick(b).expiry = ZeroTime
<1>1. /\ OneTickCloser(b.expiry) \in ZeroTime .. Horizon
      /\ b.expiry = ZeroTime <=> OneTickCloser(b.expiry) = ZeroTime
  BY BreakerAssumption DEF Breakers, OneTickCloser, Before, ZeroTime, Horizon
<1> QED  BY <1>1 DEF Tick, Breakers

----------------------------------------------------------------------------
(* The inductive invariant                                                 *)

\* What the breaker's own counts and expiry say outside the half-open state.
CountsBelowLimit ==
  /\ cb.state = StateClosed => cb.counts.ConsecutiveFailures < ConsecutiveLimit
  /\ cb.state = StateOpen => cb.expiry # ZeroTime

(***************************************************************************)
(* NeverWedged is not inductive: it says nothing of a half-open breaker    *)
(* that still admits.  TrialAccounting adds what a half-open breaker has   *)
(* counted so far, and CountsBelowLimit that open and half-open breakers   *)
(* are told apart by their expiry time.                                    *)
(***************************************************************************)
IInv == TypeOK /\ TrialAccounting /\ CountsBelowLimit

\* The requests that fresh counts are finitely many, and none is idle.
LEMMA FreshFinite ==
  ASSUME TypeOK
  PROVE  /\ IsFiniteSet(fresh) /\ Cardinality(fresh) \in Nat
         /\ \A r \in Callers :
              /\ age[r] = Idle => r \notin fresh
              /\ /\ IsFiniteSet(fresh \cup {r})
                 /\ r \notin fresh =>
                      Cardinality(fresh \cup {r}) = Cardinality(fresh) + 1
              /\ /\ IsFiniteSet(fresh \ {r})
                 /\ Cardinality(fresh \ {r})
                      = IF r \in fresh THEN Cardinality(fresh) - 1
                                       ELSE Cardinality(fresh)
<1>1. fresh \subseteq Callers
  BY DEF TypeOK, InFlight
<1>2. IsFiniteSet(fresh)
  BY <1>1, FS_Subset, CallersAssumption
<1>3. Cardinality(fresh) \in Nat
  BY <1>2, FS_CardinalityType
<1>4. ASSUME NEW r \in Callers
      PROVE  /\ age[r] = Idle => r \notin fresh
             /\ IsFiniteSet(fresh \cup {r})
             /\ r \notin fresh =>
                  Cardinality(fresh \cup {r}) = Cardinality(fresh) + 1
             /\ IsFiniteSet(fresh \ {r})
             /\ Cardinality(fresh \ {r})
                  = IF r \in fresh THEN Cardinality(fresh) - 1
                                   ELSE Cardinality(fresh)
  <2>1. age[r] = Idle => r \notin fresh
    BY DEF TypeOK, InFlight
  <2>2. /\ IsFiniteSet(fresh \cup {r})
        /\ r \notin fresh =>
             Cardinality(fresh \cup {r}) = Cardinality(fresh) + 1
    BY <1>2, FS_AddElement
  <2>3. /\ IsFiniteSet(fresh \ {r})
        /\ Cardinality(fresh \ {r})
             = IF r \in fresh THEN Cardinality(fresh) - 1
                              ELSE Cardinality(fresh)
    BY <1>2, FS_RemoveElement
  <2> QED  BY <2>1, <2>2, <2>3
<1> QED  BY <1>2, <1>3, <1>4

\* A breaker that has just entered a state has nothing to account for.
LEMMA EnteredState ==
  ASSUME cb' \in Breakers, fresh' = {},
         cb'.state = StateHalfOpen =>
           cb'.counts = ZeroCounts /\ cb'.expiry = ZeroTime,
         cb'.state = StateClosed => cb'.counts = ZeroCounts,
         cb'.state = StateOpen => cb'.expiry # ZeroTime
  PROVE  TrialAccounting' /\ CountsBelowLimit'
<1>1. Cardinality(fresh') = 0
  BY FS_EmptySet
<1> QED
  BY <1>1, BreakerAssumption DEF TrialAccounting, CountsBelowLimit, ZeroCounts

\* A step that touches neither the state nor the counts nor fresh.
LEMMA UnchangedAccounting ==
  ASSUME IInv, UNCHANGED fresh, cb'.state = cb.state, cb'.counts = cb.counts,
         cb'.expiry = ZeroTime <=> cb.expiry = ZeroTime
  PROVE  TrialAccounting' /\ CountsBelowLimit'
BY DEF IInv, TrialAccounting, CountsBelowLimit

LEMMA InitInv == Init => IInv
<1> SUFFICES ASSUME Init PROVE IInv
  OBVIOUS
<1>1. NewBreaker \in Breakers
  BY BreakerAssumption DEF NewBreaker, Breakers, BreakerStates, Counts,
     Counter, ZeroCounts, ZeroTime, Horizon
<1>2. TypeOK
  BY <1>1, BreakerAssumption DEF Init, TypeOK, Idle, Horizon
<1>3. cb.state = StateClosed /\ cb.counts = ZeroCounts
  BY DEF Init, NewBreaker
<1> QED
  BY <1>2, <1>3, BreakerAssumption
  DEF IInv, TrialAccounting, CountsBelowLimit, ZeroCounts, StateClosed,
      StateHalfOpen, StateOpen

\* An admission takes one slot and adds one request in flight.
LEMMA BeginInv ==
  ASSUME IInv, NEW r \in Callers, Begin(r)
  PROVE  IInv'
<1>1. cb \in Breakers /\ cb' = Allow(cb) /\ Admits(cb) /\ age[r] = Idle
  BY DEF IInv, TypeOK, Begin
<1>2. cb' \in Breakers /\ cb'.generation = cb.generation
  BY <1>1, AllowFacts
<1>3. fresh' = fresh \cup {r} /\ age' = [age EXCEPT ![r] = 0]
  BY <1>2 DEF Begin, KeepFresh
<1>4. TypeOK'
  <2>1. age' \in [Callers -> Idle .. Horizon]
    BY <1>3, BreakerAssumption DEF IInv, TypeOK, Idle, Horizon
  <2>2. fresh' \in SUBSET InFlight'
    BY <1>3 DEF IInv, TypeOK, InFlight, Idle
  <2> QED  BY <1>2, <2>1, <2>2 DEF TypeOK
<1>5. TrialAccounting'
  <2> SUFFICES ASSUME cb.state = StateHalfOpen PROVE TrialAccounting'
    BY <1>1, AllowFacts DEF TrialAccounting
  <2>1. /\ cb'.counts = [cb.counts EXCEPT
                           !.Requests = Increment(cb.counts.Requests)]
        /\ cb'.expiry = cb.expiry
    BY <1>1, AllowFacts DEF StateHalfOpen, StateClosed
  <2>2. cb.counts.Requests < MaxRequests
    BY <1>1 DEF Admits, currentState, StateHalfOpen, StateOpen
  <2>3. Increment(cb.counts.Requests) = cb.counts.Requests + 1
    BY <1>1, <2>2, IncrementType, BreakerAssumption DEF Breakers, Counts, Counter
  <2>4. Cardinality(fresh') = Cardinality(fresh) + 1 /\ Cardinality(fresh) \in Nat
    BY <1>1, <1>3, FreshFinite DEF IInv
  <2> QED
    BY <1>1, <2>1, <2>2, <2>3, <2>4, BreakerAssumption
    DEF IInv, TrialAccounting, Breakers, Counts, Counter
<1>6. CountsBelowLimit'
  <2>1. /\ cb'.state = cb.state /\ cb'.expiry = cb.expiry
        /\ cb'.counts.ConsecutiveFailures
             \in {cb.counts.ConsecutiveFailures, 0}
    BY <1>1, AllowFacts
  <2>2. 0 < ConsecutiveLimit
    BY BreakerAssumption
  <2> QED  BY <2>1, <2>2 DEF IInv, CountsBelowLimit
<1> QED  BY <1>4, <1>5, <1>6 DEF IInv

\* A refusal changes nothing: only a closed breaker is ever written by
\* currentState, and a closed breaker admits.
LEMMA RefusedInv ==
  ASSUME IInv, NEW r \in Callers, Refused(r)
  PROVE  IInv' /\ UNCHANGED vars
<1>1. cb \in Breakers /\ cb' = Reject(cb) /\ ~Admits(cb)
  BY DEF IInv, TypeOK, Refused
<1>2. cb.state # StateClosed
  BY <1>1 DEF Admits, currentState, StateClosed, StateOpen, StateHalfOpen
<1>3. UNCHANGED vars
  BY <1>1, <1>2, CurrentStateFacts DEF Reject, Refused, vars
<1> QED
  BY <1>3 DEF IInv, TypeOK, TrialAccounting, CountsBelowLimit, InFlight, vars

\* A success moves a request from those away to the successes; a late one,
\* which is not in fresh, only adds a success.
LEMMA SuccessInv ==
  ASSUME IInv, NEW r \in Callers, Report(r, TRUE)
  PROVE  IInv'
<1>1. /\ cb \in Breakers /\ age[r] \in 0 .. Horizon
      /\ cb' = onSuccess(cb, age[r])
      /\ age' = [age EXCEPT ![r] = Idle]
  BY BreakerAssumption DEF IInv, TypeOK, Report, onResult, Idle, Horizon
<1>2. cb' \in Breakers
  BY <1>1, SuccessFacts
<1>3. TypeOK'
  <2>1. age' \in [Callers -> Idle .. Horizon]
    BY <1>1, BreakerAssumption DEF IInv, TypeOK, Idle, Horizon
  <2>2. fresh' \in SUBSET InFlight'
    BY <1>1 DEF IInv, TypeOK, InFlight, Report, KeepFresh
  <2> QED  BY <1>2, <2>1, <2>2 DEF TypeOK
<1> DEFINE n == Increment(cb.counts.ConsecutiveSuccesses)
<1>4. CASE cb'.generation = cb.generation
  <2>1. /\ cb.state = StateHalfOpen => n < MaxRequests
        /\ cb'.state = cb.state /\ cb'.expiry = cb.expiry
        /\ cb'.counts = [cb.counts EXCEPT !.ConsecutiveSuccesses = n,
                                          !.ConsecutiveFailures = 0]
    BY <1>1, <1>4, SuccessFacts
  <2>2. /\ fresh' = fresh \ {r} /\ Cardinality(fresh) \in Nat
        /\ Cardinality(fresh') \in {Cardinality(fresh), Cardinality(fresh) - 1}
        /\ Cardinality(fresh') \in Nat
    <3>1. fresh' = fresh \ {r}
      BY <1>4 DEF Report, KeepFresh
    <3> QED  BY <3>1, FreshFinite, FS_CardinalityType DEF IInv
  <2>3. cb.state = StateHalfOpen => n = cb.counts.ConsecutiveSuccesses + 1
    BY <1>1, IncrementType, BreakerAssumption
    DEF IInv, TrialAccounting, Breakers, Counts, Counter
  <2> HIDE DEF n
  <2>4. TrialAccounting'
    BY <1>1, <2>1, <2>2, <2>3, BreakerAssumption
    DEF IInv, TrialAccounting, Breakers, Counts, Counter
  <2>5. CountsBelowLimit'
    BY <1>1, <2>1, BreakerAssumption DEF IInv, CountsBelowLimit, Breakers, Counts
  <2> QED  BY <1>3, <2>4, <2>5 DEF IInv
<1>5. CASE cb'.generation # cb.generation
  <2>1. cb'.state = StateClosed /\ cb'.counts = ZeroCounts
    BY <1>1, <1>5, SuccessFacts
  <2>2. fresh' = {}
    BY <1>5 DEF Report, KeepFresh
  <2> QED
    BY <1>2, <1>3, <2>1, <2>2, EnteredState
    DEF IInv, StateClosed, StateHalfOpen, StateOpen
<1> QED  BY <1>4, <1>5

\* A failure is counted by a breaker that is not half-open, or it opens it.
LEMMA FailureInv ==
  ASSUME IInv, NEW r \in Callers, Report(r, FALSE)
  PROVE  IInv'
<1>1. /\ cb \in Breakers /\ age[r] \in 0 .. Horizon
      /\ cb' = onFailure(cb, age[r])
      /\ age' = [age EXCEPT ![r] = Idle]
  BY BreakerAssumption DEF IInv, TypeOK, Report, onResult, Idle, Horizon
<1>2. cb' \in Breakers
  BY <1>1, FailureFacts
<1>3. TypeOK'
  <2>1. age' \in [Callers -> Idle .. Horizon]
    BY <1>1, BreakerAssumption DEF IInv, TypeOK, Idle, Horizon
  <2>2. fresh' \in SUBSET InFlight'
    BY <1>1 DEF IInv, TypeOK, InFlight, Report, KeepFresh
  <2> QED  BY <1>2, <2>1, <2>2 DEF TypeOK
<1>4. CASE cb'.generation = cb.generation
  <2>1. /\ cb.state # StateHalfOpen /\ cb'.state = cb.state
        /\ cb'.expiry = cb.expiry
        /\ cb'.counts.ConsecutiveFailures < ConsecutiveLimit
    BY <1>1, <1>4, FailureFacts
  <2> QED  BY <1>3, <2>1 DEF IInv, TrialAccounting, CountsBelowLimit
<1>5. CASE cb'.generation # cb.generation
  <2>1. cb'.state = StateOpen /\ cb'.expiry # ZeroTime
    BY <1>1, <1>5, FailureFacts
  <2> QED
    BY <1>3, <2>1
    DEF IInv, TrialAccounting, CountsBelowLimit, StateOpen, StateClosed, StateHalfOpen
<1> QED  BY <1>4, <1>5

\* setState of a poll or of an operator enters a state with no request of
\* the new generation in flight.
LEMMA EnterInv ==
  ASSUME IInv, NEW s \in BreakerStates, cb' = setState(cb, s, 0),
         UNCHANGED age, KeepFresh(fresh)
  PROVE  IInv'
<1>1. 0 \in 0 .. Horizon /\ cb \in Breakers
  BY BreakerAssumption DEF Horizon, IInv, TypeOK
<1>2. /\ cb' \in Breakers /\ cb'.state = s /\ cb'.generation # cb.generation
      /\ s # StateOpen => cb'.counts = ZeroCounts
      /\ s = StateHalfOpen => cb'.expiry = ZeroTime
      /\ s # StateHalfOpen => cb'.expiry # ZeroTime
  BY <1>1, SetStateFacts
<1>3. fresh' = {}
  BY <1>2 DEF KeepFresh
<1>4. TypeOK'
  BY <1>2, <1>3 DEF IInv, TypeOK, InFlight
<1> QED
  BY <1>2, <1>3, <1>4, EnteredState
  DEF IInv, StateOpen, StateClosed, StateHalfOpen

LEMMA PollInv ==
  ASSUME IInv, Poll
  PROVE  IInv'
<1>1. cb \in Breakers /\ cb' = State(cb) /\ UNCHANGED age /\ KeepFresh(fresh)
  BY DEF IInv, TypeOK, Poll
<1>2. CASE cb' = currentStateEffect(cb)
  <2>1. fresh' = fresh
    BY <1>1, <1>2, CurrentStateFacts DEF KeepFresh
  <2>2. TypeOK'
    BY <1>1, <1>2, <2>1, CurrentStateFacts DEF IInv, TypeOK, InFlight
  <2>3. CASE cb.state = StateClosed
    <3>1. cb'.state = StateClosed /\ cb'.counts \in {cb.counts, ZeroCounts}
      BY <1>1, <1>2, <2>3, CurrentStateFacts
    <3>2. cb'.counts.ConsecutiveFailures < ConsecutiveLimit
      BY <2>3, <3>1, BreakerAssumption DEF IInv, CountsBelowLimit, ZeroCounts
    <3> QED
      BY <2>2, <3>1, <3>2
      DEF IInv, TrialAccounting, CountsBelowLimit, StateOpen, StateClosed, StateHalfOpen
  <2>4. CASE cb.state # StateClosed
    <3>1. cb' = cb
      BY <1>1, <1>2, <2>4, CurrentStateFacts
    <3> QED  BY <2>1, <2>2, <3>1, UnchangedAccounting DEF IInv
  <2> QED  BY <2>3, <2>4
<1>3. CASE cb' = setState(cb, StateHalfOpen, 0)
  BY <1>1, <1>3, EnterInv DEF BreakerStates
<1> QED  BY <1>1, <1>2, <1>3, StateFacts

\* The clock changes the age of requests and the distance of the expiry time.
LEMMA ClockInv ==
  ASSUME IInv, Clock
  PROVE  IInv'
<1>1. cb \in Breakers /\ cb' = Tick(cb) /\ UNCHANGED fresh
  BY DEF IInv, TypeOK, Clock
<1>2. \A r \in Callers :
        /\ Older(age[r]) \in Idle .. Horizon
        /\ Older(age[r]) = Idle <=> age[r] = Idle
  BY BreakerAssumption DEF IInv, TypeOK, Older, Idle, Horizon
<1>3. TypeOK'
  BY <1>1, <1>2, TickFacts DEF IInv, TypeOK, Clock, InFlight
<1> QED  BY <1>1, <1>3, TickFacts, UnchangedAccounting DEF IInv

LEMMA NextInv == IInv /\ [Next]_vars => IInv'
<1> SUFFICES ASSUME IInv, [Next]_vars PROVE IInv'
  OBVIOUS
<1>1. ASSUME NEW r \in Callers, Begin(r) PROVE IInv'
  BY <1>1, BeginInv
<1>2. ASSUME NEW r \in Callers, Refused(r) PROVE IInv'
  BY <1>2, RefusedInv
<1>3. ASSUME NEW r \in Callers, NEW success \in BOOLEAN, Report(r, success)
      PROVE  IInv'
  BY <1>3, SuccessInv, FailureInv
<1>4. CASE Poll
  BY <1>4, PollInv
<1>5. CASE Trip
  BY <1>5, EnterInv DEF Trip, TripManually, BreakerStates
<1>6. CASE Reset
  BY <1>6, EnterInv DEF Reset, ResetManually, BreakerStates
<1>7. CASE Clock
  BY <1>7, ClockInv
<1>8. CASE UNCHANGED vars
  BY <1>8 DEF IInv, TypeOK, TrialAccounting, CountsBelowLimit, InFlight, vars
<1> QED  BY <1>1, <1>2, <1>3, <1>4, <1>5, <1>6, <1>7, <1>8 DEF Next

(***************************************************************************)
(* The inductive invariant holds in every behaviour of the breaker, for    *)
(* any finite number of overlapping requests and any configuration         *)
(* NewBreaker accepts.                                                     *)
(***************************************************************************)
THEOREM Invariance == Spec => []IInv
BY InitInv, NextInv, PTL DEF Spec

(***************************************************************************)
(* The fields of the breaker never leave the range of their Go types.      *)
(***************************************************************************)
THEOREM TypeCorrect == Spec => []TypeOK
<1>1. IInv => TypeOK
  BY DEF IInv
<1> QED  BY Invariance, <1>1, PTL

(***************************************************************************)
(* A half-open breaker at its limit (breaker.go:136) always waits for a    *)
(* request that it admitted itself.                                        *)
(***************************************************************************)
THEOREM HalfOpenNeverWedged == Spec => []NeverWedged
<1>1. IInv => NeverWedged
  <2> SUFFICES ASSUME IInv, cb.state = StateHalfOpen, ~Admits(cb), fresh = {}
               PROVE  FALSE
    BY DEF NeverWedged
  <2>1. cb.counts.Requests \in Nat /\ cb.counts.ConsecutiveSuccesses \in Nat
    BY BreakerAssumption DEF IInv, TypeOK, Breakers, Counts, Counter
  <2>2. ~(cb.counts.Requests < MaxRequests)
    BY DEF Admits, currentState, StateOpen, StateHalfOpen
  <2>3. Cardinality(fresh) = 0
    BY FS_EmptySet
  <2> QED
    BY <2>1, <2>2, <2>3, BreakerAssumption DEF IInv, TrialAccounting
<1> QED  BY Invariance, <1>1, PTL

(***************************************************************************)
(* What a half-open breaker has counted always adds up: its slots are the  *)
(* requests still away and the successes (breaker.go:136, 217, 231).       *)
(***************************************************************************)
THEOREM TrialsAccountedFor == Spec => []TrialAccounting
<1>1. IInv => TrialAccounting
  BY DEF IInv
<1> QED  BY Invariance, <1>1, PTL

----------------------------------------------------------------------------
(* The failures really reported, against those that the breaker counts     *)

\* While the window lasts the breaker has counted every failure of a streak.
StreakInv ==
  /\ streak \in 0 .. MaxStreak
  /\ cb.state = StateClosed /\ ~WindowOver(cb)
       => streak <= cb.counts.ConsecutiveFailures

\* Within the window no admission, refusal or poll (breaker.go:162) loses a
\* failure, and none of them begins a window.
LEMMA NeutralCounts ==
  ASSUME NEW b \in Breakers,
         NEW c \in {Allow(b), Reject(b), State(b)},
         c.state = StateClosed, ~WindowOver(c)
  PROVE  /\ b.state = StateClosed /\ ~WindowOver(b)
         /\ c.counts.ConsecutiveFailures = b.counts.ConsecutiveFailures
<1>1. CASE c = State(b) /\ b.state = StateOpen /\ c = setState(b, StateHalfOpen, 0)
  BY <1>1 DEF setState, StateClosed, StateHalfOpen
<1>2. CASE c \in {Reject(b), currentStateEffect(b)}
  <2>1. c = currentStateEffect(b)
    BY <1>2 DEF Reject
  <2>2. b.state = StateClosed /\ ~WindowOver(b)
    BY <2>1, CurrentStateFacts DEF WindowOver
  <2> QED  BY <2>1, <2>2 DEF currentStateEffect
<1>3. CASE c = Allow(b)
  <2>1. b.state = StateClosed /\ ~WindowOver(b)
    BY <1>3, AllowFacts DEF WindowOver
  <2>2. c = [b EXCEPT !.counts.Requests = Increment(b.counts.Requests)]
    BY <1>3, <2>1 DEF Allow, currentStateEffect
  <2> QED  BY <2>1, <2>2 DEF Breakers, Counts
<1> QED  BY <1>1, <1>2, <1>3, StateFacts

LEMMA StreakInit == HistoryInit => StreakInv
BY StreakAssumption, BreakerAssumption
DEF HistoryInit, Init, StreakInv, NewBreaker, ZeroCounts

\* A failure of a closed breaker adds one to the streak and to the count.
LEMMA StreakFailure ==
  ASSUME IInv, StreakInv, Failure
  PROVE  StreakInv'
<1>1. PICK r \in Callers : Report(r, FALSE)
  BY DEF Failure
<1>2. /\ cb \in Breakers /\ age[r] \in 0 .. Horizon
      /\ cb' = onFailure(cb, age[r])
  BY <1>1, BreakerAssumption DEF IInv, TypeOK, Report, onResult, Idle, Horizon
<1>3. streak' \in 0 .. MaxStreak
  BY StreakAssumption DEF Failure, StreakInv, Longer
<1>4. ASSUME cb'.state = StateClosed, ~WindowOver(cb')
      PROVE  streak' <= cb'.counts.ConsecutiveFailures
  <2>1. /\ cb'.state = cb.state /\ cb'.expiry = cb.expiry
        /\ cb'.counts.ConsecutiveFailures
             = Increment(cb.counts.ConsecutiveFailures)
    BY <1>2, <1>4, FailureFacts DEF StateClosed, StateOpen
  <2>2. cb.state = StateClosed /\ ~WindowOver(cb)
    BY <1>4, <2>1 DEF WindowOver
  <2>3. /\ cb.counts.ConsecutiveFailures \in Counter
        /\ cb.counts.ConsecutiveFailures < ConsecutiveLimit
    BY <1>2, <2>2 DEF IInv, CountsBelowLimit, Breakers, Counts
  <2>4. Increment(cb.counts.ConsecutiveFailures)
          = cb.counts.ConsecutiveFailures + 1
    BY <2>3, IncrementType, BreakerAssumption DEF Counter
  <2>5. streak' \in {streak, streak + 1}
    BY <1>4, <2>2 DEF Failure, Longer
  <2>6. streak \in Int /\ streak <= cb.counts.ConsecutiveFailures
    BY <2>2, StreakAssumption DEF StreakInv
  <2> QED  BY <2>1, <2>3, <2>4, <2>5, <2>6, BreakerAssumption DEF Counter
<1> QED  BY <1>3, <1>4 DEF StreakInv

\* Where the streak begins anew, no count can be smaller.
LEMMA StreakZero ==
  ASSUME IInv', streak' = 0
  PROVE  StreakInv'
<1>1. cb'.counts.ConsecutiveFailures \in Counter
  BY DEF IInv, TypeOK, Breakers, Counts
<1> QED  BY <1>1, StreakAssumption, BreakerAssumption DEF StreakInv, Counter

LEMMA StreakNeutral ==
  ASSUME IInv, StreakInv, Neutral
  PROVE  StreakInv'
<1>1. cb \in Breakers /\ cb' \in {Allow(cb), Reject(cb), State(cb)}
  BY DEF IInv, TypeOK, Neutral, Poll, Begin, Refused
<1>2. streak' = streak
  BY DEF Neutral
<1>3. ASSUME cb'.state = StateClosed, ~WindowOver(cb')
      PROVE  streak' <= cb'.counts.ConsecutiveFailures
  BY <1>1, <1>2, <1>3, NeutralCounts DEF StreakInv
<1> QED  BY <1>2, <1>3 DEF StreakInv

LEMMA StreakPasses ==
  ASSUME IInv, StreakInv, IInv', Passes
  PROVE  StreakInv'
<1>1. cb \in Breakers /\ cb' = Tick(cb)
  BY DEF IInv, TypeOK, Passes, Clock
<1>2. CASE WindowOver(cb')
  BY <1>2, StreakZero DEF Passes
<1>3. CASE ~WindowOver(cb')
  <2>1. streak' = streak
    BY <1>3 DEF Passes
  <2>2. cb'.state = cb.state /\ cb'.counts = cb.counts
    BY <1>1, TickFacts
  <2>3. WindowOver(cb) => WindowOver(cb')
    BY <1>1, <2>2 DEF WindowOver, Tick, OneTickCloser, Before, Breakers
  <2> QED  BY <1>3, <2>1, <2>2, <2>3 DEF StreakInv
<1> QED  BY <1>2, <1>3

LEMMA StreakNext ==
  IInv /\ StreakInv /\ [HistoryNext]_historyVars => IInv' /\ StreakInv'
<1> SUFFICES ASSUME IInv, StreakInv, [HistoryNext]_historyVars
             PROVE  IInv' /\ StreakInv'
  OBVIOUS
<1>1. [Next]_vars
  BY DEF HistoryNext, Failure, Success, Forced, Passes, Neutral, Next,
         historyVars, vars
<1>2. IInv'
  BY <1>1, NextInv
<1>3. CASE Failure
  BY <1>2, <1>3, StreakFailure
<1>4. CASE Success \/ Forced
  BY <1>2, <1>4, StreakZero DEF Success, Forced
<1>5. CASE Passes
  BY <1>2, <1>5, StreakPasses
<1>6. CASE Neutral
  BY <1>2, <1>6, StreakNeutral
<1>7. CASE UNCHANGED historyVars
  BY <1>2, <1>7 DEF StreakInv, WindowOver, historyVars
<1> QED  BY <1>2, <1>3, <1>4, <1>5, <1>6, <1>7 DEF HistoryNext

(***************************************************************************)
(* Until the window of a closed breaker ends (breaker.go:164), as many     *)
(* failures in a row as trip it have never been reported to it, however    *)
(* requests overlap and however late they report.  After the window this   *)
(* is false, as the run breaker_never_trips shows.                         *)
(***************************************************************************)
THEOREM FailuresTripInWindow == HistorySpec => []TripsInWindow
<1>1. HistoryInit => IInv /\ StreakInv
  BY InitInv, StreakInit DEF HistoryInit
<1>2. IInv /\ StreakInv => TripsInWindow
  <2> SUFFICES ASSUME IInv, StreakInv, cb.state = StateClosed, ~WindowOver(cb)
               PROVE  streak < ConsecutiveLimit
    BY DEF TripsInWindow
  <2>1. cb.counts.ConsecutiveFailures \in Counter
    BY DEF IInv, TypeOK, Breakers, Counts
  <2> QED
    BY <2>1, BreakerAssumption, StreakAssumption
    DEF IInv, StreakInv, CountsBelowLimit, Counter
<1> QED  BY <1>1, <1>2, StreakNext, PTL DEF HistorySpec

----------------------------------------------------------------------------
(* The breaker implements CircuitProtocol                                  *)

\* Outside the half-open state the protocol counts nothing, so a step that
\* stays outside it, in the same state, is a stutter of the protocol.
LEMMA OutsideHalfOpen ==
  ASSUME cb.state # StateHalfOpen, cb'.state = cb.state
  PROVE  UNCHANGED Protocol!pvars
BY DEF Protocol!pvars, WhileHalfOpen

\* A step that leaves the state and the counts alone is a stutter.
LEMMA SameCounts ==
  ASSUME cb'.state = cb.state, cb'.counts = cb.counts
  PROVE  UNCHANGED Protocol!pvars
BY DEF Protocol!pvars, WhileHalfOpen

\* Every step of the breaker is a step of the protocol or a stutter.
LEMMA StepRefines ==
  ASSUME IInv, IInv', [Next]_vars
  PROVE  [Protocol!Next]_(Protocol!pvars)
<1>0. cb \in Breakers
  BY DEF IInv, TypeOK
<1>1. ASSUME NEW r \in Callers, Begin(r)
      PROVE  [Protocol!Next]_(Protocol!pvars)
  <2>1. cb' = Allow(cb) /\ Admits(cb) /\ cb'.state = cb.state
    BY <1>0, <1>1, AllowFacts DEF Begin
  <2>2. CASE cb.state = StateHalfOpen
    <3>1. cb'.counts = [cb.counts EXCEPT
                          !.Requests = Increment(cb.counts.Requests)]
      BY <1>0, <2>1, <2>2, AllowFacts DEF StateHalfOpen, StateClosed
    <3>2. cb.counts.Requests < MaxRequests
      BY <2>1, <2>2 DEF Admits, currentState, StateHalfOpen, StateOpen
    <3>3. Increment(cb.counts.Requests) = cb.counts.Requests + 1
      BY <1>0, <3>2, IncrementType, BreakerAssumption
      DEF Breakers, Counts, Counter
    <3>4. /\ cb'.counts.Requests = cb.counts.Requests + 1
          /\ cb'.counts.ConsecutiveSuccesses = cb.counts.ConsecutiveSuccesses
      BY <1>0, <3>1, <3>3 DEF Breakers, Counts
    <3>5. Protocol!Admit
      BY <2>1, <2>2, <3>2, <3>4
      DEF Protocol!Admit, WhileHalfOpen, StateHalfOpen
    <3> QED  BY <3>5 DEF Protocol!Next
  <2> QED  BY <2>1, <2>2, OutsideHalfOpen
<1>2. ASSUME NEW r \in Callers, Refused(r)
      PROVE  [Protocol!Next]_(Protocol!pvars)
  <2>1. UNCHANGED vars
    BY <1>2, RefusedInv
  <2> QED  BY <2>1, SameCounts DEF vars
<1>3. ASSUME NEW r \in Callers, Report(r, TRUE)
      PROVE  [Protocol!Next]_(Protocol!pvars)
  <2> DEFINE n == Increment(cb.counts.ConsecutiveSuccesses)
  <2>1. age[r] \in 0 .. Horizon /\ cb' = onSuccess(cb, age[r])
    BY <1>3, BreakerAssumption DEF IInv, TypeOK, Report, onResult, Idle, Horizon
  <2>2. CASE cb.state # StateHalfOpen
    BY <1>0, <2>1, <2>2, SuccessFacts, OutsideHalfOpen
  <2>3. CASE cb.state = StateHalfOpen
    <3>1. n = cb.counts.ConsecutiveSuccesses + 1 /\ n \in Nat /\ n <= MaxRequests
      BY <1>0, <2>3, IncrementType, BreakerAssumption
      DEF IInv, TrialAccounting, Breakers, Counts, Counter
    <3>2. CASE n < MaxRequests /\ cb'.state = StateHalfOpen
      <4>1. cb'.counts = [cb.counts EXCEPT !.ConsecutiveSuccesses = n,
                                           !.ConsecutiveFailures = 0]
        BY <1>0, <2>1, <2>3, <3>2, SuccessFacts DEF StateHalfOpen, StateClosed
      <4>2. /\ cb'.counts.Requests = cb.counts.Requests
            /\ cb'.counts.ConsecutiveSuccesses = n
        BY <1>0, <4>1 DEF Breakers, Counts
      <4>3. Protocol!Pass
        BY <2>3, <3>1, <3>2, <4>2
        DEF Protocol!Pass, WhileHalfOpen, StateHalfOpen
      <4> QED  BY <4>3 DEF Protocol!Next
    <3>3. CASE n >= MaxRequests /\ cb'.state = StateClosed
      <4>1. cb.counts.ConsecutiveSuccesses + 1 = MaxRequests
        BY <3>1, <3>3, BreakerAssumption
      <4>2. Protocol!Close
        BY <2>3, <3>3, <4>1
        DEF Protocol!Close, Protocol!Enter, WhileHalfOpen, StateHalfOpen,
            StateClosed
      <4> QED  BY <4>2 DEF Protocol!Next
    <3> QED  BY <1>0, <2>1, <2>3, <3>2, <3>3, SuccessFacts
  <2> QED  BY <2>2, <2>3
<1>4. ASSUME NEW r \in Callers, Report(r, FALSE)
      PROVE  [Protocol!Next]_(Protocol!pvars)
  <2>1. age[r] \in 0 .. Horizon /\ cb' = onFailure(cb, age[r])
    BY <1>4, BreakerAssumption DEF IInv, TypeOK, Report, onResult, Idle, Horizon
  <2>2. CASE cb.state # StateHalfOpen /\ cb'.state = cb.state
    BY <2>2, OutsideHalfOpen
  <2>3. CASE cb'.state = StateOpen /\ cb.state # StateOpen
    <3>1. cb.state \in {StateClosed, StateHalfOpen}
      BY <1>0, <2>3 DEF Breakers, BreakerStates
    <3>2. Protocol!Trip
      BY <2>3, <3>1
      DEF Protocol!Trip, Protocol!Enter, WhileHalfOpen, StateHalfOpen,
          StateClosed, StateOpen
    <3> QED  BY <3>2 DEF Protocol!Next
  <2> QED
    BY <1>0, <2>1, <2>2, <2>3, FailureFacts DEF StateOpen, StateHalfOpen
<1>5. CASE Poll
  <2>1. cb' = State(cb)
    BY <1>5 DEF Poll
  <2>2. CASE cb' = currentStateEffect(cb)
    BY <1>0, <2>2, CurrentStateFacts, OutsideHalfOpen, SameCounts
    DEF StateHalfOpen, StateClosed
  <2>3. CASE cb.state = StateOpen /\ cb' = setState(cb, StateHalfOpen, 0)
    <3>1. cb'.state = StateHalfOpen /\ cb'.counts = ZeroCounts
      BY <1>0, <2>3, SetStateFacts, BreakerAssumption
      DEF Horizon, BreakerStates, StateOpen, StateHalfOpen
    <3>2. Protocol!Expire
      BY <2>3, <3>1
      DEF Protocol!Expire, Protocol!Enter, WhileHalfOpen, StateHalfOpen,
          StateOpen, ZeroCounts
    <3> QED  BY <3>2 DEF Protocol!Next
  <2> QED  BY <1>0, <2>1, <2>2, <2>3, StateFacts
<1>6. CASE Trip
  <2>1. Operator /\ cb'.state = StateOpen
    BY <1>0, <1>6, SetStateFacts, BreakerAssumption
    DEF Trip, TripManually, Horizon, BreakerStates
  <2>2. Protocol!Force
    BY <2>1
    DEF Protocol!Force, Protocol!Enter, WhileHalfOpen, StateHalfOpen, StateOpen
  <2> QED  BY <2>2 DEF Protocol!Next
<1>7. CASE Reset
  <2>1. Operator /\ cb'.state = StateClosed
    BY <1>0, <1>7, SetStateFacts, BreakerAssumption
    DEF Reset, ResetManually, Horizon, BreakerStates
  <2>2. Protocol!Force
    BY <2>1
    DEF Protocol!Force, Protocol!Enter, WhileHalfOpen, StateHalfOpen, StateClosed
  <2> QED  BY <2>2 DEF Protocol!Next
<1>8. CASE Clock
  BY <1>0, <1>8, TickFacts, SameCounts DEF Clock
<1>9. CASE UNCHANGED vars
  BY <1>9, SameCounts DEF vars
<1>10. ASSUME NEW r \in Callers, NEW success \in BOOLEAN, Report(r, success)
       PROVE  [Protocol!Next]_(Protocol!pvars)
  BY <1>3, <1>4, <1>10
<1> QED
  BY <1>1, <1>2, <1>5, <1>6, <1>7, <1>8, <1>9, <1>10 DEF Next

(***************************************************************************)
(* The breaker of breaker.go implements the protocol of ARCHITECTURE.md:   *)
(* late reports, overlapping requests, window resets and the wrap of the   *)
(* counters never take it off the documented edges, nor past the limits of *)
(* the half-open state.                                                    *)
(***************************************************************************)
THEOREM Refinement == Spec => ImplementsProtocol
<1>1. Init => Protocol!Init
  BY DEF Init, Protocol!Init, NewBreaker, WhileHalfOpen, StateClosed,
     StateHalfOpen
<1>2. IInv /\ IInv' /\ [Next]_vars => [Protocol!Next]_(Protocol!pvars)
  BY StepRefines
<1> QED  BY <1>1, <1>2, Invariance, PTL DEF Spec, ImplementsProtocol, Protocol!Spec

----------------------------------------------------------------------------
(* The manager of the breakers                                             *)

\* Who holds the locks is who stands between taking and releasing them.
LockInv ==
  /\ \A t \in Threads : pc[t] = "read" <=> t \in readers
  /\ \A t \in Threads : pc[t] \in {"check", "unlock"} <=> t \in writer
  /\ \A t, u \in writer : t = u
  /\ writer # {} => readers = {}

(***************************************************************************)
(* OneBreaker alone is not inductive: it does not relate a breaker that    *)
(* was returned to the map.  A breaker returned in the current epoch of    *)
(* its name is the one the map holds, so the map is not empty there and    *)
(* nobody creates another.                                                 *)
(***************************************************************************)
MapAgrees ==
  \A t \in Threads : Holds(t) =>
    /\ gotEpoch[t] <= epoch[name[t]]
    /\ gotEpoch[t] = epoch[name[t]] => breakers[name[t]] = got[t]

ManagerInv == ManagerTypeOK /\ LockInv /\ MapAgrees /\ OneBreaker

LEMMA ManagerInitInv == ManagerInit => ManagerInv
BY DEF ManagerInit, ManagerInv, ManagerTypeOK, LockInv, MapAgrees, OneBreaker,
       Holds, Serials, Absent, Places

\* A step that touches neither the map nor what calls returned.
LEMMA UnchangedMap ==
  ASSUME ManagerInv, UNCHANGED <<breakers, made, name, got, epoch, gotEpoch>>
  PROVE  MapAgrees' /\ OneBreaker'
BY DEF ManagerInv, MapAgrees, OneBreaker, Holds

\* What Take stores agrees with the map that the step leaves behind, as long
\* as the step replaces no breaker.
LEMMA TakeAgrees ==
  ASSUME ManagerInv, NEW t \in Threads, NEW b \in Nat \ {Absent},
         Take(t, b),
         UNCHANGED <<name, epoch>>,
         breakers' = [breakers EXCEPT ![name[t]] = b],
         breakers[name[t]] \in {b, Absent}
  PROVE  MapAgrees' /\ OneBreaker'
<1>1. /\ got' = [got EXCEPT ![t] = b]
      /\ gotEpoch' = [gotEpoch EXCEPT ![t] = epoch[name[t]]]
  BY DEF Take
<1>2. /\ got \in [Threads -> Serials] /\ gotEpoch \in [Threads -> Nat]
      /\ name \in [Threads -> Names] /\ breakers \in [Names -> Serials]
      /\ epoch \in [Names -> Nat]
  BY DEF ManagerInv, ManagerTypeOK
<1>3. MapAgrees'
  <2> SUFFICES ASSUME NEW u \in Threads, Holds(u)'
               PROVE  /\ gotEpoch'[u] <= epoch'[name'[u]]
                      /\ gotEpoch'[u] = epoch'[name'[u]]
                           => breakers'[name'[u]] = got'[u]
    BY DEF MapAgrees
  <2>1. CASE u = t
    BY <1>1, <1>2, <2>1
  <2>2. CASE u # t
    <3>1. Holds(u) /\ gotEpoch'[u] = gotEpoch[u] /\ got'[u] = got[u]
      BY <1>1, <1>2, <2>2 DEF Holds
    <3> QED  BY <1>2, <3>1 DEF ManagerInv, MapAgrees, Holds, Absent
  <2> QED  BY <2>1, <2>2
<1>4. OneBreaker'
  <2> SUFFICES ASSUME NEW u \in Threads, NEW v \in Threads,
                      Holds(u)', Holds(v)', name[u] = name[v],
                      gotEpoch'[u] = gotEpoch'[v]
               PROVE  got'[u] = got'[v]
    BY DEF OneBreaker
  <2>1. \A w \in Threads : w # t =>
          /\ Holds(w)' = Holds(w)
          /\ gotEpoch'[w] = gotEpoch[w] /\ got'[w] = got[w]
    BY <1>1, <1>2 DEF Holds
  <2>2. gotEpoch'[t] = epoch[name[t]] /\ got'[t] = b
    BY <1>1, <1>2
  <2>3. CASE u # t /\ v # t
    BY <2>1, <2>3 DEF ManagerInv, OneBreaker
  <2>4. CASE u = t /\ v # t
    BY <1>2, <2>1, <2>2, <2>4 DEF ManagerInv, MapAgrees, Holds
  <2>5. CASE u # t /\ v = t
    BY <1>2, <2>1, <2>2, <2>5 DEF ManagerInv, MapAgrees, Holds
  <2> QED  BY <2>3, <2>4, <2>5
<1> QED  BY <1>3, <1>4

LEMMA GetBreakerInv ==
  ASSUME ManagerInv, NEW t \in Threads, NEW n \in Names, GetBreaker(t, n)
  PROVE  ManagerInv'
<1>1. ManagerTypeOK'
  BY DEF ManagerInv, ManagerTypeOK, GetBreaker, Goto, Places, Absent,
         Serials
<1>2. LockInv'
  BY DEF ManagerInv, ManagerTypeOK, LockInv, GetBreaker, Goto
<1>3. MapAgrees' /\ OneBreaker'
  BY DEF ManagerInv, ManagerTypeOK, MapAgrees, OneBreaker, Holds,
         GetBreaker, Absent
<1> QED  BY <1>1, <1>2, <1>3 DEF ManagerInv

LEMMA RLockInv ==
  ASSUME ManagerInv, NEW t \in Threads, RLock(t)
  PROVE  ManagerInv'
<1>1. ManagerTypeOK'
  BY DEF ManagerInv, ManagerTypeOK, RLock, Goto, Places, Serials
<1>2. LockInv'
  BY DEF ManagerInv, ManagerTypeOK, LockInv, RLock, Goto
<1> QED  BY <1>1, <1>2, UnchangedMap DEF ManagerInv, RLock

LEMMA LookInv ==
  ASSUME ManagerInv, NEW t \in Threads, Look(t)
  PROVE  ManagerInv'
<1>1. ManagerTypeOK'
  BY DEF ManagerInv, ManagerTypeOK, Look, Take, Goto, Places, Serials
<1>2. LockInv'
  BY DEF ManagerInv, ManagerTypeOK, LockInv, Look, Goto
<1>3. CASE breakers[name[t]] # Absent
  <2>1. /\ breakers[name[t]] \in Nat
        /\ breakers = [breakers EXCEPT ![name[t]] = breakers[name[t]]]
    BY DEF ManagerInv, ManagerTypeOK, Serials
  <2> QED  BY <1>1, <1>2, <1>3, <2>1, TakeAgrees DEF ManagerInv, Look
<1>4. CASE breakers[name[t]] = Absent
  BY <1>1, <1>2, <1>4, UnchangedMap DEF ManagerInv, Look
<1> QED  BY <1>3, <1>4

LEMMA CallLockInv ==
  ASSUME ManagerInv, NEW t \in Threads, CallLock(t)
  PROVE  ManagerInv'
<1>1. ManagerTypeOK'
  BY DEF ManagerInv, ManagerTypeOK, CallLock, Goto, Places, Serials
<1>2. LockInv'
  BY DEF ManagerInv, ManagerTypeOK, LockInv, CallLock, Goto
<1> QED  BY <1>1, <1>2, UnchangedMap DEF ManagerInv, CallLock

LEMMA LockStepInv ==
  ASSUME ManagerInv, NEW t \in Threads, Lock(t)
  PROVE  ManagerInv'
<1>1. ManagerTypeOK'
  BY DEF ManagerInv, ManagerTypeOK, Lock, Goto, Places, Serials
<1>2. LockInv'
  BY DEF ManagerInv, ManagerTypeOK, LockInv, Lock, Goto
<1> QED  BY <1>1, <1>2, UnchangedMap DEF ManagerInv, Lock

LEMMA CheckInv ==
  ASSUME ManagerInv, NEW t \in Threads, Check(t)
  PROVE  ManagerInv'
<1>1. LockInv'
  BY DEF ManagerInv, ManagerTypeOK, LockInv, Check, Goto
<1>2. CASE breakers[name[t]] # Absent
  <2>1. ManagerTypeOK'
    BY <1>2 DEF ManagerInv, ManagerTypeOK, Check, Take, Goto, Places,
                Serials
  <2>2. /\ breakers[name[t]] \in Nat
        /\ breakers = [breakers EXCEPT ![name[t]] = breakers[name[t]]]
    BY DEF ManagerInv, ManagerTypeOK, Serials
  <2>3. /\ Take(t, breakers[name[t]])
        /\ UNCHANGED <<breakers, name, epoch>>
    BY <1>2 DEF Check
  <2>4. MapAgrees' /\ OneBreaker'
    BY <1>2, <2>2, <2>3, TakeAgrees
  <2> QED  BY <1>1, <2>1, <2>4 DEF ManagerInv
<1>3. CASE breakers[name[t]] = Absent
  <2>1. /\ made' = made + 1 /\ Take(t, made + 1)
        /\ breakers' = [breakers EXCEPT ![name[t]] = made + 1]
    BY <1>3 DEF Check
  <2>2. made \in Nat /\ made + 1 # Absent
    BY DEF ManagerInv, ManagerTypeOK, Absent
  <2>3. ManagerTypeOK'
    <3>1. Serials \subseteq Serials' /\ made + 1 \in Serials'
      BY <2>1, <2>2 DEF Serials
    <3> QED
      BY <2>1, <2>2, <3>1 DEF ManagerInv, ManagerTypeOK, Check, Take, Goto,
                              Places
  <2>4. MapAgrees' /\ OneBreaker'
    <3>1. made + 1 \in Nat \ {Absent} /\ UNCHANGED <<name, epoch>>
      BY <2>2 DEF Check
    <3> DEFINE b == made + 1
    <3>2. /\ b \in Nat \ {Absent} /\ Take(t, b)
          /\ breakers' = [breakers EXCEPT ![name[t]] = b]
          /\ breakers[name[t]] \in {b, Absent}
      BY <1>3, <2>1, <3>1
    <3> HIDE DEF b
    <3> QED  BY <3>1, <3>2, TakeAgrees
  <2> QED  BY <1>1, <2>3, <2>4 DEF ManagerInv
<1> QED  BY <1>2, <1>3

LEMMA UnlockInv ==
  ASSUME ManagerInv, NEW t \in Threads, Unlock(t)
  PROVE  ManagerInv'
<1>1. ManagerTypeOK'
  BY DEF ManagerInv, ManagerTypeOK, Unlock, Goto, Places, Serials
<1>2. LockInv'
  BY DEF ManagerInv, ManagerTypeOK, LockInv, Unlock, Goto
<1> QED  BY <1>1, <1>2, UnchangedMap DEF ManagerInv, Unlock

\* A removal begins an epoch: nothing returned so far belongs to it.
LEMMA RemoveInv ==
  ASSUME ManagerInv, NEW n \in Names, RemoveBreaker(n)
  PROVE  ManagerInv'
<1>1. ManagerTypeOK'
  BY DEF ManagerInv, ManagerTypeOK, RemoveBreaker, Serials, Absent
<1>2. LockInv'
  BY DEF ManagerInv, LockInv, RemoveBreaker
<1>3. MapAgrees'
  BY DEF ManagerInv, ManagerTypeOK, MapAgrees, Holds, RemoveBreaker
<1>4. OneBreaker'
  BY DEF ManagerInv, OneBreaker, Holds, RemoveBreaker
<1> QED  BY <1>1, <1>2, <1>3, <1>4 DEF ManagerInv

LEMMA ManagerNextInv == ManagerInv /\ [ManagerNext]_managerVars => ManagerInv'
<1> SUFFICES ASSUME ManagerInv, [ManagerNext]_managerVars PROVE ManagerInv'
  OBVIOUS
<1>1. CASE UNCHANGED managerVars
  BY <1>1 DEF ManagerInv, ManagerTypeOK, LockInv, MapAgrees, OneBreaker,
              Holds, Serials, managerVars
<1> QED
  BY <1>1, GetBreakerInv, RLockInv, LookInv, CallLockInv, LockStepInv,
     CheckInv, UnlockInv, RemoveInv
  DEF ManagerNext

\* The inductive invariant holds throughout.
THEOREM ManagerInvariance == ManagerSpec => []ManagerInv
BY ManagerInitInv, ManagerNextInv, PTL DEF ManagerSpec

(***************************************************************************)
(* Double-checked locking in GetBreaker (manager.go:23-42) never hands out *)
(* two breakers for one host.                                              *)
(***************************************************************************)
THEOREM SharedBreaker == ManagerSpec => []OneBreaker
<1>1. ManagerInv => OneBreaker
  BY DEF ManagerInv
<1> QED  BY ManagerInvariance, <1>1, PTL

(***************************************************************************)
(* The map of breakers is never read or written next to a write.           *)
(***************************************************************************)
THEOREM MapIsGuarded == ManagerSpec => []NoMapRace
<1>1. ManagerInv => NoMapRace
  BY DEF ManagerInv, LockInv, NoMapRace
<1> QED  BY ManagerInvariance, <1>1, PTL
=============================================================================
