--------------------------- MODULE BreakerHistory ---------------------------
(***************************************************************************)
(* CircuitBreaker with a history variable that the code does not have: the *)
(* failures in a row that were really reported to a closed breaker,        *)
(* whatever became of the breaker's own counts.                            *)
(***************************************************************************)
EXTENDS CircuitBreaker

CONSTANT MaxStreak   \* bound: a longer streak is not told apart from this one

ASSUME StreakAssumption == MaxStreak \in Nat /\ MaxStreak >= ConsecutiveLimit

VARIABLE streak      \* history

historyVars == <<cb, age, fresh, streak>>

HistoryInit == Init /\ streak = 0

Longer(n) == IF n < MaxStreak THEN n + 1 ELSE n

\* A failure that leaves the breaker closed makes the streak longer.
Failure ==
  /\ \E r \in Callers : Report(r, FALSE)
  /\ streak' = IF cb.state = StateClosed /\ cb'.state = StateClosed
               THEN Longer(streak) ELSE 0

\* A success ends it, and so does a new start of the breaker.
Success ==
  /\ \E r \in Callers : Report(r, TRUE)
  /\ streak' = 0

Forced ==
  /\ Trip \/ Reset
  /\ streak' = 0

\* After the window of the breaker every tick counts as a window of its own.
Passes ==
  /\ Clock
  /\ streak' = IF WindowOver(cb') THEN 0 ELSE streak

\* Admissions, refusals and polls report nothing.
Neutral ==
  /\ Poll \/ \E r \in Callers : Begin(r) \/ Refused(r)
  /\ UNCHANGED streak

HistoryNext == Failure \/ Success \/ Forced \/ Passes \/ Neutral

HistorySpec == HistoryInit /\ [][HistoryNext]_historyVars

FairHistorySpec == HistorySpec /\ Fairness

(***************************************************************************)
(* A closed breaker whose window has not ended (breaker.go:53, 164) has    *)
(* not been told of as many failures in a row as trip it: overlapping      *)
(* requests, late reports and polls never make its counts lose a failure.  *)
(***************************************************************************)
TripsInWindow ==
  cb.state = StateClosed /\ ~WindowOver(cb) => streak < ConsecutiveLimit

(***************************************************************************)
(* "Trip if >= 3 consecutive failures" (breaker.go:52): failures in a row  *)
(* open the breaker.  The limit is doubled because the end of a window may *)
(* once fall between them; no clearing of the counts at the end of windows *)
(* can excuse more, since a streak never outlives a tick after the window. *)
(***************************************************************************)
FailuresTrip == cb.state = StateClosed => streak < 2 * ConsecutiveLimit
=============================================================================
