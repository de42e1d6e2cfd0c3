--------------------------- MODULE HealthChecker ---------------------------
(***************************************************************************)
(* internal/health/checker.go for one backend: a ticker starts a probe     *)
(* goroutine every interval, whether or not the last one has ended, and    *)
(* each probe writes its verdict to the backend's alive flag, to its count *)
(* of consecutive failures and to two gauges, in separate steps.  The      *)
(* admin endpoint /api/chaos/backend toggles the flag, and requests write  *)
(* the count as well.                                                      *)
(*                                                                         *)
(* Backends are probed independently of each other.  A goroutine that has  *)
(* its verdict finishes within a tick.                                     *)
(***************************************************************************)
EXTENDS Naturals, FiniteSets

CONSTANTS
  Slots,          \* the probes that may be under way at the same time
  ProbeInterval,  \* health.interval_seconds, in ticks
  MaxFailures     \* bound: the count of failures saturates here

ASSUME HealthAssumption ==
  /\ ProbeInterval \in Nat \ {0}
  /\ IsFiniteSet(Slots) /\ Cardinality(Slots) >= 2
  /\ MaxFailures \in Nat \ {0}

VARIABLES
  timeout,    \* health.timeout_seconds in ticks, fixed at start
  operator,   \* whether /api/chaos/backend is used, fixed at start
  server,     \* the backend itself: "up", "down" (it refuses) or "hung"
  alive,      \* Backend.alive
  failures,   \* Backend.consecutiveFailures
  health,     \* the gauge proxy_backend_health, "unset" before the first probe
  reported,   \* the gauge proxy_backend_consecutive_failures
  probe,      \* the probe goroutines
  timer,      \* ticks until the ticker fires
  chaos       \* the handler of /api/chaos/backend

settings == <<timeout, operator>>
vars == <<settings, server, alive, failures, health, reported, probe, timer, chaos>>

NoProbe == [pc |-> "none", age |-> 0, verdict |-> FALSE, lost |-> FALSE,
            overtaken |-> FALSE]

\* lost: the server was hung while the probe waited, and may never answer it.
\* overtaken: a probe that began later has already set the flag (history).
Probes ==
  [pc : {"none", "waiting", "verdict", "flagged", "counted"},
   age : 0 .. ProbeInterval, verdict : BOOLEAN, lost : BOOLEAN,
   overtaken : BOOLEAN]

Bump(n) == IF n = MaxFailures THEN n ELSE n + 1

\* SetAlive(v): the flag, and the count if the backend is back.
SetAlive(v) ==
  /\ alive' = v
  /\ failures' = IF v THEN 0 ELSE failures

(***************************************************************************)
(* NewBackend is alive; Start probes at once.  validateHealth              *)
(* (validator.go:87-98) accepts a timeout that is as long as the interval, *)
(* and then two probes can be under way.                                   *)
(***************************************************************************)
Init ==
  /\ timeout \in 1 .. ProbeInterval
  /\ operator \in BOOLEAN
  /\ server \in {"up", "down", "hung"}
  /\ alive = TRUE
  /\ failures = 0
  /\ health = "unset"
  /\ reported = 0
  /\ probe = [p \in Slots |-> NoProbe]
  /\ timer = 0
  /\ chaos = "idle"

----------------------------------------------------------------------------
(* Start, checkAll and probe                                               *)

\* The ticker fires and checkAll starts a goroutine.
StartProbe(p) ==
  /\ timer = 0
  /\ probe[p].pc = "none"
  /\ probe' = [probe EXCEPT ![p] =
                 [NoProbe EXCEPT !.pc = "waiting", !.lost = (server = "hung")]]
  /\ timer' = ProbeInterval
  /\ UNCHANGED <<settings, server, alive, failures, health, reported, chaos>>

Judge(p, v) == probe' = [probe EXCEPT ![p].pc = "verdict", ![p].verdict = v]

\* client.Do returns: a status in 200..299 from a server that is up, another
\* status or a refused connection from one that is down.
Answer(p) ==
  /\ probe[p].pc = "waiting"
  /\ server # "hung"
  /\ Judge(p, server = "up")
  /\ UNCHANGED <<settings, server, alive, failures, health, reported, timer, chaos>>

\* Mutant of Patience: the request outlives the configured timeout.
Impatience == ProbeInterval

\* The timeout of the probe's context and of its client.
Patience == timeout

\* Mutant of Expire: a probe that timed out has no verdict.
ExpireSilently(p) ==
  /\ probe[p].pc = "waiting" /\ probe[p].lost /\ probe[p].age = Patience
  /\ probe' = [probe EXCEPT ![p] = NoProbe]
  /\ UNCHANGED <<settings, server, alive, failures, health, reported, timer, chaos>>

\* The context of the probe expires: client.Do returns an error.
Expire(p) ==
  /\ probe[p].pc = "waiting"
  /\ probe[p].lost /\ probe[p].age = Patience
  /\ Judge(p, FALSE)
  /\ UNCHANGED <<settings, server, alive, failures, health, reported, timer, chaos>>

----------------------------------------------------------------------------
(* setAlive                                                                *)

\* Probes that began before p and have not set the flag yet are overtaken.
Overtaken(p, q) == q.pc \in {"waiting", "verdict"} /\ q.age > probe[p].age

SetFlag(p) ==
  /\ probe[p].pc = "verdict"
  /\ SetAlive(probe[p].verdict)
  /\ probe' = [q \in Slots |->
                 IF q = p THEN [probe[p] EXCEPT !.pc = "flagged"]
                 ELSE [probe[q] EXCEPT !.overtaken = @ \/ Overtaken(p, probe[q])]]
  /\ UNCHANGED <<settings, server, health, reported, timer, chaos>>

\* RecordFailure or RecordSuccess.
Count(p) ==
  /\ probe[p].pc = "flagged"
  /\ failures' = IF probe[p].verdict THEN 0 ELSE Bump(failures)
  /\ probe' = [probe EXCEPT ![p].pc = "counted"]
  /\ UNCHANGED <<settings, server, alive, health, reported, timer, chaos>>

\* Mutant of SetBackendHealth: a success is published only if it is the first.
SetBackendHealthDown(v) ==
  health' = IF v /\ health # "unset" THEN health ELSE IF v THEN "up" ELSE "down"

SetBackendHealth(v) == health' = IF v THEN "up" ELSE "down"

\* SetBackendHealth and RecordHealthCheck, which write different gauges.
Publish(p) ==
  /\ probe[p].pc = "counted"
  /\ SetBackendHealth(probe[p].verdict)
  /\ reported' = failures
  /\ probe' = [probe EXCEPT ![p] = NoProbe]
  /\ UNCHANGED <<settings, server, alive, failures, timer, chaos>>

----------------------------------------------------------------------------
(* POST /api/chaos/backend, requests, the server and time                  *)

\* newAlive := !b.IsAlive()
ChaosRead ==
  /\ operator /\ chaos = "idle"
  /\ chaos' = IF alive THEN "kill" ELSE "revive"
  /\ UNCHANGED <<settings, server, alive, failures, health, reported, probe, timer>>

ChaosSet ==
  /\ chaos \in {"kill", "revive"}
  /\ SetAlive(chaos = "revive")
  /\ chaos' = IF chaos = "revive" THEN "revived" ELSE "killed"
  /\ UNCHANGED <<settings, server, health, reported, probe, timer>>

ChaosPublish ==
  /\ chaos \in {"killed", "revived"}
  /\ SetBackendHealth(chaos = "revived")
  /\ chaos' = "idle"
  /\ UNCHANGED <<settings, server, alive, failures, reported, probe, timer>>

\* A proxied request reports through RecordSuccess or RecordFailure.
RequestReports(ok) ==
  /\ failures' = IF ok THEN 0 ELSE Bump(failures)
  /\ UNCHANGED <<settings, server, alive, health, reported, probe, timer, chaos>>

ServerBecomes(s) ==
  /\ server' = s
  /\ probe' = [p \in Slots |->
                 [probe[p] EXCEPT !.lost = @ \/ (s = "hung" /\ probe[p].pc = "waiting")]]
  /\ UNCHANGED <<settings, alive, failures, health, reported, timer, chaos>>

\* Time passes once the ticker has been served, unless a probe is due.
Clock ==
  /\ timer > 0
  /\ \A p \in Slots : probe[p].pc = "waiting" => probe[p].age < Patience
  /\ \A p \in Slots : probe[p].pc \in {"none", "waiting"}
  /\ timer' = timer - 1
  /\ probe' = [p \in Slots |->
                 IF probe[p].pc = "waiting"
                 THEN [probe[p] EXCEPT !.age = @ + 1] ELSE probe[p]]
  /\ UNCHANGED <<settings, server, alive, failures, health, reported, chaos>>

Next ==
  \/ \E p \in Slots : StartProbe(p)
  \/ \E p \in Slots : Answer(p)
  \/ \E p \in Slots : Expire(p)
  \/ \E p \in Slots : SetFlag(p)
  \/ \E p \in Slots : Count(p)
  \/ \E p \in Slots : Publish(p)
  \/ ChaosRead
  \/ ChaosSet
  \/ ChaosPublish
  \/ \E ok \in BOOLEAN : RequestReports(ok)
  \/ \E s \in {"up", "down", "hung"} : ServerBecomes(s)
  \/ Clock

Spec == Init /\ [][Next]_vars

\* The ticker, the goroutines, the admin handler and the clock run.
FairSpec ==
  /\ Spec
  /\ WF_vars(\E p \in Slots : StartProbe(p))
  /\ \A p \in Slots :
       WF_vars(Answer(p) \/ Expire(p) \/ SetFlag(p) \/ Count(p) \/ Publish(p))
  /\ WF_vars(ChaosSet \/ ChaosPublish)
  /\ WF_vars(Clock)

----------------------------------------------------------------------------

\* Every variable has its type.
TypeOK ==
  /\ timeout \in 1 .. ProbeInterval /\ operator \in BOOLEAN
  /\ server \in {"up", "down", "hung"}
  /\ alive \in BOOLEAN
  /\ failures \in 0 .. MaxFailures
  /\ health \in {"unset", "up", "down"}
  /\ reported \in 0 .. MaxFailures
  /\ probe \in [Slots -> Probes]
  /\ timer \in 0 .. ProbeInterval
  /\ chaos \in {"idle", "kill", "revive", "killed", "revived"}

\* Nobody is between the write of the flag and the write of the gauge.
Quiet ==
  chaos = "idle" /\ \A p \in Slots : probe[p].pc \notin {"flagged", "counted"}

(***************************************************************************)
(* The gauge is the "Current health status of upstream backend"            *)
(* (collector.go:140): once every writer is done it agrees with the flag   *)
(* that routing uses, if only probes write them and do not overlap.        *)
(***************************************************************************)
GaugeAgrees ==
  ~operator /\ timeout < ProbeInterval /\ Quiet /\ health # "unset" => (health = "up") = alive

(***************************************************************************)
(* Verdicts reach the flag in the order of the probes (checker.go:81): no  *)
(* probe undoes the verdict of one that began after it.  The validator's   *)
(* "health.timeout_seconds must be less than health.interval_seconds"      *)
(* (validator.go:97) is there to ensure it.                                *)
(***************************************************************************)
VerdictsInOrder ==
  [][ timeout < ProbeInterval =>
        \A p \in Slots : SetFlag(p) => ~probe[p].overtaken ]_vars

(***************************************************************************)
(* Once the operator leaves the backend alone, a server that stays up is   *)
(* marked and shown alive for good, and one that stays down or hung is     *)
(* taken out of rotation for good (checker.go:33-101), whatever stale      *)
(* verdicts and torn toggles came before.                                  *)
(***************************************************************************)
HealthDetected ==
  <>[](chaos = "idle") =>
    /\ <>[](server = "up") => <>[](alive /\ health = "up")
    /\ <>[](server # "up") => <>[](~alive /\ health = "down")
=============================================================================
