-------------------------- MODULE CircuitProtocol --------------------------
(***************************************************************************)
(* What a circuit breaker promises, without clock, generations or overlap: *)
(* "CLOSED -> OPEN -> HALF-OPEN -> CLOSED" of ARCHITECTURE.md, where the   *)
(* half-open state admits at most Limit requests, closes with the Limit-th *)
(* success and opens with the first failure.                               *)
(***************************************************************************)
EXTENDS Naturals

CONSTANTS
  Limit,     \* requests admitted while half-open, and successes that close
  Forced     \* whether an operator may force a state

VARIABLES
  st,        \* "closed", "open" or "half-open"
  admitted,  \* requests admitted since the half-open state was entered
  passed     \* successes counted since then

pvars == <<st, admitted, passed>>

Enter(s) == st' = s /\ admitted' = 0 /\ passed' = 0

Init == st = "closed" /\ admitted = 0 /\ passed = 0

\* A failure: of enough requests when closed, of any one when half-open.
Trip == st \in {"closed", "half-open"} /\ Enter("open")

\* The timeout of the open state is over.
Expire == st = "open" /\ Enter("half-open")

Admit ==
  /\ st = "half-open" /\ admitted < Limit
  /\ admitted' = admitted + 1
  /\ UNCHANGED <<st, passed>>

Pass ==
  /\ st = "half-open" /\ passed + 1 < Limit
  /\ passed' = passed + 1
  /\ UNCHANGED <<st, admitted>>

Close == st = "half-open" /\ passed + 1 = Limit /\ Enter("closed")

\* An operator forces the breaker open or closed.
Force == Forced /\ (Enter("open") \/ Enter("closed"))

Next == Trip \/ Expire \/ Admit \/ Pass \/ Close \/ Force

Spec == Init /\ [][Next]_pvars
=============================================================================
