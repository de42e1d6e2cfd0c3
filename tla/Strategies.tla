----------------------------- MODULE Strategies -----------------------------
(***************************************************************************)
(* Round robin, weighted round robin and least connections of              *)
(* internal/balancer, called by concurrent requests while the health       *)
(* checker changes the alive flags.                                        *)
(*                                                                         *)
(* A step is one access to shared state: an alive flag, the counter of the *)
(* two round robins, or a connection count.  A list of healthy backends is *)
(* the set of their indices, since it is always in pool order.  The        *)
(* counter (64 bits wide) does not wrap.                                   *)
(***************************************************************************)
EXTENDS Integers, FiniteSets, FiniteSetsExt

CONSTANTS
  Threads,       \* the requests that may be selecting at the same time
  NumBackends,   \* the length of the pool's slice of backends
  Weight,        \* Backend.Weight of each backend
  MaxShare       \* bound: calls that return the same backend

Backends == 1 .. NumBackends

\* NewBackend replaces weights that are not positive by 1, so the branch of
\* weighted round robin for a total weight of 0 is never taken.
ASSUME StrategiesAssumption ==
  /\ NumBackends \in Nat
  /\ Weight \in [Backends -> Nat \ {0}]
  /\ MaxShare \in Nat

VARIABLES
  strategy,  \* cfg.Strategy
  alive,     \* the backends whose alive flag is set
  counter,   \* RoundRobin.next or WeightedRoundRobin.currentWeight
  conns,     \* Backend.connections
  call,      \* the local variables of each request
  returned,  \* history: how many calls returned each backend
  stable,    \* history: no flag was ever changed
  raced,     \* history: two calls were between load and store together
  span       \* history: for each call, what it could have seen

vars == <<strategy, alive, counter, conns, call, returned, stable, raced, span>>

None == 0

\* The local variables of Select, at a place where none is in use.
Blank(place) ==
  [pc |-> place,
   next |-> 1,        \* HealthyBackends: the index to be looked at
   list |-> {},       \* nodes; least connections removes what it has read
   ticket |-> 0,      \* current
   be |-> None,       \* best, and the result
   min |-> 0]

\* ever, always: the backends alive at some time and all the time since the
\* call began; lo, hi: the least and the greatest count of each since then,
\* which only least connections looks at.
Span == [ever |-> alive, always |-> alive, lo |-> conns, hi |-> conns]

Init ==
  /\ strategy \in {"round_robin", "weighted_round_robin", "least_conn"}
  /\ alive = Backends
  /\ counter = 0
  /\ conns = [b \in Backends |-> 0]
  /\ call = [t \in Threads |-> Blank("idle")]
  /\ returned = [b \in Backends |-> 0]
  /\ stable = TRUE
  /\ raced = FALSE
  /\ span = [t \in Threads |-> Span]

Least(m, n) == IF m < n THEN m ELSE n
Most(m, n) == IF m > n THEN m ELSE n

\* The spans of the calls under way take in the new flags and counts.
Watch ==
  span' = [t \in Threads |->
    IF call'[t].pc \in {"idle", "busy"} \/ call[t].pc = "idle" THEN Span'
    ELSE [ever   |-> span[t].ever \cup alive',
          always |-> span[t].always \cap alive',
          lo |-> [b \in Backends |-> Least(span[t].lo[b], conns'[b])],
          hi |-> [b \in Backends |-> Most(span[t].hi[b], conns'[b])]]]

----------------------------------------------------------------------------
(* HealthyBackends                                                         *)

Begin(t) ==
  /\ call[t].pc = "idle"
  /\ call' = [call EXCEPT ![t] = Blank("scan")]
  /\ UNCHANGED <<strategy, alive, counter, conns, returned, stable, raced>>
  /\ Watch

\* Mutant of IfAlive: the flag is not looked at.
IfAliveOrNot(b) == {b}

IfAlive(b) == {b} \cap alive

\* One iteration of the loop over p.backends.
Scan(t) ==
  /\ call[t].pc = "scan"
  /\ call[t].next \in Backends
  /\ call' = [call EXCEPT ![t].next = @ + 1,
                          ![t].list = @ \cup IfAlive(call[t].next)]
  /\ UNCHANGED <<strategy, alive, counter, conns, returned, stable, raced>>
  /\ Watch

Scanned(t, s) ==
  /\ strategy = s
  /\ call[t].pc = "scan" /\ call[t].next \notin Backends
  /\ call[t].list # {}

Chosen(t, b) == call' = [call EXCEPT ![t] = [Blank("chosen") EXCEPT !.be = b]]

\* The result of a round robin, whose shares are counted up to a bound.
Returned(t, b) ==
  /\ Chosen(t, b)
  /\ returned' = [returned EXCEPT ![b] = @ + 1]

Bounded == \A b \in Backends : returned[b] < MaxShare

\* nil, if the list is empty, whichever the strategy.
ReturnNil(t) ==
  /\ call[t].pc = "scan" /\ call[t].next \notin Backends
  /\ call[t].list = {}
  /\ Chosen(t, None)
  /\ UNCHANGED <<strategy, alive, counter, conns, returned, stable, raced>>
  /\ Watch

----------------------------------------------------------------------------
(* RoundRobin.Select                                                       *)

\* nodes[k], counting from 0.
Nth(list, k) == CHOOSE b \in list : Cardinality({c \in list : c < b}) = k

\* Mutant of InTurn: the index stays at the last node.
InTurnOnce(list, n) ==
  Nth(list, IF n < Cardinality(list) THEN n ELSE Cardinality(list) - 1)

InTurn(list, n) == Nth(list, n % Cardinality(list))

\* rr.next.Add(1) returns a value that no other call gets.
Add(t) ==
  /\ Scanned(t, "round_robin")
  /\ Bounded
  /\ counter' = counter + 1
  /\ Returned(t, InTurn(call[t].list, counter))
  /\ UNCHANGED <<strategy, alive, conns, stable, raced>>
  /\ Watch

----------------------------------------------------------------------------
(* WeightedRoundRobin.Select                                               *)

\* The sum of the weights, counted as a set in which every backend has as
\* many slots as its weight.
Slots(list) == UNION {{b} \X (1 .. Weight[b]) : b \in list}

TotalWeight(list) == Cardinality(Slots(list))

RunningWeight(list, b) == TotalWeight({c \in list : c <= b})

\* Mutant of ByWeight: the comparison is not strict.
ByWeightOff(list, n) ==
  Min({b \in list : n % TotalWeight(list) <= RunningWeight(list, b)})

ByWeight(list, n) ==
  Min({b \in list : n % TotalWeight(list) < RunningWeight(list, b)})

Load(t) ==
  /\ Scanned(t, "weighted_round_robin")
  /\ Bounded
  /\ call' = [call EXCEPT ![t].pc = "store", ![t].ticket = counter]
  /\ raced' = (raced \/ \E u \in Threads \ {t} : call[u].pc = "store")
  /\ UNCHANGED <<strategy, alive, counter, conns, returned, stable>>
  /\ Watch

NextWeight(t) == call[t].ticket + 1

\* The store undoes whatever other calls have stored since the load.
Store(t) ==
  /\ call[t].pc = "store"
  /\ counter' = NextWeight(t)
  /\ Returned(t, ByWeight(call[t].list, call[t].ticket))
  /\ UNCHANGED <<strategy, alive, conns, stable, raced>>
  /\ Watch

----------------------------------------------------------------------------
(* LeastConnections.Select                                                 *)

\* Mutant of Improves: the most loaded backend is the best one.
ImprovesMore(c, load) == c.be = None \/ load > c.min

\* min == -1 || load < min
Improves(c, load) == c.be = None \/ load < c.min

\* One iteration: the first node that was not looked at yet.
Compare(t) ==
  /\ Scanned(t, "least_conn")
  /\ LET c == call[t]
         b == Min(c.list)
     IN  call' = [call EXCEPT
           ![t].pc = IF c.list = {b} THEN "chosen" ELSE "scan",
           ![t].list = @ \ {b},
           ![t].be = IF Improves(c, conns[b]) THEN b ELSE @,
           ![t].min = IF Improves(c, conns[b]) THEN conns[b] ELSE @]
  /\ UNCHANGED <<strategy, alive, counter, conns, returned, stable, raced>>
  /\ Watch

----------------------------------------------------------------------------
(* The callers and the health checker                                      *)

\* IncrementConn, of the selected backend or of the one that the request
\* falls back to when the breaker refuses.
Connect(t, b) ==
  /\ call[t].pc = "chosen" /\ call[t].be # None
  /\ conns' = [conns EXCEPT ![b] = @ + 1]
  /\ call' = [call EXCEPT ![t] = [Blank("busy") EXCEPT !.be = b]]
  /\ UNCHANGED <<strategy, alive, counter, returned, stable, raced>>
  /\ Watch

Release(b) == conns' = [conns EXCEPT ![b] = @ - 1]

\* DecrementConn.
Disconnect(t) ==
  /\ call[t].pc = "busy"
  /\ Release(call[t].be)
  /\ call' = [call EXCEPT ![t] = Blank("idle")]
  /\ UNCHANGED <<strategy, alive, counter, returned, stable, raced>>
  /\ Watch

\* No backend, or no breaker that lets the request pass: status 503.
GiveUp(t) ==
  /\ call[t].pc = "chosen"
  /\ call' = [call EXCEPT ![t] = Blank("idle")]
  /\ UNCHANGED <<strategy, alive, counter, conns, returned, stable, raced>>
  /\ Watch

SetAlive(b, v) ==
  /\ v # (b \in alive)
  /\ alive' = IF v THEN alive \cup {b} ELSE alive \ {b}
  /\ stable' = FALSE
  /\ UNCHANGED <<strategy, counter, conns, call, returned, raced>>
  /\ Watch

Next ==
  \/ \E t \in Threads : Begin(t)
  \/ \E t \in Threads : Scan(t)
  \/ \E t \in Threads : ReturnNil(t)
  \/ \E t \in Threads : Add(t)
  \/ \E t \in Threads : Load(t)
  \/ \E t \in Threads : Store(t)
  \/ \E t \in Threads : Compare(t)
  \/ \E t \in Threads, b \in Backends : Connect(t, b)
  \/ \E t \in Threads : Disconnect(t)
  \/ \E t \in Threads : GiveUp(t)
  \/ \E b \in Backends, v \in BOOLEAN : SetAlive(b, v)

Spec == Init /\ [][Next]_vars

----------------------------------------------------------------------------
(* Correctness                                                             *)

(***************************************************************************)
(* The backend that a strategy returns was alive at some time during the   *)
(* call, and nil (which becomes status 503) means that none was alive all  *)
(* the time, although HealthyBackends (pool.go:45-57) reads the flags one  *)
(* by one and the choice is made later.                                    *)
(***************************************************************************)
ChoiceIsCurrent ==
  \A t \in Threads : call[t].pc = "chosen" =>
    IF call[t].be = None THEN span[t].always = {}
                         ELSE call[t].be \in span[t].ever

(***************************************************************************)
(* "Simple, predictable distribution; Atomic counter for thread safety"    *)
(* (ARCHITECTURE.md:36): while no flag changes, the shares of two backends *)
(* differ by one at most, however the calls overlap (round_robin.go:17).   *)
(***************************************************************************)
RoundRobinEven ==
  strategy = "round_robin" /\ stable =>
    \A a, b \in Backends : returned[a] <= returned[b] + 1

(***************************************************************************)
(* The shares of weighted round robin (weighted_round_robin.go:33-46)      *)
(* while no flag changes: every complete round of the counter has given    *)
(* each backend at least its weight, although overlapping calls repeat     *)
(* values of the counter and put it back.  "Higher weight = more requests" *)
(* (README.md:245 of the repository) needs the other bound as well, that   *)
(* no round gives it more than its weight, and that holds only as long as  *)
(* no two calls were between load and store together: from then on any     *)
(* backend, the lightest too, may get any number of calls in a round.      *)
(***************************************************************************)
WeightedShare ==
  strategy = "weighted_round_robin" /\ stable =>
    LET T == TotalWeight(Backends)
    IN  \A b \in Backends :
          /\ returned[b] >= Weight[b] * (counter \div T)
          /\ ~raced => returned[b] <= Weight[b] * ((counter + T - 1) \div T)

(***************************************************************************)
(* "Routes to least loaded backend" (ARCHITECTURE.md:43), as far as counts *)
(* read one by one can tell (least_connections.go:13): no other backend    *)
(* that stayed alive was less loaded at every moment of the call than the  *)
(* chosen one was at any.                                                  *)
(***************************************************************************)
LeastOfTheCall ==
  strategy = "least_conn" =>
    \A t \in Threads : call[t].pc = "chosen" /\ call[t].be # None =>
      \A b \in span[t].always : span[t].lo[call[t].be] <= span[t].hi[b]
=============================================================================
