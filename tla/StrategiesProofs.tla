-------------------------- MODULE StrategiesProofs --------------------------
(***************************************************************************)
(* What round robin, weighted round robin and least connections guarantee  *)
(* about the backends they return, for any number of backends and of       *)
(* overlapping calls, and any weights.                                     *)
(***************************************************************************)
EXTENDS Strategies, FiniteSetTheorems, TLAPS

----------------------------------------------------------------------------
(* Lists of backends                                                       *)

LEMMA BackendsFinite ==
  /\ IsFiniteSet(Backends) /\ Backends \subseteq Nat
  /\ \A list \in SUBSET Backends : IsFiniteSet(list)
<1>1. IsFiniteSet(Backends)
  BY StrategiesAssumption, FS_Interval DEF Backends
<1>2. \A list \in SUBSET Backends : IsFiniteSet(list)
  BY <1>1, FS_Subset
<1> QED  BY <1>1, <1>2, StrategiesAssumption DEF Backends

\* Sets of natural numbers have a least member.
LEMMA LeastMember ==
  ASSUME NEW S \in SUBSET Nat, S # {}
  PROVE  Min(S) \in S /\ \A n \in S : Min(S) <= n
<1> DEFINE R == {ss \in Nat \X Nat : ss[1] < ss[2]}
<1>1. IsWellFoundedOn(R, Nat)
  BY NatLessThanWellFounded DEF OpToRel
<1>2. PICK m \in S : \A n \in S : ~(<<n, m>> \in R)
  BY <1>1, WFMin
<1>3. ASSUME NEW n \in S PROVE m <= n
  <2>1. m \in Nat /\ n \in Nat /\ ~(<<n, m>> \in R)
    BY <1>2
  <2>2. <<n, m>> \in Nat \X Nat /\ <<n, m>>[1] = n /\ <<n, m>>[2] = m
    BY <2>1
  <2> QED  BY <2>1, <2>2
<1> QED  BY <1>3 DEF Min

\* The last node of a list.
LEMMA LastMember ==
  ASSUME NEW list \in SUBSET Backends, list # {}
  PROVE  \E m \in list : \A b \in list : b <= m
<1> DEFINE U == {n \in Nat : \A b \in list : b <= n}
<1>1. NumBackends \in U /\ list \subseteq Nat \ {0}
  BY StrategiesAssumption DEF Backends
<1>2. Min(U) \in U /\ \A n \in U : Min(U) <= n
  <2> HIDE DEF U
  <2>1. U \in SUBSET Nat
    BY DEF U
  <2> QED  BY <1>1, <2>1, LeastMember
<1> DEFINE m == Min(U)
<1>3. m \in Nat /\ \A b \in list : b <= m
  BY <1>2
<1> HIDE DEF m
<1>4. CASE m \in list
  BY <1>3, <1>4
<1>5. CASE m \notin list
  <2>1. PICK b \in list : TRUE
    OBVIOUS
  <2>2. m - 1 \in Nat /\ \A c \in list : c <= m - 1
    BY <1>1, <1>3, <1>5, <2>1
  <2>3. m <= m - 1
    BY <1>2, <2>2 DEF m
  <2> QED  BY <1>3, <2>3
<1> QED  BY <1>4, <1>5

\* Indexing a list within its length yields a node of the list.
LEMMA NthInList ==
  ASSUME NEW list \in SUBSET Backends, NEW k \in 0 .. Cardinality(list) - 1
  PROVE  Nth(list, k) \in list
<1> DEFINE Below(b) == {c \in list : c < b}
           K == 0 .. Cardinality(list) - 1
           f == [b \in list |-> Cardinality(Below(b))]
<1>1. IsFiniteSet(list) /\ Cardinality(list) \in Nat /\ list \subseteq Nat
  BY BackendsFinite, FS_CardinalityType
<1>2. \A b \in list : /\ IsFiniteSet(Below(b)) /\ Cardinality(Below(b)) \in Nat
                      /\ Cardinality(Below(b)) < Cardinality(list)
  <2> TAKE b \in list
  <2>1. Below(b) \in SUBSET list /\ b \notin Below(b) /\ Below(b) # list
    BY <1>1
  <2>2. /\ IsFiniteSet(Below(b)) /\ Cardinality(Below(b)) <= Cardinality(list)
        /\ Cardinality(list) = Cardinality(Below(b)) => list = Below(b)
    BY <1>1, <2>1, FS_Subset
  <2>3. Cardinality(Below(b)) \in Nat
    BY <2>2, FS_CardinalityType
  <2> QED  BY <1>1, <2>1, <2>2, <2>3
<1>3. ASSUME NEW a \in list, NEW b \in list, a < b
      PROVE  Cardinality(Below(a)) < Cardinality(Below(b))
  <2>0. \A c \in list : c < a => c < b
    BY <1>1, <1>3
  <2>1. Below(a) \in SUBSET Below(b) /\ a \in Below(b) /\ a \notin Below(a)
    <3>1. ~(a < a)
      BY <1>1
    <3> QED  BY <1>3, <2>0, <3>1, Zenon
  <2> HIDE DEF Below
  <2>2. /\ Cardinality(Below(a)) <= Cardinality(Below(b))
        /\ Cardinality(Below(b)) = Cardinality(Below(a)) => Below(b) = Below(a)
    BY <1>2, <2>1, FS_Subset
  <2> QED  BY <1>2, <2>1, <2>2
<1>4. f \in Injection(list, K)
  <2>1. f \in [list -> K]
    <3> HIDE DEF Below
    <3> QED  BY <1>1, <1>2
  <2>2. ASSUME NEW a \in list, NEW b \in list, f[a] = f[b] PROVE a = b
    <3>1. a \in Nat /\ b \in Nat /\ Cardinality(Below(a)) = Cardinality(Below(b))
      BY <1>1, <2>2
    <3> HIDE DEF Below
    <3>2. ~(a < b) /\ ~(b < a)
      BY <1>2, <1>3, <3>1
    <3> QED  BY <3>1, <3>2
  <2> QED  BY <2>1, <2>2 DEF Injection, IsInjective
<1>5. IsFiniteSet(K) /\ Cardinality(K) = Cardinality(list)
  BY <1>1, FS_Interval
<1>6. f \in Surjection(list, K)
  <2> HIDE DEF f, K
  <2> QED  BY <1>4, <1>5, FS_Injection
<1>7. \E b \in list : f[b] = k
  BY <1>6 DEF Surjection
<1>8. \E b \in list : Cardinality({c \in list : c < b}) = k
  BY <1>7
<1> QED  BY <1>8 DEF Nth

\* A remainder, and where it comes from.
LEMMA Remainder ==
  ASSUME NEW q \in Nat, NEW d \in Nat \ {0}, NEW x \in 0 .. d - 1
  PROVE  (q * d + x) % d = x /\ (q * d + x) \div d = q
OBVIOUS

\* The index of round robin is within the list.
LEMMA InTurnInList ==
  ASSUME NEW list \in SUBSET Backends, list # {}, NEW n \in Nat
  PROVE  InTurn(list, n) \in list
<1>1. Cardinality(list) \in Nat \ {0}
  BY BackendsFinite, FS_CardinalityType, FS_EmptySet
<1>2. n % Cardinality(list) \in 0 .. Cardinality(list) - 1
  BY <1>1
<1> QED  BY <1>2, NthInList DEF InTurn

\* With every backend in the list, node k has index k + 1.
LEMMA NthOfAll ==
  ASSUME NEW k \in 0 .. NumBackends - 1
  PROVE  Nth(Backends, k) = k + 1
<1>1. ASSUME NEW b \in Backends
      PROVE  Cardinality({c \in Backends : c < b}) = b - 1
  <2>1. b \in Nat \ {0} /\ {c \in Backends : c < b} = 1 .. b - 1
    BY StrategiesAssumption DEF Backends
  <2>2. Cardinality(1 .. b - 1) = b - 1
    BY <2>1, FS_Interval
  <2> QED  BY <2>1, <2>2
<1> DEFINE Rank(b) == Cardinality({c \in Backends : c < b})
<1>2. \A b \in Backends : Rank(b) = b - 1
  BY <1>1
<1>3. Nth(Backends, k) = CHOOSE b \in Backends : Rank(b) = k
  BY DEF Nth
<1> HIDE DEF Rank
<1>4. k + 1 \in Backends /\ Backends \subseteq Nat /\ (k + 1) - 1 = k
  BY StrategiesAssumption DEF Backends
<1>5. \A b \in Backends : Rank(b) = k <=> b = k + 1
  BY <1>2, <1>4
<1> QED  BY <1>3, <1>4, <1>5

----------------------------------------------------------------------------
(* Weights                                                                 *)

LEMMA SlotsFacts ==
  ASSUME NEW list \in SUBSET Backends
  PROVE  /\ IsFiniteSet(Slots(list)) /\ TotalWeight(list) \in Nat
         /\ \A sub \in SUBSET list : TotalWeight(sub) <= TotalWeight(list)
<1> DEFINE Of(b) == {b} \X (1 .. Weight[b])
           f == [b \in list |-> Of(b)]
           F == {Of(b) : b \in list}
<1>1. \A b \in list : IsFiniteSet(Of(b))
  <2> TAKE b \in list
  <2>1. Weight[b] \in Int
    BY StrategiesAssumption
  <2>2. IsFiniteSet(1 .. Weight[b])
    BY <2>1, FS_Interval
  <2> QED  BY <2>2, FS_Singleton, FS_Product
<1>2. f \in Surjection(list, F)
  <2> HIDE DEF Of
  <2> QED  BY DEF Surjection
<1>3. IsFiniteSet(F)
  <2> HIDE DEF f, F
  <2> QED  BY <1>2, BackendsFinite, FS_Surjection
<1>4. IsFiniteSet(UNION F)
  <2>1. \A S \in F : IsFiniteSet(S)
    BY <1>1
  <2> HIDE DEF F
  <2> QED  BY <1>3, <2>1, FS_UNION
<1>5. IsFiniteSet(Slots(list))
  BY <1>4 DEF Slots
<1>6. ASSUME NEW sub \in SUBSET list PROVE TotalWeight(sub) <= TotalWeight(list)
  <2>1. Slots(sub) \in SUBSET Slots(list)
    BY DEF Slots
  <2> QED  BY <1>5, <2>1, FS_Subset DEF TotalWeight
<1> QED  BY <1>5, <1>6, FS_CardinalityType DEF TotalWeight

\* A backend adds its weight to the total.
LEMMA WeightAdds ==
  ASSUME NEW list \in SUBSET Backends, NEW b \in Backends \ list
  PROVE  TotalWeight(list \cup {b}) = TotalWeight(list) + Weight[b]
<1> DEFINE Of == {b} \X (1 .. Weight[b])
<1>1. Weight[b] \in Nat \ {0}
  BY StrategiesAssumption
<1>2. IsFiniteSet(Of) /\ Cardinality(Of) = Weight[b]
  <2>1. IsFiniteSet({b}) /\ Cardinality({b}) = 1
    BY FS_Singleton
  <2>2. IsFiniteSet(1 .. Weight[b]) /\ Cardinality(1 .. Weight[b]) = Weight[b]
    <3>1. Weight[b] \in Int /\ ~(1 > Weight[b]) /\ Weight[b] - 1 + 1 = Weight[b]
      BY <1>1
    <3> QED  BY <3>1, FS_Interval
  <2>3. IsFiniteSet(Of) /\ Cardinality(Of) = 1 * Weight[b]
    BY <2>1, <2>2, FS_Product
  <2> QED  BY <1>1, <2>3
<1>3. Slots(list \cup {b}) = Slots(list) \cup Of
  BY DEF Slots
<1>4. Slots(list) \cap Of = {}
  BY DEF Slots
<1>5. IsFiniteSet(Slots(list)) /\ Cardinality(Slots(list)) \in Nat
  BY SlotsFacts DEF TotalWeight
<1> HIDE DEF Of
<1>6. Cardinality(Slots(list) \cup Of)
        = Cardinality(Slots(list)) + Cardinality(Of) - Cardinality({})
  BY <1>2, <1>4, <1>5, FS_Union
<1>7. TotalWeight(list \cup {b}) = TotalWeight(list) + Weight[b] - 0
  BY <1>2, <1>3, <1>6, FS_EmptySet DEF TotalWeight
<1> QED  BY <1>1, <1>5, <1>7 DEF TotalWeight

LEMMA TotalPositive ==
  ASSUME NEW list \in SUBSET Backends, list # {}
  PROVE  TotalWeight(list) \in Nat \ {0}
<1>1. PICK b \in list : TRUE
  OBVIOUS
<1>2. list \ {b} \in SUBSET Backends /\ list = (list \ {b}) \cup {b}
  OBVIOUS
<1>3. TotalWeight(list) = TotalWeight(list \ {b}) + Weight[b]
  BY <1>2, WeightAdds
<1> QED  BY <1>2, <1>3, SlotsFacts, StrategiesAssumption

LEMMA RunningType ==
  ASSUME NEW list \in SUBSET Backends, NEW b \in Backends
  PROVE  RunningWeight(list, b) \in Nat
<1>1. {c \in list : c <= b} \in SUBSET Backends
  OBVIOUS
<1> QED  BY <1>1, SlotsFacts DEF RunningWeight

\* The loop of weighted round robin returns from its body: the running weight
\* of the last node is the total.
LEMMA ByWeightInList ==
  ASSUME NEW list \in SUBSET Backends, list # {}, NEW n \in Nat
  PROVE  ByWeight(list, n) \in list
<1> DEFINE S == {b \in list : n % TotalWeight(list) < RunningWeight(list, b)}
<1>1. PICK m \in list : \A b \in list : b <= m
  BY LastMember
<1>2. RunningWeight(list, m) = TotalWeight(list)
  <2>1. {c \in list : c <= m} = list
    BY <1>1
  <2> QED  BY <2>1 DEF RunningWeight
<1>3. n % TotalWeight(list) < TotalWeight(list)
  BY TotalPositive
<1>4. m \in S /\ S \in SUBSET Nat
  BY <1>2, <1>3, BackendsFinite
<1>5. Min(S) \in S
  <2> HIDE DEF S
  <2> QED  BY <1>4, LeastMember
<1> QED  BY <1>5 DEF ByWeight

\* The weights of the backends before b, and with b.
Before(b) == TotalWeight(1 .. b - 1)
Upto(b) == TotalWeight(1 .. b)

LEMMA Bands ==
  /\ \A b \in Backends :
       /\ Before(b) \in Nat /\ Upto(b) = Before(b) + Weight[b]
       /\ Upto(b) <= TotalWeight(Backends)
       /\ RunningWeight(Backends, b) = Upto(b)
  /\ \A a, b \in Backends : a < b => Upto(a) <= Before(b)
<1>1. ASSUME NEW b \in Backends
      PROVE  /\ Before(b) \in Nat /\ Upto(b) = Before(b) + Weight[b]
             /\ Upto(b) <= TotalWeight(Backends)
             /\ RunningWeight(Backends, b) = Upto(b)
  <2>1. /\ 1 .. b - 1 \in SUBSET Backends /\ b \in Backends \ (1 .. b - 1)
        /\ 1 .. b = (1 .. b - 1) \cup {b} /\ 1 .. b \in SUBSET Backends
        /\ {c \in Backends : c <= b} = 1 .. b
    BY StrategiesAssumption DEF Backends
  <2>2. Before(b) \in Nat /\ Upto(b) <= TotalWeight(Backends)
    BY <2>1, SlotsFacts DEF Before, Upto
  <2>3. Upto(b) = Before(b) + Weight[b]
    BY <2>1, WeightAdds DEF Before, Upto
  <2>4. RunningWeight(Backends, b) = Upto(b)
    BY <2>1 DEF RunningWeight, Upto
  <2> QED  BY <2>2, <2>3, <2>4
<1>2. ASSUME NEW a \in Backends, NEW b \in Backends, a < b
      PROVE  Upto(a) <= Before(b)
  <2>1. 1 .. b - 1 \in SUBSET Backends /\ 1 .. a \in SUBSET (1 .. b - 1)
    BY <1>2, StrategiesAssumption DEF Backends
  <2> QED  BY <2>1, SlotsFacts DEF Before, Upto
<1> QED  BY <1>1, <1>2

\* With every backend in the list, a target weight falls into the band of the
\* backend that is returned.
LEMMA ByWeightOfAll ==
  ASSUME Backends # {}, NEW q \in Nat, NEW x \in 0 .. TotalWeight(Backends) - 1
  PROVE  LET b == ByWeight(Backends, q * TotalWeight(Backends) + x)
         IN  b \in Backends /\ Before(b) <= x /\ x < Upto(b)
<1> DEFINE T == TotalWeight(Backends)
           S == {b \in Backends : x < RunningWeight(Backends, b)}
           m == ByWeight(Backends, q * T + x)
<1>1. T \in Nat \ {0} /\ q * T + x \in Nat
  BY TotalPositive
<1>2. (q * T + x) % T = x
  <2> HIDE DEF T
  <2> QED  BY <1>1, Remainder DEF T
<1>3. m = Min(S)
  BY <1>2 DEF ByWeight
<1>4. m \in Backends
  BY <1>1, ByWeightInList
<1>5. S \in SUBSET Nat
  BY BackendsFinite
<1>6. S # {}
  <2>1. PICK l \in Backends : \A b \in Backends : b <= l
    BY LastMember
  <2>2. {c \in Backends : c <= l} = Backends
    BY <2>1
  <2>3. RunningWeight(Backends, l) = T
    BY <2>2 DEF RunningWeight
  <2> QED  BY <1>1, <2>3
<1>7. m \in S /\ \A b \in S : m <= b
  <2> HIDE DEF S, m
  <2> QED  BY <1>3, <1>5, <1>6, LeastMember
<1>8. x < Upto(m)
  BY <1>4, <1>7, Bands
<1>9. Before(m) <= x
  <2>1. m \in Nat /\ m >= 1 /\ m <= NumBackends
    BY <1>4, StrategiesAssumption DEF Backends
  <2>2. CASE m = 1
    <3>1. 1 .. m - 1 = {} /\ Slots({}) = {}
      BY <2>2 DEF Slots
    <3> HIDE DEF m
    <3>2. Before(m) = 0
      BY <3>1, FS_EmptySet DEF Before, TotalWeight
    <3> QED  BY <3>2
  <2>3. CASE m # 1
    <3>1. m - 1 \in Backends /\ m - 1 \notin S
      BY <1>7, <2>1, <2>3, StrategiesAssumption DEF Backends
    <3>2. ~(x < Upto(m - 1)) /\ Upto(m - 1) \in Nat
      BY <3>1, Bands, StrategiesAssumption
    <3>3. Before(m) = Upto(m - 1)
      BY DEF Before, Upto
    <3> QED  BY <3>2, <3>3
  <2> QED  BY <2>2, <2>3
<1> QED  BY <1>4, <1>8, <1>9

----------------------------------------------------------------------------
(* The inductive invariant                                                 *)

Calls == [pc : {"idle", "scan", "store", "chosen", "busy"},
          next : 1 .. NumBackends + 1, list : SUBSET Backends,
          ticket : Nat, be : Backends \cup {None}, min : Int]

Spans == [ever : SUBSET Backends, always : SUBSET Backends,
          lo : [Backends -> Int], hi : [Backends -> Int]]

TypeInv ==
  /\ strategy \in {"round_robin", "weighted_round_robin", "least_conn"}
  /\ alive \in SUBSET Backends
  /\ counter \in Nat
  /\ conns \in [Backends -> Int]
  /\ call \in [Threads -> Calls]
  /\ returned \in [Backends -> Nat]
  /\ stable \in BOOLEAN
  /\ span \in [Threads -> Spans]

\* What is so now has been so since the call began, if it always was.
Covers(s) ==
  /\ s.always \subseteq alive /\ alive \subseteq s.ever
  /\ \A b \in Backends : s.lo[b] <= conns[b] /\ conns[b] <= s.hi[b]

(***************************************************************************)
(* What a call c knows of its span s.  A backend that stayed alive and     *)
(* that HealthyBackends has passed is in the list, or least connections    *)
(* has compared it: then the best count so far is not above any that this  *)
(* backend had all along.                                                  *)
(***************************************************************************)
Scanning(c, s) ==
  /\ c.list \subseteq s.ever /\ c.be \in s.ever \cup {None}
  /\ c.be # None => /\ strategy = "least_conn" /\ c.list # {}
                    /\ s.lo[c.be] <= c.min
  /\ \A b \in s.always : b < c.next =>
       b \in c.list \/ (c.be # None /\ c.min <= s.hi[b])

Storing(c, s) ==
  /\ strategy = "weighted_round_robin"
  /\ c.list # {} /\ c.list \subseteq s.ever

Current(c, s) ==
  /\ IF c.be = None THEN s.always = {} ELSE c.be \in s.ever
  /\ strategy = "least_conn" /\ c.be # None =>
       \A b \in s.always : s.lo[c.be] <= s.hi[b]

Good(c, s) ==
  /\ c.pc = "scan" => Scanning(c, s)
  /\ c.pc = "store" => Storing(c, s)
  /\ c.pc = "chosen" => Current(c, s)

CallInv == \A t \in Threads : Covers(span[t]) /\ Good(call[t], span[t])

\* While no flag was changed, the lists have no gaps.
NoGap(c) ==
  /\ c.pc = "scan" => c.list = {b \in Backends : b < c.next}
  /\ c.pc = "store" => c.list = Backends

StableInv ==
  stable => /\ alive = Backends
            /\ strategy # "least_conn" => \A t \in Threads : NoGap(call[t])

\* q rounds of round robin are complete, and r turns of the next one taken.
Turns(q, r) ==
  /\ counter = q * NumBackends + r
  /\ \A b \in Backends : returned[b] = q + (IF b <= r THEN 1 ELSE 0)

TurnInv ==
  strategy = "round_robin" /\ stable /\ Backends # {} =>
    \E q \in Nat, r \in 0 .. NumBackends - 1 : Turns(q, r)

\* The slots of b among the first x slots of a round.
Taken(b, x) ==
  IF x <= Before(b) THEN 0 ELSE IF x >= Upto(b) THEN Weight[b] ELSE x - Before(b)

(***************************************************************************)
(* q rounds of weighted round robin are complete, and x slots of the next  *)
(* one taken.  The counter and the values that calls have loaded may be    *)
(* behind, because a store puts the counter back, but never ahead.         *)
(***************************************************************************)
Rounds(q, x) ==
  /\ counter <= q * TotalWeight(Backends) + x
  /\ \A t \in Threads : call[t].pc = "store" =>
       call[t].ticket <= q * TotalWeight(Backends) + x
  /\ \A b \in Backends : returned[b] >= q * Weight[b] + Taken(b, x)

\* And nothing is repeated as long as no two calls were storing together.
Exact(q, x) ==
  ~raced =>
    /\ counter = q * TotalWeight(Backends) + x
    /\ \A t \in Threads : call[t].pc = "store" => call[t].ticket = counter
    /\ \A t, u \in Threads : call[t].pc = "store" /\ call[u].pc = "store" => t = u
    /\ \A b \in Backends : returned[b] = q * Weight[b] + Taken(b, x)

RoundInv ==
  strategy = "weighted_round_robin" /\ stable /\ Backends # {} =>
    \E q \in Nat, x \in 0 .. TotalWeight(Backends) - 1 :
      Rounds(q, x) /\ Exact(q, x)

(***************************************************************************)
(* None of the four properties is inductive.  TypeInv, CallInv follow a    *)
(* call from its first flag to its result; StableInv, TurnInv and RoundInv *)
(* tie the shares to the counter.                                          *)
(***************************************************************************)
IInv == TypeInv /\ CallInv /\ StableInv /\ TurnInv /\ RoundInv

----------------------------------------------------------------------------
(* Calls and their spans                                                   *)

\* A span that has taken in more.
Wider(s, w) ==
  /\ s.ever \subseteq w.ever /\ w.always \subseteq s.always
  /\ \A b \in Backends : w.lo[b] <= s.lo[b] /\ s.hi[b] <= w.hi[b]

LEMMA GoodWidens ==
  ASSUME NEW c \in Calls, NEW s \in Spans, NEW w \in Spans,
         Good(c, s), Wider(s, w)
  PROVE  Good(c, w)
<1> USE DEF Calls, Spans, Wider
<1>1. None \notin Backends
  BY StrategiesAssumption DEF None, Backends
<1>2. ASSUME Scanning(c, s) PROVE Scanning(c, w)
  <2>1. c.be # None => w.lo[c.be] <= c.min
    BY <1>1, <1>2 DEF Scanning
  <2>2. ASSUME NEW b \in w.always, b < c.next
        PROVE  b \in c.list \/ (c.be # None /\ c.min <= w.hi[b])
    BY <1>2, <2>2 DEF Scanning
  <2> QED  BY <1>2, <2>1, <2>2 DEF Scanning
<1>3. Storing(c, s) => Storing(c, w)
  BY DEF Storing
<1>4. ASSUME Current(c, s) PROVE Current(c, w)
  <2>1. ASSUME strategy = "least_conn", c.be # None, NEW b \in w.always
        PROVE  w.lo[c.be] <= w.hi[b]
    BY <1>4, <2>1 DEF Current
  <2> QED  BY <1>4, <2>1 DEF Current
<1> QED  BY <1>2, <1>3, <1>4 DEF Good

\* Every step extends the spans of the calls under way.
LEMMA WatchWidens ==
  ASSUME TypeInv, CallInv, Watch,
         alive' \in SUBSET Backends, conns' \in [Backends -> Int]
  PROVE  /\ span' \in [Threads -> Spans]
         /\ \A t \in Threads :
              /\ Covers(span[t])'
              /\ IF call'[t].pc \in {"idle", "busy"} \/ call[t].pc = "idle"
                 THEN span'[t] = Span'
                 ELSE Wider(span[t], span'[t])
<1>1. Span' \in Spans /\ Covers(Span)'
  BY DEF Span, Spans, Covers
<1> DEFINE W(t) == [ever   |-> span[t].ever \cup alive',
                    always |-> span[t].always \cap alive',
                    lo |-> [b \in Backends |-> Least(span[t].lo[b], conns'[b])],
                    hi |-> [b \in Backends |-> Most(span[t].hi[b], conns'[b])]]
<1>2. ASSUME NEW t \in Threads
      PROVE  /\ W(t) \in Spans /\ Wider(span[t], W(t))
             /\ W(t).always \subseteq alive' /\ alive' \subseteq W(t).ever
             /\ \A b \in Backends : W(t).lo[b] <= conns'[b] /\ conns'[b] <= W(t).hi[b]
  <2>1. span[t] \in Spans
    BY DEF TypeInv
  <2>2. ASSUME NEW b \in Backends
        PROVE  LET l == Least(span[t].lo[b], conns'[b])
                   h == Most(span[t].hi[b], conns'[b])
               IN  /\ l \in Int /\ l <= span[t].lo[b] /\ l <= conns'[b]
                   /\ h \in Int /\ span[t].hi[b] <= h /\ conns'[b] <= h
    BY <2>1 DEF Spans, Least, Most
  <2>3. W(t) \in Spans
    BY <2>1, <2>2 DEF Spans
  <2>4. Wider(span[t], W(t))
    BY <2>1, <2>2 DEF Spans, Wider
  <2> QED  BY <2>2, <2>3, <2>4
<1>3. span' = [t \in Threads |->
         IF call'[t].pc \in {"idle", "busy"} \/ call[t].pc = "idle"
         THEN Span' ELSE W(t)]
  BY DEF Watch
<1> HIDE DEF W
<1>4. span' \in [Threads -> Spans]
  BY <1>1, <1>2, <1>3
<1>5. ASSUME NEW t \in Threads
      PROVE  /\ Covers(span[t])'
             /\ IF call'[t].pc \in {"idle", "busy"} \/ call[t].pc = "idle"
                THEN span'[t] = Span'
                ELSE Wider(span[t], span'[t])
  <2>1. CASE call'[t].pc \in {"idle", "busy"} \/ call[t].pc = "idle"
    <3>1. span'[t] = Span'
      BY <1>3, <2>1
    <3> QED  BY <1>1, <2>1, <3>1 DEF Covers
  <2>2. CASE ~(call'[t].pc \in {"idle", "busy"} \/ call[t].pc = "idle")
    <3>1. span'[t] = W(t)
      BY <1>3, <2>2
    <3> QED  BY <1>2, <2>2, <3>1 DEF Covers
  <2> QED  BY <2>1, <2>2
<1> QED  BY <1>4, <1>5

\* The calls stay good if those that go on do so within their spans.
LEMMA CallsStep ==
  ASSUME TypeInv, CallInv, Watch, strategy' = strategy,
         alive' \in SUBSET Backends, conns' \in [Backends -> Int],
         call' \in [Threads -> Calls],
         \A t \in Threads :
           \/ call'[t].pc \in {"idle", "busy"}
           \/ call[t].pc # "idle" /\ Good(call'[t], span[t])
  PROVE  CallInv' /\ span' \in [Threads -> Spans]
<1>1. span \in [Threads -> Spans] /\ span' \in [Threads -> Spans]
  BY WatchWidens DEF TypeInv
<1>2. ASSUME NEW t \in Threads PROVE Covers(span[t])' /\ Good(call[t], span[t])'
  <2>1. Covers(span[t])'
    BY WatchWidens
  <2>2. CASE call'[t].pc \in {"idle", "busy"}
    BY <2>1, <2>2 DEF Good
  <2>3. CASE call'[t].pc \notin {"idle", "busy"}
    <3>1. call[t].pc # "idle" /\ Good(call'[t], span[t])
      BY <2>3
    <3>2. Wider(span[t], span'[t])
      BY <2>3, <3>1, WatchWidens
    <3>3. Good(call'[t], span'[t])
      BY <1>1, <3>1, <3>2, GoodWidens
    <3> QED
      BY <2>1, <3>3 DEF Good, Scanning, Storing, Current
  <2> QED  BY <2>2, <2>3
<1> QED  BY <1>1, <1>2 DEF CallInv

\* A step of one call: the others stay as they are.
LEMMA CallStep ==
  ASSUME TypeInv, CallInv, Watch, strategy' = strategy,
         alive' \in SUBSET Backends, conns' \in [Backends -> Int],
         NEW t \in Threads, NEW c \in Calls, call' = [call EXCEPT ![t] = c],
         \/ c.pc \in {"idle", "busy"}
         \/ call[t].pc # "idle" /\ Good(c, span[t])
  PROVE  CallInv' /\ call' \in [Threads -> Calls] /\ span' \in [Threads -> Spans]
<1>1. call \in [Threads -> Calls]
  BY DEF TypeInv
<1>2. call' \in [Threads -> Calls]
  BY <1>1
<1>3. ASSUME NEW u \in Threads
      PROVE  \/ call'[u].pc \in {"idle", "busy"}
             \/ call[u].pc # "idle" /\ Good(call'[u], span[u])
  <2>1. CASE u = t
    BY <1>1, <2>1
  <2>2. CASE u # t
    <3>1. call'[u] = call[u] /\ Good(call[u], span[u])
      BY <1>1, <2>2 DEF CallInv
    <3> QED  BY <3>1
  <2> QED  BY <2>1, <2>2
<1> QED  BY <1>2, <1>3, CallsStep

LEMMA BlankCall ==
  ASSUME NEW place \in {"idle", "scan", "store", "chosen", "busy"},
         NEW b \in Backends \cup {None}
  PROVE  /\ Blank(place) \in Calls /\ Blank(place).pc = place
         /\ [Blank(place) EXCEPT !.be = b] \in Calls
         /\ [Blank(place) EXCEPT !.be = b].pc = place
         /\ [Blank(place) EXCEPT !.be = b].be = b
BY StrategiesAssumption DEF Blank, Calls, None

\* Reading the flag of the next backend.
LEMMA ScanGood ==
  ASSUME NEW c \in Calls, NEW s \in Spans, Good(c, s), Covers(s),
         c.pc = "scan", c.next \in Backends
  PROVE  LET d == [c EXCEPT !.next = @ + 1, !.list = @ \cup IfAlive(c.next)]
         IN  /\ d \in Calls /\ Good(d, s) /\ d.pc = "scan"
             /\ d.next = c.next + 1 /\ d.list = c.list \cup IfAlive(c.next)
<1> DEFINE d == [c EXCEPT !.next = @ + 1, !.list = @ \cup IfAlive(c.next)]
<1>1. /\ d.next = c.next + 1 /\ d.list = c.list \cup IfAlive(c.next)
      /\ d.pc = c.pc /\ d.be = c.be /\ d.min = c.min
  BY DEF Calls
<1>2. c.next + 1 \in 1 .. NumBackends + 1
  BY StrategiesAssumption DEF Backends
<1>3. d \in Calls
  <2>1. c.list \cup IfAlive(c.next) \in SUBSET Backends
    BY DEF Calls, IfAlive
  <2> QED  BY <1>2, <2>1 DEF Calls
<1> HIDE DEF d
<1>4. Scanning(c, s)
  BY DEF Good
<1>5. d.list \subseteq s.ever
  BY <1>1, <1>4 DEF Scanning, IfAlive, Covers
<1>6. ASSUME NEW b \in s.always, b < d.next
      PROVE  b \in d.list \/ (d.be # None /\ d.min <= s.hi[b])
  <2>1. b \in Nat /\ c.next \in Nat
    BY BackendsFinite DEF Spans, Calls
  <2>2. CASE b < c.next
    BY <1>1, <1>4, <2>2 DEF Scanning
  <2>3. CASE b = c.next
    BY <1>1, <2>3 DEF IfAlive, Covers
  <2> QED  BY <1>1, <1>6, <2>1, <2>2, <2>3
<1>7. Scanning(d, s)
  BY <1>1, <1>4, <1>5, <1>6 DEF Scanning
<1> QED  BY <1>1, <1>3, <1>7 DEF Good, d

\* Comparing the count of one more node.
LEMMA CompareGood ==
  ASSUME NEW c \in Calls, NEW s \in Spans, Good(c, s), Covers(s), TypeInv,
         c.pc = "scan", c.next \notin Backends, c.list # {},
         strategy = "least_conn", NEW b \in c.list, NEW d \in Calls,
         d.pc = IF c.list = {b} THEN "chosen" ELSE "scan",
         d.next = c.next, d.list = c.list \ {b},
         d.be = IF Improves(c, conns[b]) THEN b ELSE c.be,
         d.min = IF Improves(c, conns[b]) THEN conns[b] ELSE c.min
  PROVE  Good(d, s)
<1>1. Scanning(c, s)
  BY DEF Good
<1>2. /\ b \in Backends /\ b # None /\ conns[b] \in Int
      /\ c.min \in Int /\ s.lo[b] \in Int /\ s.hi[b] \in Int
  <2>1. b \in Backends
    BY DEF Calls
  <2>2. b # None
    BY <2>1, StrategiesAssumption DEF Backends, None
  <2> QED  BY <2>1, <2>2 DEF TypeInv, Calls, Spans
<1>3. d.be # None /\ d.be \in s.ever /\ d.be \in Backends
  BY <1>1, <1>2 DEF Scanning, Improves, Spans
<1>4. s.lo[d.be] <= d.min
  <2>1. CASE Improves(c, conns[b])
    BY <1>2, <2>1 DEF Covers
  <2>2. CASE ~Improves(c, conns[b])
    BY <1>1, <2>2 DEF Scanning, Improves
  <2> QED  BY <2>1, <2>2
<1>5. ASSUME NEW a \in s.always, a \notin d.list PROVE d.min <= s.hi[a]
  <2>0. a \in Backends /\ s.hi[a] \in Int /\ a < c.next
    <3>1. a \in Backends /\ s.hi[a] \in Int /\ c.next \in 1 .. NumBackends + 1
      BY DEF Spans, Calls
    <3> QED  BY <3>1, StrategiesAssumption DEF Backends
  <2>1. CASE a = b
    BY <1>2, <2>1 DEF Covers, Improves
  <2>2. CASE a # b
    <3>1. c.be # None /\ c.min <= s.hi[a]
      BY <1>1, <1>5, <2>0, <2>2 DEF Scanning
    <3> QED  BY <1>2, <2>0, <3>1 DEF Improves
  <2> QED  BY <2>1, <2>2
<1>6. CASE c.list = {b}
  <2>1. ASSUME NEW a \in s.always PROVE s.lo[d.be] <= s.hi[a]
    <3>1. d.min <= s.hi[a]
      BY <1>5, <1>6
    <3>2. s.lo[d.be] \in Int /\ s.hi[a] \in Int /\ d.min \in Int
      BY <1>3 DEF Spans, Calls
    <3> QED  BY <1>4, <3>1, <3>2
  <2> QED  BY <1>3, <1>6, <2>1 DEF Good, Current
<1>7. CASE c.list # {b}
  <2>1. d.list # {} /\ d.list \subseteq s.ever
    BY <1>1, <1>7 DEF Scanning
  <2> QED  BY <1>3, <1>4, <1>5, <1>7, <2>1 DEF Good, Scanning
<1> QED  BY <1>6, <1>7

----------------------------------------------------------------------------
(* The steps that leave the shares alone                                   *)

LEMMA SharesAside ==
  ASSUME TurnInv, RoundInv, UNCHANGED <<strategy, counter, returned, raced>>,
         stable' => stable,
         \A u \in Threads : call'[u].pc = "store" =>
           call[u].pc = "store" /\ call'[u].ticket = call[u].ticket
  PROVE  TurnInv' /\ RoundInv'
<1>1. TurnInv'
  BY DEF TurnInv, Turns
<1>2. RoundInv'
  <2> SUFFICES ASSUME strategy = "weighted_round_robin", stable, Backends # {}
               PROVE  \E q \in Nat, x \in 0 .. TotalWeight(Backends) - 1 :
                        Rounds(q, x)' /\ Exact(q, x)'
    BY DEF RoundInv
  <2>1. PICK q \in Nat, x \in 0 .. TotalWeight(Backends) - 1 :
          Rounds(q, x) /\ Exact(q, x)
    BY DEF RoundInv
  <2>2. Rounds(q, x)' /\ Exact(q, x)'
    BY <2>1 DEF Rounds, Exact
  <2> QED  BY <2>2
<1> QED  BY <1>1, <1>2

LEMMA GapsStep ==
  ASSUME TypeInv, StableInv, UNCHANGED <<strategy, alive, stable>>,
         NEW t \in Threads, NEW c, call' = [call EXCEPT ![t] = c],
         stable /\ strategy # "least_conn" => NoGap(c)
  PROVE  StableInv'
BY DEF TypeInv, StableInv, NoGap

LEMMA AsideInv ==
  ASSUME IInv, NEW t \in Threads, NEW c \in Calls,
         call' = [call EXCEPT ![t] = c], c.pc # "store", Watch,
         UNCHANGED <<strategy, alive, counter, returned, stable, raced>>,
         conns' \in [Backends -> Int],
         \/ c.pc \in {"idle", "busy"}
         \/ call[t].pc # "idle" /\ Good(c, span[t]),
         stable /\ strategy # "least_conn" => NoGap(c)
  PROVE  IInv'
<1>1. /\ TypeInv /\ CallInv /\ StableInv /\ TurnInv /\ RoundInv
      /\ alive' \in SUBSET Backends /\ call \in [Threads -> Calls]
  BY DEF IInv, TypeInv
<1>2. CallInv' /\ call' \in [Threads -> Calls] /\ span' \in [Threads -> Spans]
  BY <1>1, CallStep
<1>3. TypeInv'
  BY <1>1, <1>2 DEF TypeInv
<1>4. StableInv'
  BY <1>1, GapsStep
<1>5. \A u \in Threads : call'[u].pc = "store" =>
        call[u].pc = "store" /\ call'[u].ticket = call[u].ticket
  BY <1>1
<1> QED  BY <1>1, <1>2, <1>3, <1>4, <1>5, SharesAside DEF IInv

\* What the invariant says of one call.
LEMMA OfTheCall ==
  ASSUME IInv, NEW t \in Threads
  PROVE  /\ TypeInv /\ call \in [Threads -> Calls]
         /\ call[t] \in Calls /\ span[t] \in Spans
         /\ Good(call[t], span[t]) /\ Covers(span[t])
         /\ conns \in [Backends -> Int]
BY DEF IInv, TypeInv, CallInv

LEMMA BeginInv ==
  ASSUME IInv, NEW t \in Threads, Begin(t)
  PROVE  IInv'
<1> DEFINE c == Blank("scan")
<1>1. /\ TypeInv /\ CallInv /\ StableInv /\ TurnInv /\ RoundInv
      /\ call \in [Threads -> Calls]
      /\ alive' \in SUBSET Backends /\ conns' \in [Backends -> Int]
  BY DEF IInv, TypeInv, Begin
<1>2. c \in Calls /\ c.pc = "scan" /\ c.list = {} /\ c.next = 1 /\ c.be = None
  BY BlankCall DEF Blank
<1>3. /\ call' = [call EXCEPT ![t] = c] /\ Watch /\ call[t].pc = "idle"
      /\ UNCHANGED <<strategy, alive, counter, conns, returned, stable, raced>>
  BY DEF Begin
<1> HIDE DEF c
<1>4. call' \in [Threads -> Calls]
  BY <1>1, <1>2, <1>3
<1>5. span' \in [Threads -> Spans] /\ span \in [Threads -> Spans]
  BY <1>1, <1>3, WatchWidens DEF TypeInv
<1>6. CallInv'
  <2>1. ASSUME NEW u \in Threads PROVE Covers(span[u])' /\ Good(call[u], span[u])'
    <3>1. Covers(span[u])'
      BY <1>1, <1>3, WatchWidens
    <3>2. CASE u = t
      <4>1. call'[u] = c /\ span'[u].always \subseteq Backends
        BY <1>1, <1>3, <1>5, <3>2 DEF Spans
      <4>2. \A b \in Backends : ~(b < 1)
        BY StrategiesAssumption DEF Backends
      <4> QED  BY <1>2, <3>1, <4>1, <4>2 DEF Good, Scanning
    <3>3. CASE u # t
      <4>1. call'[u] = call[u] /\ Good(call[u], span[u])
        BY <1>1, <1>3, <3>3 DEF CallInv
      <4>2. CASE call[u].pc \in {"idle", "busy"}
        BY <3>1, <4>1, <4>2 DEF Good
      <4>3. CASE call[u].pc \notin {"idle", "busy"}
        <5>1. Wider(span[u], span'[u])
          BY <1>1, <1>3, <4>1, <4>3, WatchWidens
        <5>2. Good(call'[u], span'[u])
          BY <1>4, <1>5, <4>1, <5>1, GoodWidens
        <5> QED
          BY <1>3, <3>1, <5>2 DEF Good, Scanning, Storing, Current
      <4> QED  BY <4>2, <4>3
    <3> QED  BY <3>2, <3>3
  <2> QED  BY <2>1 DEF CallInv
<1>7. TypeInv'
  BY <1>1, <1>3, <1>4, <1>5 DEF TypeInv
<1>8. NoGap(c)
  <2>1. {b \in Backends : b < 1} = {}
    BY StrategiesAssumption DEF Backends
  <2> QED  BY <1>2, <2>1 DEF NoGap
<1>9. StableInv'
  BY <1>1, <1>3, <1>8, GapsStep
<1>10. \A u \in Threads : call'[u].pc = "store" =>
         call[u].pc = "store" /\ call'[u].ticket = call[u].ticket
  BY <1>1, <1>2, <1>3
<1> QED  BY <1>1, <1>3, <1>6, <1>7, <1>9, <1>10, SharesAside DEF IInv

LEMMA ScanInv ==
  ASSUME IInv, NEW t \in Threads, Scan(t)
  PROVE  IInv'
<1> DEFINE c == call[t]
           d == [c EXCEPT !.next = @ + 1, !.list = @ \cup IfAlive(c.next)]
<1>1. /\ TypeInv /\ c \in Calls /\ span[t] \in Spans /\ call \in [Threads -> Calls]
      /\ Good(c, span[t]) /\ Covers(span[t]) /\ conns \in [Backends -> Int]
  BY OfTheCall
<1>2. /\ c.pc = "scan" /\ c.next \in Backends /\ Watch
      /\ UNCHANGED <<strategy, alive, counter, conns, returned, stable, raced>>
      /\ call' = [call EXCEPT ![t] = d]
  BY DEF Scan
<1>3. /\ d \in Calls /\ Good(d, span[t]) /\ d.pc = "scan"
      /\ d.next = c.next + 1 /\ d.list = c.list \cup IfAlive(c.next)
  BY <1>1, <1>2, ScanGood
<1>4. ASSUME stable, strategy # "least_conn" PROVE NoGap(d)
  <2>1. alive = Backends /\ c.list = {b \in Backends : b < c.next}
    BY <1>2, <1>4 DEF IInv, StableInv, NoGap
  <2>2. \A b \in Backends : b < c.next + 1 <=> b < c.next \/ b = c.next
    BY <1>2, StrategiesAssumption DEF Backends
  <2> HIDE DEF c, d
  <2>3. d.list = {b \in Backends : b < d.next}
    BY <1>2, <1>3, <2>1, <2>2 DEF IfAlive
  <2> QED  BY <1>3, <2>3 DEF NoGap
<1> HIDE DEF c, d
<1> QED  BY <1>1, <1>2, <1>3, <1>4, AsideInv DEF c

LEMMA ReturnNilInv ==
  ASSUME IInv, NEW t \in Threads, ReturnNil(t)
  PROVE  IInv'
<1> DEFINE c == call[t]
           d == [Blank("chosen") EXCEPT !.be = None]
<1>1. /\ TypeInv /\ c \in Calls /\ span[t] \in Spans
      /\ Good(c, span[t]) /\ conns \in [Backends -> Int]
  BY OfTheCall
<1>2. /\ c.pc = "scan" /\ c.next \notin Backends /\ c.list = {} /\ Watch
      /\ UNCHANGED <<strategy, alive, counter, conns, returned, stable, raced>>
      /\ call' = [call EXCEPT ![t] = d]
  BY DEF ReturnNil, Chosen
<1>3. d \in Calls /\ d.pc = "chosen" /\ d.be = None
  BY BlankCall
<1> HIDE DEF c, d
<1>4. span[t].always = {}
  <2>1. \A b \in span[t].always : b < c.next
    <3>1. span[t].always \subseteq Backends /\ c.next \in 1 .. NumBackends + 1
      BY <1>1 DEF Spans, Calls
    <3> QED  BY <1>2, <3>1, StrategiesAssumption DEF Backends
  <2> QED  BY <1>1, <1>2, <2>1 DEF Good, Scanning
<1>5. Good(d, span[t]) /\ NoGap(d)
  BY <1>3, <1>4 DEF Good, Current, NoGap
<1> QED  BY <1>1, <1>2, <1>3, <1>5, AsideInv DEF c

LEMMA CompareInv ==
  ASSUME IInv, NEW t \in Threads, Compare(t)
  PROVE  IInv'
<1> DEFINE c == call[t]
           b == Min(c.list)
           d == [c EXCEPT !.pc = IF c.list = {b} THEN "chosen" ELSE "scan",
                          !.list = @ \ {b},
                          !.be = IF Improves(c, conns[b]) THEN b ELSE @,
                          !.min = IF Improves(c, conns[b]) THEN conns[b] ELSE @]
<1>1. /\ TypeInv /\ c \in Calls /\ span[t] \in Spans /\ call \in [Threads -> Calls]
      /\ Good(c, span[t]) /\ Covers(span[t]) /\ conns \in [Backends -> Int]
  BY OfTheCall
<1>2. /\ c.pc = "scan" /\ c.next \notin Backends /\ c.list # {} /\ Watch
      /\ strategy = "least_conn"
      /\ UNCHANGED <<strategy, alive, counter, conns, returned, stable, raced>>
      /\ call' = [call EXCEPT ![t] = d]
  BY DEF Compare, Scanned
<1>3. b \in c.list /\ b \in Backends
  <2>1. c.list \in SUBSET Nat /\ c.list \subseteq Backends
    BY <1>1, BackendsFinite DEF Calls
  <2> QED  BY <1>2, <2>1, LeastMember
<1> HIDE DEF b
<1>4. /\ d \in Calls /\ d.pc = IF c.list = {b} THEN "chosen" ELSE "scan"
      /\ d.next = c.next /\ d.list = c.list \ {b}
      /\ d.be = IF Improves(c, conns[b]) THEN b ELSE c.be
      /\ d.min = IF Improves(c, conns[b]) THEN conns[b] ELSE c.min
  <2> HIDE DEF c
  <2> QED  BY <1>1, <1>3 DEF Calls
<1> HIDE DEF c, d
<1>5. Good(d, span[t])
  BY <1>1, <1>2, <1>3, <1>4, CompareGood
<1>6. d.pc # "store" /\ c.pc # "idle"
  BY <1>2, <1>4
<1> QED  BY <1>1, <1>2, <1>4, <1>5, <1>6, AsideInv DEF c

LEMMA CallerInv ==
  ASSUME IInv, NEW t \in Threads,
         \/ \E b \in Backends : Connect(t, b)
         \/ Disconnect(t)
         \/ GiveUp(t)
  PROVE  IInv'
<1>1. conns \in [Backends -> Int]
  BY OfTheCall
<1>2. ASSUME NEW b \in Backends, Connect(t, b) PROVE IInv'
  <2> DEFINE d == [Blank("busy") EXCEPT !.be = b]
  <2>1. d \in Calls /\ d.pc = "busy"
    BY BlankCall
  <2>2. /\ call' = [call EXCEPT ![t] = d] /\ Watch
        /\ UNCHANGED <<strategy, alive, counter, returned, stable, raced>>
        /\ conns' \in [Backends -> Int]
    BY <1>1, <1>2 DEF Connect
  <2> HIDE DEF d
  <2> QED  BY <2>1, <2>2, AsideInv DEF NoGap
<1>3. CASE Disconnect(t) \/ GiveUp(t)
  <2> DEFINE d == Blank("idle")
  <2>1. d \in Calls /\ d.pc = "idle"
    BY BlankCall
  <2>2. /\ call' = [call EXCEPT ![t] = d] /\ Watch
        /\ UNCHANGED <<strategy, alive, counter, returned, stable, raced>>
    BY <1>3 DEF Disconnect, GiveUp
  <2>3. conns' \in [Backends -> Int]
    BY <1>1, <1>3 DEF Disconnect, GiveUp, Release
  <2> HIDE DEF d
  <2> QED  BY <2>1, <2>2, <2>3, AsideInv DEF NoGap
<1> QED  BY <1>2, <1>3

LEMMA SetAliveInv ==
  ASSUME IInv, NEW b \in Backends, NEW v \in BOOLEAN, SetAlive(b, v)
  PROVE  IInv'
<1>1. /\ TypeInv /\ CallInv /\ StableInv /\ TurnInv /\ RoundInv
      /\ call \in [Threads -> Calls] /\ conns \in [Backends -> Int]
      /\ alive \in SUBSET Backends
  BY DEF IInv, TypeInv
<1>2. /\ UNCHANGED <<strategy, counter, conns, call, returned, raced>> /\ Watch
      /\ stable' = FALSE /\ alive' \in SUBSET Backends
  BY <1>1 DEF SetAlive
<1>3. ASSUME NEW u \in Threads
      PROVE  \/ call'[u].pc \in {"idle", "busy"}
             \/ call[u].pc # "idle" /\ Good(call'[u], span[u])
  BY <1>1, <1>2 DEF CallInv
<1>4. CallInv' /\ span' \in [Threads -> Spans]
  BY <1>1, <1>2, <1>3, CallsStep
<1>5. TypeInv'
  BY <1>1, <1>2, <1>4 DEF TypeInv
<1>6. StableInv' /\ TurnInv' /\ RoundInv'
  BY <1>2 DEF StableInv, TurnInv, RoundInv
<1> QED  BY <1>4, <1>5, <1>6 DEF IInv

----------------------------------------------------------------------------
(* The steps of the counter                                                *)

\* HealthyBackends has returned, and not to least connections.
LEMMA ScannedList ==
  ASSUME IInv, NEW t \in Threads, strategy # "least_conn",
         Scanned(t, strategy)
  PROVE  /\ call[t].list # {} /\ call[t].list \subseteq span[t].ever
         /\ call[t].list \in SUBSET Backends
         /\ stable => call[t].list = Backends
<1>1. call[t] \in Calls /\ Good(call[t], span[t])
  BY OfTheCall
<1>2. call[t].pc = "scan" /\ call[t].next \notin Backends /\ call[t].list # {}
  BY DEF Scanned
<1>3. ASSUME stable PROVE call[t].list = Backends
  <2>1. call[t].list = {b \in Backends : b < call[t].next}
    BY <1>2, <1>3 DEF IInv, StableInv, NoGap
  <2>2. call[t].next \in 1 .. NumBackends + 1
    BY <1>1 DEF Calls
  <2>3. \A b \in Backends : b < call[t].next
    BY <1>2, <2>2, StrategiesAssumption DEF Backends
  <2> QED  BY <2>1, <2>3
<1> QED  BY <1>1, <1>2, <1>3 DEF Good, Scanning, Calls

LEMMA LoadInv ==
  ASSUME IInv, NEW t \in Threads, Load(t)
  PROVE  IInv'
<1> DEFINE c == call[t]
           d == [c EXCEPT !.pc = "store", !.ticket = counter]
<1>1. /\ TypeInv /\ CallInv /\ StableInv /\ TurnInv /\ RoundInv /\ counter \in Nat
      /\ c \in Calls /\ call \in [Threads -> Calls] /\ conns' \in [Backends -> Int]
      /\ alive' \in SUBSET Backends
  BY OfTheCall DEF IInv, TypeInv, Load
<1>2. /\ call' = [call EXCEPT ![t] = d] /\ Watch /\ c.pc = "scan"
      /\ strategy = "weighted_round_robin" /\ Scanned(t, strategy)
      /\ UNCHANGED <<strategy, alive, counter, conns, returned, stable>>
      /\ raced' = (raced \/ \E u \in Threads \ {t} : call[u].pc = "store")
  BY DEF Load, Scanned
<1>3. /\ d \in Calls /\ d.pc = "store" /\ d.ticket = counter /\ d.list = c.list
  BY <1>1 DEF Calls
<1>4. c.list # {} /\ c.list \subseteq span[t].ever /\ (stable => c.list = Backends)
  BY <1>2, ScannedList
<1> HIDE DEF c, d
<1>5. Good(d, span[t]) /\ (stable => NoGap(d))
  BY <1>2, <1>3, <1>4 DEF Good, Storing, NoGap
<1>6. c.pc # "idle"
  BY <1>2
<1>7. CallInv' /\ call' \in [Threads -> Calls] /\ span' \in [Threads -> Spans]
  BY <1>1, <1>2, <1>3, <1>5, <1>6, CallStep DEF c
<1>8. StableInv'
  BY <1>1, <1>2, <1>5, GapsStep
<1>9. TypeInv'
  BY <1>1, <1>2, <1>7 DEF TypeInv
<1>10. TurnInv'
  BY <1>2 DEF TurnInv
<1>11. RoundInv'
  <2> SUFFICES ASSUME stable, Backends # {}
               PROVE  \E q \in Nat, x \in 0 .. TotalWeight(Backends) - 1 :
                        Rounds(q, x)' /\ Exact(q, x)'
    BY <1>2 DEF RoundInv
  <2>1. PICK q \in Nat, x \in 0 .. TotalWeight(Backends) - 1 :
          Rounds(q, x) /\ Exact(q, x)
    BY <1>1, <1>2 DEF RoundInv
  <2>2. \A u \in Threads : call'[u].pc = "store" =>
          call'[u].ticket <= q * TotalWeight(Backends) + x
    BY <1>1, <1>2, <1>3, <2>1 DEF Rounds
  <2>3. Rounds(q, x)'
    BY <1>2, <2>1, <2>2 DEF Rounds
  <2>4. Exact(q, x)'
    <3>1. SUFFICES ASSUME ~raced' PROVE Exact(q, x)'
      BY DEF Exact
    <3>2. ~raced /\ \A u \in Threads : call[u].pc = "store" => u = t
      BY <1>2, <3>1
    <3>3. \A u \in Threads : call'[u].pc = "store" => u = t
      BY <1>1, <1>2, <3>2
    <3>4. call'[t].ticket = counter'
      BY <1>1, <1>2, <1>3
    <3> QED  BY <1>2, <2>1, <3>2, <3>3, <3>4 DEF Exact
  <2> QED  BY <2>3, <2>4
<1> QED  BY <1>7, <1>8, <1>9, <1>10, <1>11 DEF IInv

\* A round robin returns a backend of its list.
LEMMA ReturnedGood ==
  ASSUME IInv, NEW t \in Threads, strategy # "least_conn", call[t].pc # "idle",
         NEW b \in Backends, b \in span[t].ever, Returned(t, b),
         Watch, UNCHANGED <<strategy, alive, conns, stable>>, counter' \in Nat
  PROVE  /\ TypeInv' /\ CallInv' /\ StableInv'
         /\ \A a \in Backends : returned'[a] = returned[a] + (IF a = b THEN 1 ELSE 0)
         /\ \A u \in Threads : call'[u].pc = "store" =>
              u # t /\ call[u].pc = "store" /\ call'[u].ticket = call[u].ticket
<1> DEFINE d == [Blank("chosen") EXCEPT !.be = b]
<1>1. /\ TypeInv /\ CallInv /\ StableInv /\ call \in [Threads -> Calls]
      /\ returned \in [Backends -> Nat] /\ conns' \in [Backends -> Int]
      /\ alive' \in SUBSET Backends
  BY DEF IInv, TypeInv
<1>2. /\ call' = [call EXCEPT ![t] = d]
      /\ returned' = [returned EXCEPT ![b] = @ + 1]
  BY DEF Returned, Chosen
<1>3. d \in Calls /\ d.pc = "chosen" /\ d.be = b
  BY BlankCall
<1>4. b # None
  BY StrategiesAssumption DEF Backends, None
<1> HIDE DEF d
<1>5. Good(d, span[t]) /\ NoGap(d)
  BY <1>3, <1>4 DEF Good, Current, NoGap
<1>6. CallInv' /\ call' \in [Threads -> Calls] /\ span' \in [Threads -> Spans]
  BY <1>1, <1>2, <1>3, <1>5, CallStep
<1>7. StableInv'
  BY <1>1, <1>2, <1>5, GapsStep
<1>8. returned' \in [Backends -> Nat]
  BY <1>1, <1>2
<1>9. TypeInv'
  BY <1>1, <1>6, <1>8 DEF TypeInv
<1> QED  BY <1>1, <1>2, <1>3, <1>6, <1>7, <1>9

LEMMA AddInv ==
  ASSUME IInv, NEW t \in Threads, Add(t)
  PROVE  IInv'
<1> DEFINE list == call[t].list
           b == InTurn(list, counter)
<1>1. /\ TypeInv /\ TurnInv /\ RoundInv /\ counter \in Nat
      /\ returned \in [Backends -> Nat]
  BY DEF IInv, TypeInv
<1>2. /\ strategy = "round_robin" /\ Scanned(t, strategy) /\ Returned(t, b)
      /\ call[t].pc # "idle" /\ Watch /\ counter' = counter + 1
      /\ UNCHANGED <<strategy, alive, conns, stable>>
  BY DEF Add, Scanned
<1>3. /\ list # {} /\ list \subseteq span[t].ever /\ list \in SUBSET Backends
      /\ stable => list = Backends
  BY <1>2, ScannedList
<1>4. b \in list
  BY <1>1, <1>3, InTurnInList
<1> HIDE DEF list, b
<1>5. /\ TypeInv' /\ CallInv' /\ StableInv'
      /\ \A a \in Backends : returned'[a] = returned[a] + (IF a = b THEN 1 ELSE 0)
  BY <1>1, <1>2, <1>3, <1>4, ReturnedGood
<1>6. TurnInv'
  <2> SUFFICES ASSUME stable, Backends # {}
               PROVE  \E q \in Nat, r \in 0 .. NumBackends - 1 : Turns(q, r)'
    BY <1>2 DEF TurnInv
  <2>1. PICK q \in Nat, r \in 0 .. NumBackends - 1 : Turns(q, r)
    BY <1>1, <1>2 DEF TurnInv
  <2>2. NumBackends \in Nat \ {0} /\ Cardinality(Backends) = NumBackends
    <3>1. NumBackends \in Nat \ {0}
      BY StrategiesAssumption DEF Backends
    <3>2. ~(1 > NumBackends) /\ NumBackends - 1 + 1 = NumBackends
      BY <3>1
    <3> QED  BY <3>1, <3>2, FS_Interval DEF Backends
  <2>3. b = r + 1
    <3>1. (q * NumBackends + r) % NumBackends = r
      BY <2>2, Remainder
    <3>2. b = Nth(Backends, r)
      BY <1>3, <2>1, <2>2, <3>1 DEF b, InTurn, Turns
    <3> QED  BY <3>2, NthOfAll
  <2>4. CASE r + 1 < NumBackends
    <3>1. r + 1 \in 0 .. NumBackends - 1
      BY <2>2, <2>4
    <3>2. counter' = q * NumBackends + (r + 1)
      BY <1>2, <2>1, <2>2 DEF Turns
    <3>3. ASSUME NEW a \in Backends
          PROVE  returned'[a] = q + (IF a <= r + 1 THEN 1 ELSE 0)
      BY <1>5, <2>1, <2>3, StrategiesAssumption DEF Turns, Backends
    <3>4. Turns(q, r + 1)'
      BY <3>2, <3>3 DEF Turns
    <3> QED  BY <3>1, <3>4
  <2>5. CASE r + 1 = NumBackends
    <3>1. q + 1 \in Nat /\ 0 \in 0 .. NumBackends - 1
      BY <2>2
    <3>2. counter' = (q + 1) * NumBackends + 0
      BY <1>2, <2>1, <2>2, <2>5 DEF Turns
    <3>3. ASSUME NEW a \in Backends
          PROVE  returned'[a] = (q + 1) + (IF a <= 0 THEN 1 ELSE 0)
      BY <1>5, <2>1, <2>3, <2>5, StrategiesAssumption DEF Turns, Backends
    <3>4. Turns(q + 1, 0)'
      BY <3>2, <3>3 DEF Turns
    <3> QED  BY <3>1, <3>4
  <2> QED  BY <2>2, <2>4, <2>5
<1>7. RoundInv'
  BY <1>2 DEF RoundInv
<1> QED  BY <1>5, <1>6, <1>7 DEF IInv

LEMMA TakenFacts ==
  ASSUME NEW a \in Backends
  PROVE  /\ \A x \in Nat : Taken(a, x) \in Nat /\ Taken(a, x) <= Weight[a]
         /\ Taken(a, 0) = 0
         /\ Taken(a, TotalWeight(Backends)) = Weight[a]
<1>1. /\ Before(a) \in Nat /\ Weight[a] \in Nat \ {0}
      /\ Upto(a) = Before(a) + Weight[a]
      /\ Upto(a) <= TotalWeight(Backends) /\ TotalWeight(Backends) \in Nat
  BY Bands, SlotsFacts, StrategiesAssumption
<1> QED  BY <1>1 DEF Taken

\* The next slot is taken by the backend in whose band it lies, and by no other.
LEMMA TakenStep ==
  ASSUME NEW x \in Nat, NEW b \in Backends, Before(b) <= x, x < Upto(b),
         NEW a \in Backends
  PROVE  Taken(a, x + 1) = Taken(a, x) + (IF a = b THEN 1 ELSE 0)
<1>1. /\ Before(a) \in Nat /\ Upto(a) = Before(a) + Weight[a]
      /\ Before(b) \in Nat /\ Upto(b) = Before(b) + Weight[b]
      /\ Weight[a] \in Nat \ {0} /\ Weight[b] \in Nat \ {0}
      /\ a < b => Upto(a) <= Before(b)
      /\ b < a => Upto(b) <= Before(a)
      /\ a \in Nat /\ b \in Nat
  BY Bands, StrategiesAssumption, BackendsFinite
<1>2. CASE a = b
  BY <1>1, <1>2 DEF Taken
<1>3. CASE a < b
  BY <1>1, <1>3 DEF Taken
<1>4. CASE b < a
  BY <1>1, <1>4 DEF Taken
<1> QED  BY <1>1, <1>2, <1>3, <1>4

LEMMA StoreInv ==
  ASSUME IInv, NEW t \in Threads, Store(t)
  PROVE  IInv'
<1> DEFINE list == call[t].list
           n == call[t].ticket
           b == ByWeight(list, n)
           T == TotalWeight(Backends)
<1>1. /\ TypeInv /\ TurnInv /\ RoundInv /\ counter \in Nat /\ n \in Nat
      /\ returned \in [Backends -> Nat] /\ list \in SUBSET Backends
      /\ call[t].pc = "store" /\ Good(call[t], span[t])
  BY OfTheCall DEF IInv, TypeInv, Store, Calls
<1>2. /\ strategy = "weighted_round_robin" /\ list # {}
      /\ list \subseteq span[t].ever /\ (stable => list = Backends)
  BY <1>1 DEF Good, Storing, IInv, StableInv, NoGap
<1>3. /\ Returned(t, b) /\ Watch /\ counter' = n + 1
      /\ UNCHANGED <<strategy, alive, conns, stable, raced>>
  BY DEF Store, NextWeight
<1>4. b \in list
  BY <1>1, <1>2, ByWeightInList
<1> HIDE DEF list, n, b
<1>5. /\ TypeInv' /\ CallInv' /\ StableInv'
      /\ \A a \in Backends : returned'[a] = returned[a] + (IF a = b THEN 1 ELSE 0)
      /\ \A u \in Threads : call'[u].pc = "store" =>
           u # t /\ call[u].pc = "store" /\ call'[u].ticket = call[u].ticket
  BY <1>1, <1>2, <1>3, <1>4, ReturnedGood
<1>6. RoundInv'
  <2> SUFFICES ASSUME stable, Backends # {}
               PROVE  \E q \in Nat, x \in 0 .. T - 1 : Rounds(q, x)' /\ Exact(q, x)'
    BY <1>2, <1>3 DEF RoundInv
  <2>1. T \in Nat \ {0}
    BY TotalPositive
  <2> HIDE DEF T
  <2>2. PICK q \in Nat, x \in 0 .. T - 1 : Rounds(q, x) /\ Exact(q, x)
    BY <1>1, <1>2 DEF RoundInv, T
  <2>3. /\ n <= q * T + x
        /\ \A u \in Threads : call'[u].pc = "store" => call'[u].ticket <= q * T + x
        /\ \A a \in Backends : returned[a] >= q * Weight[a] + Taken(a, x)
    BY <1>1, <1>5, <2>2 DEF Rounds, T, n
  <2>4. /\ q * T \in Nat /\ x \in Nat
        /\ \A a \in Backends : /\ q * Weight[a] \in Nat /\ Taken(a, x) \in Nat
                               /\ returned[a] \in Nat /\ Weight[a] \in Nat
    BY <1>1, <2>1, TakenFacts, StrategiesAssumption
  <2>7. ~raced => /\ n = q * T + x
                  /\ \A u \in Threads : call'[u].pc # "store"
                  /\ \A a \in Backends : returned[a] = q * Weight[a] + Taken(a, x)
    BY <1>1, <1>5, <2>2 DEF Exact, T, n
  <2>5. CASE n < q * T + x
    <3>1. counter' <= q * T + x
      BY <1>1, <1>3, <2>4, <2>5
    <3>2. \A a \in Backends : returned'[a] >= q * Weight[a] + Taken(a, x)
      BY <1>5, <2>3, <2>4
    <3>3. Exact(q, x)'
      BY <1>1, <1>3, <2>4, <2>5, <2>7 DEF Exact
    <3> QED  BY <2>3, <3>1, <3>2, <3>3 DEF Rounds, T
  <2>6. CASE n = q * T + x
    <3>1. b \in Backends /\ Before(b) <= x /\ x < Upto(b)
      BY <1>2, <2>2, <2>6, ByWeightOfAll DEF b, T
    <3>2. ASSUME NEW a \in Backends
          PROVE  /\ returned'[a] >= q * Weight[a] + Taken(a, x + 1)
                 /\ ~raced => returned'[a] = q * Weight[a] + Taken(a, x + 1)
      <4>1. Taken(a, x + 1) = Taken(a, x) + (IF a = b THEN 1 ELSE 0)
        BY <2>4, <3>1, TakenStep
      <4> QED  BY <1>5, <2>3, <2>4, <2>7, <4>1
    <3>3. \A u \in Threads : call'[u].pc = "store" => call'[u].ticket <= q * T + (x + 1)
      <4>1. TAKE u \in Threads
      <4>2. HAVE call'[u].pc = "store"
      <4>3. call'[u].ticket \in Nat
        BY <1>5 DEF TypeInv, Calls
      <4> QED  BY <2>3, <2>4, <4>2, <4>3
    <3>4. CASE x + 1 < T
      <4>1. x + 1 \in 0 .. T - 1
        BY <2>1, <2>4, <3>4
      <4>2. counter' = q * T + (x + 1) /\ counter' <= q * T + (x + 1)
        BY <1>3, <2>4, <2>6
      <4>3. Rounds(q, x + 1)'
        BY <3>2, <3>3, <4>2 DEF Rounds, T
      <4>4. Exact(q, x + 1)'
        BY <1>3, <2>7, <3>2, <4>2 DEF Exact, T
      <4> QED  BY <4>1, <4>3, <4>4
    <3>5. CASE x + 1 = T
      <4>1. q + 1 \in Nat /\ 0 \in 0 .. T - 1 /\ (q + 1) * T + 0 = q * T + (x + 1)
        BY <2>1, <2>4, <3>5
      <4>2. counter' = (q + 1) * T + 0 /\ counter' <= (q + 1) * T + 0
        BY <1>3, <2>4, <2>6, <4>1
      <4>3. ASSUME NEW a \in Backends
            PROVE  /\ returned'[a] >= (q + 1) * Weight[a] + Taken(a, 0)
                   /\ ~raced => returned'[a] = (q + 1) * Weight[a] + Taken(a, 0)
        <5>1. Taken(a, x + 1) = Weight[a] /\ Taken(a, 0) = 0
          BY <3>5, TakenFacts DEF T
        <5>2. (q + 1) * Weight[a] + 0 = q * Weight[a] + Weight[a]
          BY <2>4
        <5> QED  BY <3>2, <5>1, <5>2
      <4>4. Rounds(q + 1, 0)'
        BY <3>3, <4>1, <4>2, <4>3 DEF Rounds, T
      <4>5. Exact(q + 1, 0)'
        BY <1>3, <2>7, <4>2, <4>3 DEF Exact, T
      <4> QED  BY <4>1, <4>4, <4>5
    <3> QED  BY <2>1, <2>2, <3>4, <3>5
  <2> QED  BY <1>1, <2>3, <2>4, <2>5, <2>6
<1>7. TurnInv'
  BY <1>2, <1>3 DEF TurnInv
<1> QED  BY <1>5, <1>6, <1>7 DEF IInv

----------------------------------------------------------------------------
(* The theorems                                                            *)

LEMMA InitInv == Init => IInv
<1> SUFFICES ASSUME Init PROVE IInv
  OBVIOUS
<1>1. \A t \in Threads : call[t] = Blank("idle") /\ span[t] = Span
  BY DEF Init
<1>2. /\ Span \in Spans /\ Covers(Span)
      /\ Blank("idle") \in Calls /\ Blank("idle").pc = "idle"
  <2>1. conns \in [Backends -> Int] /\ alive = Backends
    BY DEF Init
  <2>2. Span \in Spans /\ Covers(Span)
    BY <2>1 DEF Span, Spans, Covers
  <2> QED  BY <2>2, BlankCall
<1>3. TypeInv
  BY <1>1, <1>2 DEF Init, TypeInv
<1>4. CallInv
  BY <1>1, <1>2 DEF CallInv, Good
<1>5. StableInv
  BY <1>1, <1>2 DEF Init, StableInv, NoGap
<1>6. TurnInv
  <2>1. ASSUME Backends # {} PROVE 0 \in 0 .. NumBackends - 1 /\ Turns(0, 0)
    BY <2>1, StrategiesAssumption DEF Init, Turns, Backends
  <2> QED  BY <2>1 DEF TurnInv
<1>7. RoundInv
  <2>1. ASSUME Backends # {}
        PROVE  /\ 0 \in 0 .. TotalWeight(Backends) - 1
               /\ Rounds(0, 0) /\ Exact(0, 0)
    <3>1. TotalWeight(Backends) \in Nat \ {0}
      BY <2>1, TotalPositive
    <3>2. ASSUME NEW b \in Backends
          PROVE  /\ returned[b] >= 0 * Weight[b] + Taken(b, 0)
                 /\ returned[b] = 0 * Weight[b] + Taken(b, 0)
      BY TakenFacts, StrategiesAssumption DEF Init
    <3>3. /\ counter <= 0 * TotalWeight(Backends) + 0
          /\ counter = 0 * TotalWeight(Backends) + 0
      BY <3>1 DEF Init
    <3>4. \A t \in Threads : call[t].pc # "store"
      BY <1>1, <1>2
    <3> QED  BY <3>1, <3>2, <3>3, <3>4 DEF Rounds, Exact
  <2> QED  BY <2>1 DEF RoundInv
<1> QED  BY <1>3, <1>4, <1>5, <1>6, <1>7 DEF IInv

LEMMA StutterInv == IInv /\ UNCHANGED vars => IInv'
<1> SUFFICES ASSUME IInv, UNCHANGED vars PROVE IInv'
  OBVIOUS
<1>1. TypeInv'
  BY DEF IInv, TypeInv, vars
<1>2. CallInv'
  BY DEF IInv, CallInv, Covers, Good, Scanning, Storing, Current, vars
<1>3. StableInv'
  BY DEF IInv, StableInv, NoGap, vars
<1>4. TurnInv' /\ RoundInv'
  BY SharesAside DEF IInv, vars
<1> QED  BY <1>1, <1>2, <1>3, <1>4 DEF IInv

LEMMA NextInv == IInv /\ [Next]_vars => IInv'
BY StutterInv, BeginInv, ScanInv, ReturnNilInv, AddInv, LoadInv, StoreInv,
   CompareInv, CallerInv, SetAliveInv
   DEF Next

\* The inductive invariant holds throughout.
THEOREM Invariance == Spec => []IInv
BY InitInv, NextInv, PTL DEF Spec

(***************************************************************************)
(* Whatever the strategy, the backend that Select returns was alive during *)
(* the call, and nil means that none stayed alive throughout.              *)
(***************************************************************************)
THEOREM CurrentChoice == Spec => []ChoiceIsCurrent
<1>1. IInv => ChoiceIsCurrent
  BY DEF IInv, CallInv, Good, Current, ChoiceIsCurrent
<1> QED  BY Invariance, <1>1, PTL

(***************************************************************************)
(* LeastConnections.Select never returns a backend that was busier at      *)
(* every moment of the call than another one which was alive throughout.   *)
(***************************************************************************)
THEOREM LeastConnections == Spec => []LeastOfTheCall
<1>1. IInv => LeastOfTheCall
  BY DEF IInv, CallInv, Good, Current, LeastOfTheCall
<1> QED  BY Invariance, <1>1, PTL

(***************************************************************************)
(* The atomic counter of RoundRobin.Select gives even shares to any number *)
(* of backends, however many calls overlap.                                *)
(***************************************************************************)
THEOREM EvenShares == Spec => []RoundRobinEven
<1>1. ASSUME IInv PROVE RoundRobinEven
  <2> SUFFICES ASSUME strategy = "round_robin", stable,
                      NEW a \in Backends, NEW b \in Backends
               PROVE  returned[a] <= returned[b] + 1
    BY DEF RoundRobinEven
  <2>1. PICK q \in Nat, r \in 0 .. NumBackends - 1 : Turns(q, r)
    BY <1>1 DEF IInv, TurnInv
  <2> QED  BY <2>1 DEF Turns
<1> QED  BY Invariance, <1>1, PTL

(***************************************************************************)
(* Although WeightedRoundRobin.Select loads and stores its counter in two  *)
(* steps, no backend falls behind its weight, for any weights, and none    *)
(* gets ahead of it before two calls have been between load and store      *)
(* together.                                                               *)
(***************************************************************************)
THEOREM WeightedShares == Spec => []WeightedShare
<1>1. ASSUME IInv PROVE WeightedShare
  <2> DEFINE T == TotalWeight(Backends)
             d == counter \div T
             e == (counter + T - 1) \div T
  <2> SUFFICES ASSUME strategy = "weighted_round_robin", stable,
                      NEW b \in Backends
               PROVE  /\ returned[b] >= Weight[b] * d
                      /\ ~raced => returned[b] <= Weight[b] * e
    BY DEF WeightedShare
  <2>1. T \in Nat \ {0} /\ counter \in Nat /\ returned[b] \in Nat
        /\ Weight[b] \in Nat
    BY <1>1, TotalPositive, StrategiesAssumption DEF IInv, TypeInv
  <2>2. PICK q \in Nat, x \in 0 .. T - 1 : Rounds(q, x) /\ Exact(q, x)
    BY <1>1 DEF IInv, RoundInv
  <2>3. /\ counter <= q * T + x /\ returned[b] >= q * Weight[b] + Taken(b, x)
        /\ ~raced => /\ counter = q * T + x
                     /\ returned[b] = q * Weight[b] + Taken(b, x)
    BY <2>2 DEF Rounds, Exact
  <2>4. Taken(b, x) \in Nat /\ Taken(b, x) <= Weight[b] /\ Taken(b, 0) = 0
    BY <2>2, TakenFacts
  <2> HIDE DEF T
  <2>5. /\ d \in Nat /\ d * T <= counter
        /\ e \in Nat /\ (e + 1) * T > counter + T - 1
    BY <2>1
  <2> HIDE DEF d, e
  <2>6. (q + 1) * T = q * T + T /\ q * T \in Nat /\ (e + 1) * T = e * T + T
        /\ e * T \in Nat
    BY <2>1, <2>5
  <2>7. d <= q
    <3>1. SUFFICES ASSUME d >= q + 1 PROVE FALSE
      BY <2>5
    <3>2. d * T >= (q + 1) * T
      BY <2>1, <2>5, <3>1
    <3> QED  BY <2>1, <2>2, <2>3, <2>5, <2>6, <3>2
  <2>8. returned[b] >= Weight[b] * d
    <3>1. Weight[b] * d <= q * Weight[b] /\ Weight[b] * d \in Nat
          /\ q * Weight[b] \in Nat
      BY <2>1, <2>5, <2>7
    <3> QED  BY <2>1, <2>3, <2>4, <3>1
  <2>9. ASSUME ~raced PROVE returned[b] <= Weight[b] * e
    <3>1. counter = q * T + x /\ returned[b] = q * Weight[b] + Taken(b, x)
      BY <2>3, <2>9
    <3>2. e * T >= q * T + x
      BY <2>1, <2>2, <2>5, <2>6, <3>1
    <3>3. CASE x = 0
      <4>1. e >= q
        <5>1. SUFFICES ASSUME q >= e + 1 PROVE FALSE
          BY <2>5
        <5>2. q * T >= (e + 1) * T
          BY <2>1, <2>5, <5>1
        <5> QED  BY <2>1, <2>6, <3>2, <3>3, <5>2
      <4>2. Weight[b] * e >= q * Weight[b]
        BY <2>1, <2>5, <4>1
      <4> QED  BY <2>1, <2>4, <3>1, <3>3, <4>2
    <3>4. CASE x > 0
      <4>1. e >= q + 1
        <5>1. SUFFICES ASSUME q >= e PROVE FALSE
          BY <2>5
        <5>2. q * T >= e * T
          BY <2>1, <2>5, <5>1
        <5> QED  BY <2>1, <2>2, <2>6, <3>2, <3>4, <5>2
      <4>2. Weight[b] * e >= (q + 1) * Weight[b]
            /\ (q + 1) * Weight[b] = q * Weight[b] + Weight[b]
        BY <2>1, <2>5, <4>1
      <4> QED  BY <2>1, <2>4, <2>5, <3>1, <4>2
    <3> QED  BY <2>2, <3>3, <3>4
  <2> QED  BY <2>8, <2>9
<1> QED  BY Invariance, <1>1, PTL
=============================================================================
