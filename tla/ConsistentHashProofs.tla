------------------------ MODULE ConsistentHashProofs ------------------------
(***************************************************************************)
(* What the ring of consistent_hash.go guarantees for any pool, any        *)
(* placement of virtual nodes and any number of goroutines.                *)
(***************************************************************************)
EXTENDS ConsistentHash, WellFoundedInduction, TLAPS

----------------------------------------------------------------------------
(* The ring as a function of its backends                                  *)

(***************************************************************************)
(* A set of positions that is not empty has a least element, which         *)
(* sort.Search returns.                                                    *)
(***************************************************************************)
LEMMA MinIsLeast ==
  ASSUME NEW T \in SUBSET Nat, T # {}
  PROVE  Min(T) \in T /\ \A y \in T : Min(T) <= y
<1> DEFINE R == {ss \in Nat \X Nat : ss[1] < ss[2]}
<1>1. IsWellFoundedOn(R, Nat)
  BY NatLessThanWellFounded DEF OpToRel
<1>2. PICK x \in T : \A y \in T : ~ (<<y, x>> \in R)
  BY <1>1, WFMin
<1>3. ASSUME NEW y \in T PROVE x <= y
  <2>1. x \in Nat /\ y \in Nat /\ ~ (<<y, x>> \in R)
    BY <1>2
  <2>2. <<y, x>> \in Nat \X Nat /\ <<y, x>>[1] = y /\ <<y, x>>[2] = x
    BY <2>1
  <2>3. ~ (y < x)
    BY <2>1, <2>2
  <2>4. QED
    BY <2>1, <2>3
<1>4. QED
  BY <1>3 DEF Min

(***************************************************************************)
(* A set of backends that is not empty has a last one in the order of the  *)
(* pool, the one that keeps a shared position.                             *)
(***************************************************************************)
LEMMA MaxIsGreatest ==
  ASSUME NEW T \in SUBSET Backends, T # {}
  PROVE  Max(T) \in T /\ \A y \in T : y <= Max(T)
<1> DEFINE D == {NumBackends - b : b \in T}
<1>0. NumBackends \in Nat /\ \A b \in T : b \in Nat /\ b <= NumBackends
  BY RingAssumption DEF Backends
<1>1. D \in SUBSET Nat /\ D # {}
  <2>1. \A b \in T : NumBackends - b \in Nat
    BY <1>0
  <2>2. QED
    BY <2>1
<1> HIDE DEF D
<1>2. Min(D) \in D /\ \A y \in D : Min(D) <= y
  BY <1>1, MinIsLeast
<1>3. PICK x \in T : Min(D) = NumBackends - x
  BY <1>2 DEF D
<1>4. ASSUME NEW y \in T PROVE x >= y
  <2>1. NumBackends - x <= NumBackends - y
    BY <1>2, <1>3 DEF D
  <2>2. QED
    BY <1>0, <2>1
<1>5. PICK z \in T : Max(T) = z /\ \A y \in T : z >= y
  BY <1>4 DEF Max
<1>6. QED
  BY <1>0, <1>5

(***************************************************************************)
(* The order in which a search for h meets positions: upwards from h, and  *)
(* then from zero.                                                         *)
(***************************************************************************)
Sooner(h, p, q) == \/ p >= h /\ q < h
                   \/ p >= h /\ q >= h /\ p < q
                   \/ p < h /\ q < h /\ p < q

(***************************************************************************)
(* The position that a lookup finds is one of the ring, and the first one  *)
(* that the search meets.                                                  *)
(***************************************************************************)
LEMMA SearchFinds ==
  ASSUME NEW P \in SUBSET Nat, P # {}, NEW h \in Nat
  PROVE  Search(P, h) \in P /\ \A p \in P : ~ Sooner(h, p, Search(P, h))
<1> DEFINE above == {p \in P : p >= h}
<1>1. CASE above # {}
  <2>1. PICK m \in above : m = Min(above) /\ \A y \in above : m <= y
    BY <1>1, MinIsLeast
  <2>2. Search(P, h) = m
    BY <1>1, <2>1 DEF Search
  <2>3. ASSUME NEW p \in P PROVE ~ Sooner(h, p, m)
    <3>1. m \in Nat /\ p \in Nat /\ m >= h /\ (p >= h => m <= p)
      BY <2>1
    <3>2. QED
      BY <3>1 DEF Sooner
  <2>4. QED
    BY <2>1, <2>2, <2>3
<1>2. CASE above = {}
  <2>1. PICK m \in P : m = Min(P) /\ \A y \in P : m <= y
    BY MinIsLeast
  <2>2. Search(P, h) = m
    BY <1>2, <2>1 DEF Search
  <2>3. ASSUME NEW p \in P PROVE ~ Sooner(h, p, m)
    <3>1. m \in Nat /\ p \in Nat /\ m <= p /\ ~ (p >= h) /\ ~ (m >= h)
      BY <1>2, <2>1
    <3>2. QED
      BY <3>1 DEF Sooner
  <2>4. QED
    BY <2>1, <2>2, <2>3
<1>3. QED
  BY <1>1, <1>2

\* The positions of a set of backends are natural numbers, and exist.
LEMMA RingHasPoints ==
  ASSUME NEW S \in SUBSET Backends
  PROVE  /\ PointsOf(S) \in SUBSET Nat
         /\ S # {} => PointsOf(S) # {}
         /\ DOMAIN BuildRing(S) = PointsOf(S)
<1>1. \A b \in S : Points[b] \subseteq Nat /\ Points[b] # {}
  BY RingAssumption
<1>2. QED
  BY <1>1 DEF PointsOf, BuildRing

(***************************************************************************)
(* A lookup returns the last backend of the ring that has the position     *)
(* found.                                                                  *)
(***************************************************************************)
LEMMA LookupFinds ==
  ASSUME NEW S \in SUBSET Backends, S # {}, NEW h \in Nat
  PROVE  LET p == Search(PointsOf(S), h)
             b == Lookup(BuildRing(S), h)
         IN  /\ p \in Nat
             /\ \A q \in PointsOf(S) : ~ Sooner(h, q, p)
             /\ b \in S /\ p \in Points[b]
             /\ \A c \in S : p \in Points[c] => c <= b
<1> DEFINE p == Search(PointsOf(S), h)
           sharers == {b \in S : p \in Points[b]}
<1>1. p \in PointsOf(S) /\ \A q \in PointsOf(S) : ~ Sooner(h, q, p)
  BY RingHasPoints, SearchFinds
<1>2. p \in Nat
  BY <1>1, RingHasPoints
<1>3. sharers # {} /\ sharers \in SUBSET Backends
  BY <1>1 DEF PointsOf
<1>4. Lookup(BuildRing(S), h) = Max(sharers)
  <2>1. Lookup(BuildRing(S), h) = BuildRing(S)[p]
    BY RingHasPoints DEF Lookup
  <2>2. BuildRing(S)[p] = Max(sharers)
    BY <1>1 DEF BuildRing
  <2>3. QED
    BY <2>1, <2>2
<1>5. Max(sharers) \in sharers /\ \A c \in sharers : c <= Max(sharers)
  BY <1>3, MaxIsGreatest
<1>6. QED
  BY <1>1, <1>2, <1>4, <1>5

(***************************************************************************)
(* Two rings that both have the backends they give to a key agree on it.   *)
(***************************************************************************)
LEMMA OwnersAgree ==
  ASSUME NEW S \in SUBSET Backends, S # {},
         NEW T \in SUBSET Backends, T # {},
         NEW h \in Nat,
         Lookup(BuildRing(S), h) \in T, Lookup(BuildRing(T), h) \in S
  PROVE  Lookup(BuildRing(S), h) = Lookup(BuildRing(T), h)
<1> DEFINE p == Search(PointsOf(S), h)
           q == Search(PointsOf(T), h)
           b == Lookup(BuildRing(S), h)
           c == Lookup(BuildRing(T), h)
<1>1. /\ p \in Nat /\ b \in S /\ p \in Points[b]
      /\ \A x \in PointsOf(S) : ~ Sooner(h, x, p)
      /\ \A x \in S : p \in Points[x] => x <= b
  BY LookupFinds
<1>2. /\ q \in Nat /\ c \in T /\ q \in Points[c]
      /\ \A x \in PointsOf(T) : ~ Sooner(h, x, q)
      /\ \A x \in T : q \in Points[x] => x <= c
  BY LookupFinds
<1> HIDE DEF p, q, b, c
<1>3. b \in T /\ c \in S
  BY DEF b, c
<1>4. p \in PointsOf(T) /\ q \in PointsOf(S)
  BY <1>1, <1>2, <1>3 DEF PointsOf
<1>5. p = q
  <2>1. ~ Sooner(h, p, q) /\ ~ Sooner(h, q, p)
    BY <1>1, <1>2, <1>4
  <2>2. QED
    BY <1>1, <1>2, <2>1 DEF Sooner
<1>6. b <= c /\ c <= b
  BY <1>1, <1>2, <1>3, <1>5
<1>7. b \in Nat /\ c \in Nat
  BY <1>1, <1>2 DEF Backends
<1>8. b = c
  BY <1>6, <1>7
<1>9. QED
  BY <1>8 DEF b, c

----------------------------------------------------------------------------
(* The invariant                                                           *)

\* The initial state, with an empty ring and no call.
LEMMA InitIInv == Init => IInv
<1> SUFFICES ASSUME Init PROVE IInv
  OBVIOUS
<1>1. TypeOK
  BY RingAssumption
     DEF Init, TypeOK, Calls, Places, Backends, None, ClientKeys
<1>2. InCall = {}
  BY DEF Init, InCall
<1>3. RecentlyAlive /\ NilOnlyIfNoneSeen
  BY DEF Init, RecentlyAlive, NilOnlyIfNoneSeen, None
<1>4. QED
  BY <1>1, <1>2, <1>3 DEF IInv, CallsInv

(***************************************************************************)
(* IInv is inductive: one step for each action.                            *)
(***************************************************************************)
LEMMA NextIInv == IInv /\ [Next]_vars => IInv'
<1> SUFFICES ASSUME IInv, [Next]_vars PROVE IInv'
  OBVIOUS
<1> USE DEF IInv
<1>0. TypeOK /\ CallsInv /\ RecentlyAlive /\ NilOnlyIfNoneSeen
  OBVIOUS
<1>1. ASSUME NEW t \in Threads,
             NEW key \in ClientKeys, SelectKey(t, key)
      PROVE  IInv'
  <2>1. TypeOK'
    <3>1. call'[t] \in Calls
      BY <1>0, <1>1, RingAssumption DEF TypeOK, SelectKey, Calls, Places
    <3>2. call' \in [Threads -> Calls]
      BY <1>0, <1>1, <3>1 DEF TypeOK, SelectKey
    <3>3. window' \in [Threads -> SUBSET Backends]
      BY <1>0, <1>1 DEF TypeOK, SelectKey, InCall
    <3>4. QED
      BY <1>0, <1>1, <3>2, <3>3 DEF TypeOK, SelectKey
  <2>2. InCall' = InCall \cup {t} /\ t \notin InCall
    BY <1>0, <1>1 DEF TypeOK, SelectKey, InCall
  <2>3. CallsInv'
    <3> SUFFICES ASSUME NEW u \in InCall'
                 PROVE  /\ alive' \cup call'[u].list \subseteq own'[u]
                        /\ \A v \in InCall' : own'[v] \subseteq window'[u]
                        /\ call'[u].got = None
                        /\ call'[u].pc # "scan" => call'[u].list # {}
                        /\ call'[u].pc = "get" =>
                             nodes' # {} /\ nodes' \subseteq window'[u]
      BY DEF CallsInv
    <3>1. CASE u = t
      BY <1>0, <1>1, <2>2, <3>1 DEF TypeOK, SelectKey, CallsInv, InCall
    <3>2. CASE u # t
      <4>1. u \in InCall /\ call'[u] = call[u] /\ own'[u] = own[u]
            /\ window'[u] = window[u]
        BY <1>0, <1>1, <2>2, <3>2 DEF TypeOK, SelectKey, InCall
      <4>2. \A v \in InCall' : own'[v] \subseteq window[u]
        BY <1>0, <1>1, <2>2, <4>1 DEF TypeOK, SelectKey, CallsInv, InCall
      <4>3. QED
        BY <1>0, <1>1, <4>1, <4>2 DEF SelectKey, CallsInv
    <3>3. QED
      BY <3>1, <3>2
  <2>4. RecentlyAlive' /\ NilOnlyIfNoneSeen'
    BY <1>0, <1>1 DEF TypeOK, SelectKey, RecentlyAlive, NilOnlyIfNoneSeen
  <2>5. QED
    BY <2>1, <2>3, <2>4
<1>2. ASSUME NEW t \in Threads, Scan(t) PROVE IInv'
  <2>1. TypeOK'
    <3>1. call[t] \in Calls
      BY <1>0 DEF TypeOK
    <3>2. call'[t] \in Calls
      <4>1. call[t].next + 1 \in 1 .. NumBackends + 1
        BY <1>2, RingAssumption DEF Scan, Backends
      <4>2. call[t].list \cup ({call[t].next} \cap alive) \in SUBSET Backends
        BY <1>0, <3>1 DEF TypeOK, Calls
      <4>3. QED
        BY <1>0, <1>2, <3>1, <4>1, <4>2 DEF TypeOK, Scan, Calls
    <3>3. call' \in [Threads -> Calls]
      BY <1>0, <1>2, <3>2 DEF TypeOK, Scan
    <3>4. QED
      BY <1>0, <1>2, <3>3 DEF TypeOK, Scan
  <2>2. InCall' = InCall /\ t \in InCall
    BY <1>0, <1>2 DEF TypeOK, Scan, InCall
  <2>3. CallsInv'
    BY <1>0, <1>2, <2>2 DEF TypeOK, Scan, CallsInv, InCall
  <2>4. RecentlyAlive' /\ NilOnlyIfNoneSeen'
    BY <1>0, <1>2 DEF TypeOK, Scan, RecentlyAlive, NilOnlyIfNoneSeen
  <2>5. QED
    BY <2>1, <2>3, <2>4
<1>3. ASSUME NEW t \in Threads, Scanned(t) PROVE IInv'
  <2>1. TypeOK'
    <3>1. call[t] \in Calls
      BY <1>0 DEF TypeOK
    <3>2. call'[t] \in Calls
      BY <1>0, <1>3, <3>1 DEF TypeOK, Scanned, Calls, Places
    <3>3. call' \in [Threads -> Calls]
      BY <1>0, <1>3, <3>2 DEF TypeOK, Scanned
    <3>4. QED
      BY <1>0, <1>3, <3>3 DEF TypeOK, Scanned
  <2>2. InCall' \subseteq InCall
    BY <1>0, <1>3 DEF TypeOK, Scanned, InCall
  <2>3. CallsInv'
    BY <1>0, <1>3, <2>2 DEF TypeOK, Scanned, CallsInv, InCall
  <2>4. call[t].got = None
    BY <1>0, <1>3 DEF CallsInv, InCall, Scanned
  <2>5. RecentlyAlive' /\ NilOnlyIfNoneSeen'
    BY <1>0, <1>3, <2>4 DEF TypeOK, Scanned, RecentlyAlive, NilOnlyIfNoneSeen
  <2>6. QED
    BY <2>1, <2>3, <2>5
<1>4. ASSUME NEW t \in Threads, EnsureRing(t) PROVE IInv'
  <2>1. TypeOK'
    BY <1>0, <1>4 DEF TypeOK, EnsureRing, Calls, Places
  <2>2. InCall' = InCall /\ t \in InCall
    BY <1>0, <1>4 DEF TypeOK, EnsureRing, InCall
  <2>3. UpToDate(call[t].list) => nodes # {} /\ nodes \subseteq window[t]
    BY <1>0, <2>2 DEF UpToDate, CallsInv
  <2>4. CallsInv'
    BY <1>0, <1>4, <2>2, <2>3 DEF TypeOK, EnsureRing, CallsInv, InCall
  <2>5. RecentlyAlive' /\ NilOnlyIfNoneSeen'
    BY <1>0, <1>4 DEF TypeOK, EnsureRing, RecentlyAlive, NilOnlyIfNoneSeen
  <2>6. QED
    BY <2>1, <2>4, <2>5
<1>5. ASSUME NEW t \in Threads, BuildHashRing(t) PROVE IInv'
  <2>1. TypeOK'
    BY <1>0, <1>5 DEF TypeOK, BuildHashRing, Calls, Places
  <2>2. InCall' = InCall /\ t \in InCall
    BY <1>0, <1>5 DEF TypeOK, BuildHashRing, InCall
  <2>3. nodes' # {} /\ \A u \in InCall : nodes' \subseteq window[u]
    BY <1>0, <1>5, <2>2 DEF CallsInv, BuildHashRing
  <2>4. CallsInv'
    BY <1>0, <1>5, <2>2, <2>3 DEF TypeOK, BuildHashRing, CallsInv, InCall
  <2>5. RecentlyAlive' /\ NilOnlyIfNoneSeen'
    BY <1>0, <1>5 DEF TypeOK, BuildHashRing, RecentlyAlive, NilOnlyIfNoneSeen
  <2>6. QED
    BY <2>1, <2>4, <2>5
<1>6. ASSUME NEW t \in Threads, NEW h \in KeyHashes, Select(t, h) PROVE IInv'
  <2>1. TypeOK'
    <3>1. call[t] \in Calls
      BY <1>0 DEF TypeOK
    <3>2. call'[t] \in Calls
      <4>1. 1 \in 1 .. NumBackends + 1 /\ Key(h) \in ClientKeys
        BY RingAssumption DEF ClientKeys
      <4>2. QED
        BY <1>0, <1>6, <3>1, <4>1 DEF TypeOK, Select, Calls, Places
    <3>3. call' \in [Threads -> Calls]
      BY <1>0, <1>6, <3>2 DEF TypeOK, Select
    <3>4. QED
      BY <1>0, <1>6, <3>3 DEF TypeOK, Select
  <2>2. InCall' = InCall /\ t \in InCall
    BY <1>0, <1>6 DEF TypeOK, Select, InCall
  <2>3. CallsInv'
    BY <1>0, <1>6, <2>2 DEF TypeOK, Select, CallsInv, InCall
  <2>4. RecentlyAlive' /\ NilOnlyIfNoneSeen'
    BY <1>0, <1>6 DEF TypeOK, Select, RecentlyAlive, NilOnlyIfNoneSeen
  <2>5. QED
    BY <2>1, <2>3, <2>4
<1>7. ASSUME NEW t \in Threads, GetNode(t) PROVE IInv'
  <2>1. t \in InCall /\ nodes # {} /\ nodes \subseteq window[t]
    BY <1>0, <1>7 DEF CallsInv, InCall, GetNode
  <2>2. call[t].key.hash \in Nat
    BY <1>0, <1>7, RingAssumption
       DEF TypeOK, Calls, ClientKeys, GetNode, Key, NoKey
  <2>3. DOMAIN ring # {} /\ Lookup(ring, call[t].key.hash) \in nodes
    BY <1>0, <2>1, <2>2, LookupFinds, RingHasPoints DEF TypeOK
  <2>4. call'[t].got \in nodes /\ call'[t].pc = "done"
    BY <1>0, <1>7, <2>3 DEF TypeOK, GetNode
  <2>5. call'[t].got # None
    BY <1>0, <2>4 DEF TypeOK, None, Backends
  <2>6. TypeOK'
    <3>1. call[t] \in Calls
      BY <1>0 DEF TypeOK
    <3>2. call'[t] \in Calls
      BY <1>0, <1>7, <3>1, <2>3 DEF TypeOK, GetNode, Calls, Places
    <3>3. call' \in [Threads -> Calls]
      BY <1>0, <1>7, <3>2 DEF TypeOK, GetNode
    <3>4. QED
      BY <1>0, <1>7, <3>3 DEF TypeOK, GetNode
  <2>7. InCall' \subseteq InCall
    BY <1>0, <1>7 DEF TypeOK, GetNode, InCall
  <2>8. CallsInv'
    BY <1>0, <1>7, <2>7 DEF TypeOK, GetNode, CallsInv, InCall
  <2>9. RecentlyAlive' /\ NilOnlyIfNoneSeen'
    BY <1>0, <1>7, <2>1, <2>4, <2>5
       DEF TypeOK, GetNode, RecentlyAlive, NilOnlyIfNoneSeen
  <2>10. QED
    BY <2>6, <2>8, <2>9
<1>8. ASSUME NEW b \in Flapping, NEW v \in BOOLEAN, SetAlive(b, v) PROVE IInv'
  <2>1. TypeOK'
    BY <1>0, <1>8, RingAssumption DEF TypeOK, SetAlive
  <2>2. InCall' = InCall
    BY <1>8 DEF SetAlive, InCall
  <2>3. CallsInv'
    BY <1>0, <1>8, <2>2 DEF TypeOK, SetAlive, CallsInv, InCall
  <2>4. RecentlyAlive' /\ NilOnlyIfNoneSeen'
    BY <1>0, <1>8
       DEF TypeOK, SetAlive, RecentlyAlive, NilOnlyIfNoneSeen, InCall
  <2>5. QED
    BY <2>1, <2>3, <2>4
<1>9. CASE UNCHANGED vars
  BY <1>0, <1>9
     DEF vars, TypeOK, CallsInv, RecentlyAlive, NilOnlyIfNoneSeen, InCall
<1>10. QED
  BY <1>1, <1>2, <1>3, <1>4, <1>5, <1>6, <1>7, <1>8, <1>9 DEF Next

----------------------------------------------------------------------------
(* The theorems                                                            *)

\* IInv holds in every reachable state.
THEOREM Invariance == Spec => []IInv
  BY InitIInv, NextIInv, PTL DEF Spec

(***************************************************************************)
(* Every state of the ring is that of a set of backends of the pool: no    *)
(* goroutine ever sees positions of two scans mixed (consistent_hash.go:84)*)
(***************************************************************************)
THEOREM TypeCorrect == Spec => []TypeOK
  BY Invariance, PTL DEF IInv

(***************************************************************************)
(* No call, however its steps interleave with those of others and with     *)
(* changes of the flags, returns a backend that had been dead since before *)
(* the calls it overlapped began.                                          *)
(***************************************************************************)
THEOREM NoLongDeadBackend == Spec => []RecentlyAlive
  BY Invariance, PTL DEF IInv

(***************************************************************************)
(* A call that saw a healthy backend never returns nil, although others    *)
(* replace the ring before it is looked up.                                *)
(***************************************************************************)
THEOREM SomeBackendIfSeen == Spec => []NilOnlyIfNoneSeen
  BY Invariance, PTL DEF IInv

(***************************************************************************)
(* A rebuild moves a key only away from a backend that left or to one that *)
(* joined, for every pool and every placement of virtual nodes, colliding  *)
(* ones included.                                                          *)
(***************************************************************************)
THEOREM KeysStay == Spec => MinimalDisruption
<1>1. ASSUME TypeOK, TypeOK',
             NEW h \in KeyHashes, nodes # {}, nodes' # {},
             Lookup(ring, h) # Lookup(ring', h)
      PROVE  Lookup(ring, h) \notin nodes' \/ Lookup(ring', h) \notin nodes
  <2>1. /\ nodes \in SUBSET Backends /\ ring = BuildRing(nodes)
        /\ nodes' \in SUBSET Backends /\ ring' = BuildRing(nodes')
        /\ h \in Nat
    BY <1>1, RingAssumption DEF TypeOK
  <2>2. QED
    BY <1>1, <2>1, OwnersAgree
<1>2. TypeOK /\ TypeOK' =>
        [ \A h \in KeyHashes :
            nodes # {} /\ nodes' # {} /\ Lookup(ring, h) # Lookup(ring', h)
            => Lookup(ring, h) \notin nodes' \/ Lookup(ring', h) \notin nodes ]_vars
  BY <1>1
<1>3. QED
  BY <1>2, TypeCorrect, PTL DEF MinimalDisruption
=============================================================================
