---------------------------- MODULE ProxyProofs ----------------------------
(***************************************************************************)
(* The fallback between backends, the retries, the connection counts and   *)
(* the records of the net/http engine, for any number of requests,         *)
(* backends and retries and every setting of the breakers.                 *)
(***************************************************************************)
EXTENDS Proxy, FiniteSetTheorems, TLAPS

----------------------------------------------------------------------------
(* The local variables of a request                                        *)

\* The sets of the fields have names, so that a proof need not look at them.
Places == {"scan", "allow", "rescan", "unavailable", "forward", "attempt", "backoff",
           "returned", "answered"}
Selected == Backends \cup {None}
Indices == Nat \ {0}
Lists == SUBSET Backends
Flags == BOOLEAN

Calls ==
  [pc : Places, be : Selected, next : Indices, list : Lists, tries : Nat,
   idempotent : Flags, gone : Flags, result : Results, age : Int, records : Nat]

LEMMA CallTypes ==
  ASSUME NEW q \in Calls
  PROVE  /\ q.pc \in Places /\ q.be \in Backends \cup {None} /\ q.next \in Nat /\ q.next >= 1
         /\ q.list \subseteq Backends /\ q.tries \in Nat /\ q.idempotent \in BOOLEAN
         /\ q.result \in Results /\ q.age \in Int /\ q.records \in Nat
BY DEF Calls, Selected, Indices, Lists, Flags

LEMMA BlankFields ==
  ASSUME NEW place \in Places, NEW k \in Nat
  PROVE  /\ Blank(place, k) \in Calls
         /\ Blank(place, k).pc = place /\ Blank(place, k).next = 1
         /\ Blank(place, k).tries = 0 /\ Blank(place, k).records = k
         /\ Blank(place, k).age = Idle
<1>1. /\ None \in Selected /\ 1 \in Indices /\ {} \in Lists /\ FALSE \in Flags
      /\ "failed" \in Results /\ Idle \in Int /\ 0 \in Nat
  BY DEF Selected, Indices, Lists, Flags, Results, Failures, Idle
<1> QED  BY <1>1 DEF Blank, Calls

\* What the actions of request r do to it; the other requests stay as they are.
Alone(r) == req' \in [Requests -> Calls] /\ \A q \in Requests \ {r} : req'[q] = req[q]

Same(e, q) ==
  /\ e.be = q.be /\ e.age = q.age /\ e.idempotent = q.idempotent
  /\ e.result = q.result /\ e.records = q.records

LEMMA ArriveFields ==
  ASSUME req \in [Requests -> Calls], NEW r \in Requests, NEW i \in BOOLEAN, Arrive(r, i)
  PROVE  LET e == req'[r] IN
         /\ Alone(r) /\ e.pc = "scan" /\ e.next = 1 /\ e.tries = 0 /\ e.records = 0
         /\ e.age = Idle
<1> DEFINE q == Blank("scan", 0)
           e == [q EXCEPT !.idempotent = i]
<1>1. "scan" \in Places /\ 0 \in Nat /\ i \in Flags  BY DEF Places, Flags
<1>2. /\ q \in Calls /\ q.pc = "scan" /\ q.next = 1 /\ q.tries = 0 /\ q.records = 0
      /\ q.age = Idle
  BY <1>1, BlankFields
<1>3. req' = [req EXCEPT ![r] = e]
  BY DEF Arrive
<1> HIDE DEF q
<1>4. /\ e \in Calls /\ e.pc = "scan" /\ e.next = 1 /\ e.tries = 0 /\ e.records = 0
      /\ e.age = Idle
  BY <1>1, <1>2 DEF Calls
<1> HIDE DEF e
<1> QED  BY <1>3, <1>4 DEF Alone

LEMMA ScanFields ==
  ASSUME req \in [Requests -> Calls], alive \in SUBSET Backends, NEW r \in Requests, Scan(r)
  PROVE  LET e == req'[r] IN
         /\ Alone(r) /\ Same(e, req[r]) /\ e.pc = req[r].pc /\ e.tries = req[r].tries
         /\ e.next = req[r].next + 1 /\ e.list = req[r].list \cup ({req[r].next} \cap alive)
<1> DEFINE l == req[r].list \cup ({req[r].next} \cap alive)
           n == req[r].next + 1
<1>0. req[r] \in Calls  OBVIOUS
<1>1. l \in Lists /\ n \in Indices
  BY <1>0, CallTypes DEF Lists, Indices
<1>2. req' = [req EXCEPT ![r].next = n, ![r].list = l]
  BY DEF Scan
<1> HIDE DEF l, n
<1>3. Alone(r) /\ Same(req'[r], req[r]) /\ req'[r].pc = req[r].pc
      /\ req'[r].tries = req[r].tries /\ req'[r].next = n /\ req'[r].list = l
  BY <1>0, <1>1, <1>2 DEF Alone, Same, Calls
<1> QED  BY <1>3 DEF l, n

LEMMA SelectFields ==
  ASSUME req \in [Requests -> Calls], NEW r \in Requests, Select(r)
  PROVE  LET e == req'[r] IN
         /\ Alone(r) /\ e.pc = "allow" /\ e.be \in Backends /\ e.tries = req[r].tries
         /\ e.idempotent = req[r].idempotent /\ e.records = req[r].records
         /\ e.age = req[r].age
<1>1. PICK b \in Backends :
        req' = [req EXCEPT ![r].pc = "allow", ![r].be = b, ![r].list = {}]
  BY DEF Select
<1>2. b \in Selected /\ "allow" \in Places /\ {} \in Lists
  BY DEF Selected, Places, Lists
<1> DEFINE q == req[r]
           e == [q EXCEPT !.pc = "allow", !.be = b, !.list = {}]
<1>3. req' = [req EXCEPT ![r] = e] /\ q \in Calls
  BY <1>1
<1> HIDE DEF q
<1>4. /\ e \in Calls /\ e.pc = "allow" /\ e.be = b /\ e.tries = q.tries
      /\ e.idempotent = q.idempotent /\ e.records = q.records /\ e.age = q.age
  BY <1>2, <1>3 DEF Calls
<1> HIDE DEF e
<1> QED  BY <1>3, <1>4 DEF Alone, q

LEMMA AdmitFields ==
  ASSUME req \in [Requests -> Calls], NEW r \in Requests, NEW b \in Backends, Admit(r, b)
  PROVE  LET e == req'[r] IN
         /\ Alone(r) /\ e.pc = "forward" /\ e.be = b /\ e.tries = req[r].tries
         /\ e.idempotent = req[r].idempotent /\ e.records = req[r].records
         /\ e.age = 0
<1>1. b \in Selected /\ "forward" \in Places /\ {} \in Lists /\ 0 \in Int
  BY DEF Selected, Places, Lists
<1> DEFINE q == req[r]
           e == [q EXCEPT !.pc = "forward", !.be = b, !.age = 0, !.list = {}]
<1>2. req' = [req EXCEPT ![r] = e] /\ q \in Calls
  BY DEF Admit
<1> HIDE DEF q
<1>3. /\ e \in Calls /\ e.pc = "forward" /\ e.be = b /\ e.tries = q.tries
      /\ e.idempotent = q.idempotent /\ e.records = q.records /\ e.age = 0
  BY <1>1, <1>2 DEF Calls
<1> HIDE DEF e
<1> QED  BY <1>2, <1>3 DEF Alone, q

LEMMA RefuseFields ==
  ASSUME req \in [Requests -> Calls], NEW r \in Requests
  PROVE  LET e == req'[r] IN
         /\ RefuseSelected(r) =>
              /\ Alone(r) /\ Same(e, req[r]) /\ e.pc = "rescan" /\ e.next = 1
              /\ e.tries = req[r].tries
         /\ RefuseAlternative(r) =>
              /\ Alone(r) /\ Same(e, req[r]) /\ e.pc = req[r].pc /\ e.next = req[r].next
              /\ e.tries = req[r].tries
              /\ e.list = req[r].list \ {Min(Alternatives(r))}
<1>0. req[r] \in Calls  OBVIOUS
<1>1. ASSUME RefuseSelected(r)
      PROVE  /\ Alone(r) /\ Same(req'[r], req[r]) /\ req'[r].pc = "rescan" /\ req'[r].next = 1
             /\ req'[r].tries = req[r].tries
  <2>1. "rescan" \in Places /\ 1 \in Indices
    BY DEF Places, Indices
  <2>2. req' = [req EXCEPT ![r].pc = "rescan", ![r].next = 1]
    BY <1>1 DEF RefuseSelected
  <2> QED  BY <1>0, <2>1, <2>2 DEF Alone, Same, Calls
<1>2. ASSUME RefuseAlternative(r)
      PROVE  /\ Alone(r) /\ Same(req'[r], req[r]) /\ req'[r].pc = req[r].pc
             /\ req'[r].next = req[r].next /\ req'[r].tries = req[r].tries
             /\ req'[r].list = req[r].list \ {Min(Alternatives(r))}
  <2> DEFINE l == req[r].list \ {Min(Alternatives(r))}
  <2>1. l \in Lists
    BY <1>0, CallTypes DEF Lists
  <2>2. req' = [req EXCEPT ![r].list = l]
    BY <1>2 DEF RefuseAlternative
  <2> HIDE DEF l
  <2>3. /\ Alone(r) /\ Same(req'[r], req[r]) /\ req'[r].pc = req[r].pc
        /\ req'[r].next = req[r].next /\ req'[r].tries = req[r].tries /\ req'[r].list = l
    BY <1>0, <2>1, <2>2 DEF Alone, Same, Calls
  <2> QED  BY <2>3 DEF l
<1> QED  BY <1>1, <1>2

\* The end of a request, and its return to the reverse proxy.
LEMMA EndFields ==
  ASSUME req \in [Requests -> Calls], NEW r \in Requests, NEW place \in Places, NEW k \in Nat,
         req' = [req EXCEPT ![r] = Blank(place, k)]
  PROVE  LET e == req'[r] IN
         Alone(r) /\ e.pc = place /\ e.tries = 0 /\ e.records = k
BY BlankFields DEF Alone

LEMMA EndAge ==
  ASSUME req \in [Requests -> Calls], NEW r \in Requests, NEW place \in Places, NEW k \in Nat,
         req' = [req EXCEPT ![r] = Blank(place, k)]
  PROVE  Alone(r) /\ req'[r].pc = place /\ req'[r].age = Idle
BY BlankFields DEF Alone

LEMMA ReturnFields ==
  ASSUME req \in [Requests -> Calls], NEW r \in Requests, NEW result \in Results,
         Return(r, result)
  PROVE  LET e == req'[r] IN
         /\ Alone(r) /\ e.pc = "returned" /\ e.be = req[r].be /\ e.result = result
         /\ e.tries = 0 /\ e.records = req[r].records + 1 /\ e.age = req[r].age
<1>0. req[r] \in Calls  OBVIOUS
<1>1. "returned" \in Places /\ req[r].records + 1 \in Nat
  BY <1>0, CallTypes DEF Places
<1> DEFINE q == Blank("returned", req[r].records + 1)
           e == [q EXCEPT !.be = req[r].be, !.age = req[r].age, !.result = result]
<1>2. q \in Calls /\ q.pc = "returned" /\ q.tries = 0 /\ q.records = req[r].records + 1
  BY <1>1, BlankFields
<1>3. req' = [req EXCEPT ![r] = e]
  BY DEF Return, RecordRequest
<1> HIDE DEF q
<1>4. /\ e \in Calls /\ e.pc = "returned" /\ e.be = req[r].be /\ e.result = result
      /\ e.tries = 0 /\ e.records = req[r].records + 1 /\ e.age = req[r].age
  BY <1>0, <1>2 DEF Calls
<1> HIDE DEF e
<1> QED  BY <1>3, <1>4 DEF Alone

LEMMA AttemptFields ==
  ASSUME req \in [Requests -> Calls], NEW r \in Requests
  PROVE  LET e == req'[r] IN
         /\ StartRoundTrip(r) =>
              Alone(r) /\ Same(e, req[r]) /\ e.pc = "attempt" /\ e.tries = 1
         /\ \A result \in Results : AttemptAgain(r, result) =>
              Alone(r) /\ Same(e, req[r]) /\ e.pc = "backoff" /\ e.tries = req[r].tries
         /\ Retry(r) =>
              Alone(r) /\ Same(e, req[r]) /\ e.pc = "attempt" /\ e.tries = req[r].tries + 1
         /\ Disconnect(r) =>
              Alone(r) /\ Same(e, req[r]) /\ e.pc = req[r].pc /\ e.tries = req[r].tries
<1>0. req[r] \in Calls /\ req[r].tries + 1 \in Nat
  BY CallTypes
<1>1. "attempt" \in Places /\ "backoff" \in Places /\ TRUE \in Flags /\ 1 \in Nat
  BY DEF Places, Flags
<1>2. ASSUME StartRoundTrip(r)
      PROVE  Alone(r) /\ Same(req'[r], req[r]) /\ req'[r].pc = "attempt" /\ req'[r].tries = 1
  <2>1. req' = [req EXCEPT ![r].pc = "attempt", ![r].tries = 1]
    BY <1>2 DEF StartRoundTrip
  <2> QED  BY <1>0, <1>1, <2>1 DEF Alone, Same, Calls
<1>3. ASSUME NEW result \in Results, AttemptAgain(r, result)
      PROVE  /\ Alone(r) /\ Same(req'[r], req[r]) /\ req'[r].pc = "backoff"
             /\ req'[r].tries = req[r].tries
  <2>1. req' = [req EXCEPT ![r].pc = "backoff"]
    BY <1>3 DEF AttemptAgain
  <2> QED  BY <1>0, <1>1, <2>1 DEF Alone, Same, Calls
<1>4. ASSUME Retry(r)
      PROVE  /\ Alone(r) /\ Same(req'[r], req[r]) /\ req'[r].pc = "attempt"
             /\ req'[r].tries = req[r].tries + 1
  <2> DEFINE n == req[r].tries + 1
  <2>1. req' = [req EXCEPT ![r].pc = "attempt", ![r].tries = n] /\ n \in Nat
    BY <1>0, <1>4 DEF Retry, Counted
  <2> HIDE DEF n
  <2>2. Alone(r) /\ Same(req'[r], req[r]) /\ req'[r].pc = "attempt" /\ req'[r].tries = n
    BY <1>0, <1>1, <2>1 DEF Alone, Same, Calls
  <2> QED  BY <2>2 DEF n
<1>5. ASSUME Disconnect(r)
      PROVE  /\ Alone(r) /\ Same(req'[r], req[r]) /\ req'[r].pc = req[r].pc
             /\ req'[r].tries = req[r].tries
  <2>1. req' = [req EXCEPT ![r].gone = TRUE]
    BY <1>5 DEF Disconnect
  <2> QED  BY <1>0, <1>1, <2>1 DEF Alone, Same, Calls
<1> QED  BY <1>2, <1>3, <1>4, <1>5

----------------------------------------------------------------------------
(* The invariant                                                           *)

\* A request alone: it waits for a retry only if it may be repeated, and it
\* is recorded when RoundTrip returns and not before.
Fine(q) ==
  /\ q.pc \in {"allow", "rescan", "forward", "attempt", "backoff", "returned"} => q.be \in Backends
  /\ q.tries > 1 => q.idempotent
  /\ q.pc = "backoff" => q.idempotent
  /\ q.pc \notin Ended => q.records = IF q.pc = "returned" THEN 1 ELSE 0

(***************************************************************************)
(* The argument for NoNeedless503: of the backends that were available all *)
(* the time, those that the scan has passed are on the list, the selected  *)
(* one is not among them once its breaker has refused, and a breaker that  *)
(* refuses removes its backend from both.                                  *)
(***************************************************************************)
Untried(q, S) ==
  /\ q.pc \in {"scan", "rescan"} => \A b \in S : b < q.next => b \in q.list
  /\ q.pc = "rescan" => q.be \notin S
  /\ q.pc = "unavailable" => S = {}

Shape ==
  /\ alive \in SUBSET Backends /\ DOMAIN cb = Backends
  /\ conns \in [Backends -> Int] /\ req \in [Requests -> Calls]
  /\ \A r \in Requests : steady[r] \subseteq Backends

IInv ==
  /\ Shape /\ ConnsExact
  /\ \A r \in Requests : Fine(req[r]) /\ Untried(req[r], steady[r])

----------------------------------------------------------------------------
(* Facts about the steps                                                   *)

\* The breaker of a backend that refuses is not closed.
LEMMA RefusedNotClosed ==
  ASSUME NEW c, ~Admits(c)
  PROVE  Reject(c).state # StateClosed
<1>1. c.state # StateClosed
  BY DEF Admits, currentState, StateClosed, StateOpen, StateHalfOpen
<1> QED  BY <1>1 DEF Reject, currentStateEffect, WindowOver

\* What was available all the time becomes less with every step.
LEMMA WatchShrinks ==
  ASSUME Shape, NEW new, Watch(new), NEW r \in Requests
  PROVE  /\ r \notin new => steady'[r] \subseteq steady[r]
         /\ steady'[r] \subseteq Backends
         /\ \A b \in steady'[r] : b \in alive' /\ cb'[b].state = StateClosed
BY DEF Watch, Shape

LEMMA UntriedShrinks ==
  ASSUME NEW q, NEW S, NEW T, Untried(q, S), T \subseteq S
  PROVE  Untried(q, T)
BY DEF Untried

LEMMA BreakerDomain ==
  ASSUME Shape, NEW b, NEW new, NEW S, SetBreaker(b, new, S)
  PROVE  /\ DOMAIN cb' = Backends
         /\ b \in Backends => cb'[b] = new
BY DEF SetBreaker, Shape

LEMMA LeastAlternative ==
  ASSUME Shape, NEW r \in Requests, Alternatives(r) # {}
  PROVE  Min(Alternatives(r)) \in Alternatives(r) /\ Min(Alternatives(r)) \in Backends
<1> DEFINE R == {ss \in Nat \X Nat : ss[1] < ss[2]}
           A == Alternatives(r)
<1>1. A \subseteq Backends
  BY CallTypes DEF Shape, Alternatives
<1>2. A \subseteq Nat
  BY <1>1, ProxyAssumption DEF Backends
<1>3. IsWellFoundedOn(R, Nat)
  BY NatLessThanWellFounded DEF OpToRel
<1> HIDE DEF A
<1>4. PICK m \in A : \A n \in A : ~(<<n, m>> \in R)
  BY <1>2, <1>3, WFMin DEF A
<1>5. ASSUME NEW n \in A PROVE m <= n
  <2>1. m \in Nat /\ n \in Nat /\ ~(<<n, m>> \in R)
    BY <1>2, <1>4
  <2>2. <<n, m>> \in Nat \X Nat /\ <<n, m>>[1] = n /\ <<n, m>>[2] = m
    BY <2>1
  <2> QED  BY <2>1, <2>2
<1>6. Min(A) \in A
  BY <1>5 DEF Min
<1> QED  BY <1>1, <1>6 DEF A

\* The requests that hold a connection of b.
Connected(q, b) == q.be = b /\ q.pc \in {"attempt", "backoff"}

LEMMA Connections ==
  ASSUME NEW b
  PROVE  /\ IsFiniteSet({r \in Requests : Connected(req[r], b)})
         /\ Cardinality({r \in Requests : Connected(req[r], b)}) \in Nat
<1>1. {r \in Requests : Connected(req[r], b)} \subseteq Requests
  OBVIOUS
<1>2. IsFiniteSet({r \in Requests : Connected(req[r], b)})
  BY <1>1, ProxyAssumption, FS_Subset
<1> QED  BY <1>2, FS_CardinalityType

LEMMA ConnsExactMeans ==
  /\ ConnsExact <=> \A b \in Backends :
       conns[b] = Cardinality({r \in Requests : Connected(req[r], b)})
  /\ ConnsExact' <=> \A b \in Backends :
       conns'[b] = Cardinality({r \in Requests : Connected(req'[r], b)})
BY DEF ConnsExact, Connected

LEMMA ConnsKept ==
  ASSUME ConnsExact, NEW r \in Requests, \A q \in Requests \ {r} : req'[q] = req[q],
         conns' = conns, \A b \in Backends : Connected(req'[r], b) <=> Connected(req[r], b)
  PROVE  ConnsExact'
<1>1. ASSUME NEW b \in Backends
      PROVE  {q \in Requests : Connected(req'[q], b)} = {q \in Requests : Connected(req[q], b)}
  OBVIOUS
<1> QED  BY <1>1, ConnsExactMeans

LEMMA ConnsUp ==
  ASSUME Shape, ConnsExact, NEW r \in Requests, Alone(r), NEW b \in Backends,
         conns' = [conns EXCEPT ![b] = @ + 1],
         \A c \in Backends : ~Connected(req[r], c) /\ (Connected(req'[r], c) <=> c = b)
  PROVE  ConnsExact'
<1>1. ASSUME NEW c \in Backends
      PROVE  conns'[c] = Cardinality({q \in Requests : Connected(req'[q], c)})
  <2> DEFINE S == {q \in Requests : Connected(req[q], c)}
             T == {q \in Requests : Connected(req'[q], c)}
  <2>1. T = IF c = b THEN S \cup {r} ELSE S
    BY DEF Alone
  <2>2. IsFiniteSet(S) /\ r \notin S /\ Cardinality(S) \in Nat /\ conns[c] = Cardinality(S)
    BY Connections, ConnsExactMeans
  <2>3. conns'[c] = IF c = b THEN conns[c] + 1 ELSE conns[c]
    BY DEF Shape
  <2> HIDE DEF S, T
  <2>4. CASE c = b
    <3>1. Cardinality(S \cup {r}) = Cardinality(S) + 1
      BY <2>2, FS_AddElement
    <3> QED  BY <2>1, <2>2, <2>3, <2>4, <3>1 DEF T
  <2>5. CASE c # b
    BY <2>1, <2>2, <2>3, <2>5 DEF T
  <2> QED  BY <2>4, <2>5
<1> QED  BY <1>1, ConnsExactMeans

LEMMA ConnsDown ==
  ASSUME Shape, ConnsExact, NEW r \in Requests, Alone(r), NEW b \in Backends,
         conns' = [conns EXCEPT ![b] = @ - 1],
         \A c \in Backends : ~Connected(req'[r], c) /\ (Connected(req[r], c) <=> c = b)
  PROVE  ConnsExact'
<1>1. ASSUME NEW c \in Backends
      PROVE  conns'[c] = Cardinality({q \in Requests : Connected(req'[q], c)})
  <2> DEFINE S == {q \in Requests : Connected(req[q], c)}
             T == {q \in Requests : Connected(req'[q], c)}
  <2>1. T = IF c = b THEN S \ {r} ELSE S
    BY DEF Alone
  <2>2. IsFiniteSet(S) /\ Cardinality(S) \in Nat /\ conns[c] = Cardinality(S)
    BY Connections, ConnsExactMeans
  <2>3. c = b => r \in S
    OBVIOUS
  <2>4. conns'[c] = IF c = b THEN conns[c] - 1 ELSE conns[c]
    BY DEF Shape
  <2> HIDE DEF S, T
  <2>5. CASE c = b
    <3>1. Cardinality(S \ {r}) = Cardinality(S) - 1
      BY <2>2, <2>3, <2>5, FS_RemoveElement
    <3> QED  BY <2>1, <2>2, <2>4, <2>5, <3>1 DEF T
  <2>6. CASE c # b
    BY <2>1, <2>2, <2>4, <2>6 DEF T
  <2> QED  BY <2>5, <2>6
<1> QED  BY <1>1, ConnsExactMeans

\* A step of one request that keeps the invariant for that request.
LEMMA RequestStep ==
  ASSUME IInv, NEW r \in Requests, Alone(r), Fine(req'[r]), NEW new \in SUBSET {r}, Watch(new),
         Untried(req'[r], steady'[r]), alive' \in SUBSET Backends, DOMAIN cb' = Backends,
         conns' \in [Backends -> Int], ConnsExact'
  PROVE  IInv'
<1>1. \A q \in Requests : steady'[q] \subseteq Backends
  BY WatchShrinks DEF IInv
<1>2. Shape'
  BY <1>1 DEF Alone, Shape
<1>3. ASSUME NEW q \in Requests PROVE Fine(req'[q]) /\ Untried(req'[q], steady'[q])
  <2>1. CASE q = r
    BY <2>1
  <2>2. CASE q # r
    <3>1. req'[q] = req[q]
      BY <2>2 DEF Alone
    <3>2. Shape /\ q \notin new
      BY <2>2 DEF IInv
    <3>3. steady'[q] \subseteq steady[q]
      BY <3>2, WatchShrinks
    <3>4. Fine(req[q]) /\ Untried(req[q], steady[q])
      BY DEF IInv
    <3> QED  BY <3>1, <3>3, <3>4, UntriedShrinks
  <2> QED  BY <2>1, <2>2
<1>4. \A q \in Requests : Fine(req[q])' /\ Untried(req[q], steady[q])'
  BY <1>3 DEF Fine, Untried
<1> QED  BY <1>2, <1>4 DEF IInv

----------------------------------------------------------------------------
(* The actions keep the invariant                                          *)

LEMMA InitInv == Init => IInv
<1> SUFFICES ASSUME Init PROVE IInv  OBVIOUS
<1>1. "answered" \in Places /\ 1 \in Nat  BY DEF Places
<1>2. \A r \in Requests : req[r] = Blank("answered", 1) /\ steady[r] = {}
  BY DEF Init
<1>3. \A r \in Requests : req[r] \in Calls /\ req[r].pc = "answered" /\ req[r].tries = 0
  BY <1>1, <1>2, BlankFields
<1>4. Shape
  BY <1>2, <1>3 DEF Shape, Init
<1>5. \A b \in Backends : {r \in Requests : Connected(req[r], b)} = {} /\ conns[b] = 0
  BY <1>3 DEF Connected, Init
<1>6. ConnsExact
  BY <1>5, FS_EmptySet, ConnsExactMeans
<1>7. \A r \in Requests : Fine(req[r]) /\ Untried(req[r], steady[r])
  BY <1>3 DEF Fine, Untried, Ended
<1> QED  BY <1>4, <1>6, <1>7 DEF IInv

LEMMA SelectionKeeps ==
  ASSUME IInv, NEW r \in Requests,
         \/ \E i \in BOOLEAN : Arrive(r, i)
         \/ Scan(r) \/ Select(r) \/ AllowSelected(r) \/ RefuseSelected(r)
         \/ AllowAlternative(r) \/ RefuseAlternative(r) \/ Unavailable(r)
  PROVE  IInv'
<1> DEFINE q == req[r]
<1>0. /\ Shape /\ ConnsExact /\ req \in [Requests -> Calls] /\ q \in Calls
      /\ alive \in SUBSET Backends /\ DOMAIN cb = Backends /\ conns \in [Backends -> Int]
      /\ Fine(q) /\ Untried(q, steady[r])
  BY DEF IInv, Shape
<1>1. ASSUME NEW i \in BOOLEAN, Arrive(r, i) PROVE IInv'
  <2>1. LET e == req'[r] IN
        /\ Alone(r) /\ e.pc = "scan" /\ e.next = 1 /\ e.tries = 0 /\ e.records = 0
    BY <1>0, <1>1, ArriveFields
  <2>2. Fine(req'[r])
    BY <2>1 DEF Fine, Ended
  <2>3. Watch({r}) /\ UNCHANGED <<alive, cb, conns>>
    BY <1>1 DEF Arrive
  <2>4. steady'[r] \subseteq Backends
    BY <1>0, <2>3, WatchShrinks
  <2>5. Untried(req'[r], steady'[r])
    <3>1. \A b \in steady'[r] : b \in Nat /\ b >= 1
      BY <2>4, ProxyAssumption DEF Backends
    <3> QED  BY <2>1, <3>1 DEF Untried
  <2>6. ConnsExact'
    BY <1>0, <1>1, <2>1, <2>3, ConnsKept DEF Alone, Arrive, Connected, Ended
  <2>7. {r} \in SUBSET {r}  OBVIOUS
  <2> QED  BY <1>0, <2>1, <2>2, <2>3, <2>5, <2>6, <2>7, RequestStep
\* The rest of the selection: steps of r outside of the connections.
<1>2. ASSUME Alone(r), Fine(req'[r]), Watch({}), Untried(req'[r], steady'[r]),
             DOMAIN cb' = Backends, UNCHANGED <<alive, conns>>,
             q.pc \in {"scan", "allow", "rescan"}, req'[r].pc \notin {"attempt", "backoff"}
      PROVE  IInv'
  <2>1. ConnsExact'
    BY <1>0, <1>2, ConnsKept DEF Alone, Connected
  <2>2. {} \in SUBSET {r}  OBVIOUS
  <2> QED  BY <1>0, <1>2, <2>1, <2>2, RequestStep
<1>3. Watch({}) => /\ steady'[r] \subseteq steady[r] /\ steady'[r] \subseteq Backends
                   /\ \A b \in steady'[r] : b \in alive' /\ cb'[b].state = StateClosed
  BY <1>0, WatchShrinks
<1>4. CASE Scan(r)
  <2>1. LET e == req'[r] IN
        /\ Alone(r) /\ Same(e, q) /\ e.pc = q.pc /\ e.tries = q.tries
        /\ e.next = q.next + 1 /\ e.list = q.list \cup ({q.next} \cap alive)
    BY <1>0, <1>4, ScanFields
  <2>2. /\ q.pc \in {"scan", "rescan"} /\ q.next \in Backends
        /\ Watch({}) /\ UNCHANGED <<alive, cb, conns>>
    BY <1>4 DEF Scan
  <2>3. Fine(req'[r])
    BY <1>0, <2>1, <2>2 DEF Fine, Same
  <2>4. ASSUME NEW b \in steady'[r], b < q.next + 1
        PROVE  b \in q.list \cup ({q.next} \cap alive)
    <3>1. b \in steady[r] /\ b \in Backends /\ b \in alive
      BY <1>3, <2>2, <2>4
    <3>2. b \in Nat /\ q.next \in Nat
      BY <2>2, <3>1, ProxyAssumption DEF Backends
    <3>3. CASE b < q.next
      BY <1>0, <2>2, <3>1, <3>3 DEF Untried
    <3>4. CASE b = q.next
      BY <3>1, <3>4
    <3> QED  BY <2>4, <3>2, <3>3, <3>4
  <2>5. Untried(req'[r], steady'[r])
    <3>1. q.pc = "rescan" => q.be \notin steady'[r]
      BY <1>0, <1>3, <2>2 DEF Untried
    <3> QED  BY <2>1, <2>2, <2>4, <3>1 DEF Untried, Same
  <2> QED  BY <1>0, <1>2, <2>1, <2>2, <2>3, <2>5
<1>5. CASE Select(r)
  <2>1. LET e == req'[r] IN
        /\ Alone(r) /\ e.pc = "allow" /\ e.be \in Backends /\ e.tries = q.tries
        /\ e.idempotent = q.idempotent /\ e.records = q.records
    BY <1>0, <1>5, SelectFields
  <2>2. q.pc = "scan" /\ Watch({}) /\ UNCHANGED <<alive, cb, conns>>
    BY <1>5 DEF Select
  <2>3. Fine(req'[r]) /\ Untried(req'[r], steady'[r])
    BY <1>0, <2>1, <2>2 DEF Fine, Untried, Ended
  <2> QED  BY <1>0, <1>2, <2>1, <2>2, <2>3
<1>6. ASSUME NEW b \in Backends, Admit(r, b), q.pc \in {"allow", "rescan"}, Watch({}),
             UNCHANGED <<alive, conns>>
      PROVE  IInv'
  <2>1. LET e == req'[r] IN
        /\ Alone(r) /\ e.pc = "forward" /\ e.be = b /\ e.tries = q.tries
        /\ e.idempotent = q.idempotent /\ e.records = q.records
    BY <1>0, <1>6, AdmitFields
  <2>2. Fine(req'[r]) /\ Untried(req'[r], steady'[r])
    BY <1>0, <1>6, <2>1 DEF Fine, Untried, Ended
  <2>3. DOMAIN cb' = Backends
    BY <1>0, <1>6, BreakerDomain DEF Admit
  <2> QED  BY <1>2, <1>6, <2>1, <2>2, <2>3
<1>7. CASE AllowSelected(r)
  BY <1>0, <1>6, <1>7 DEF AllowSelected, Fine
<1>8. CASE AllowAlternative(r)
  BY <1>0, <1>6, <1>8, LeastAlternative DEF AllowAlternative
<1>9. CASE RefuseSelected(r)
  <2>1. LET e == req'[r] IN
        Alone(r) /\ Same(e, q) /\ e.pc = "rescan" /\ e.next = 1 /\ e.tries = q.tries
    BY <1>0, <1>9, RefuseFields
  <2>2. /\ q.pc = "allow" /\ Watch({}) /\ UNCHANGED <<alive, conns>> /\ ~Admits(cb[q.be])
        /\ SetBreaker(q.be, Reject(cb[q.be]), fresh[q.be])
    BY <1>9 DEF RefuseSelected
  <2>3. q.be \in Backends
    BY <1>0, <2>2 DEF Fine
  <2>4. DOMAIN cb' = Backends /\ cb'[q.be] = Reject(cb[q.be])
    BY <1>0, <2>2, <2>3, BreakerDomain
  <2>5. q.be \notin steady'[r]
    BY <1>3, <2>2, <2>4, RefusedNotClosed
  <2>6. \A b \in steady'[r] : b \in Nat /\ b >= 1
    BY <1>3, <2>2, ProxyAssumption DEF Backends
  <2>7. Fine(req'[r]) /\ Untried(req'[r], steady'[r])
    BY <1>0, <2>1, <2>2, <2>3, <2>5, <2>6 DEF Fine, Untried, Same, Ended
  <2> QED  BY <1>2, <2>1, <2>2, <2>4, <2>7
<1>10. CASE RefuseAlternative(r)
  <2> DEFINE m == Min(Alternatives(r))
  <2>1. LET e == req'[r] IN
        /\ Alone(r) /\ Same(e, q) /\ e.pc = q.pc /\ e.next = q.next /\ e.tries = q.tries
        /\ e.list = q.list \ {m}
    BY <1>0, <1>10, RefuseFields
  <2>2. /\ q.pc = "rescan" /\ Watch({}) /\ UNCHANGED <<alive, conns>> /\ ~Admits(cb[m])
        /\ SetBreaker(m, Reject(cb[m]), fresh[m]) /\ Alternatives(r) # {}
    BY <1>10 DEF RefuseAlternative
  <2>3. m \in Backends
    BY <1>0, <2>2, LeastAlternative
  <2> HIDE DEF m
  <2>4. DOMAIN cb' = Backends /\ cb'[m] = Reject(cb[m])
    BY <1>0, <2>2, <2>3, BreakerDomain
  <2>5. m \notin steady'[r]
    BY <1>3, <2>2, <2>4, RefusedNotClosed
  <2>6. Untried(req'[r], steady'[r])
    BY <1>0, <1>3, <2>1, <2>2, <2>5 DEF Untried, Same
  <2>7. Fine(req'[r])
    BY <1>0, <2>1, <2>2 DEF Fine, Same
  <2> QED  BY <1>2, <2>1, <2>2, <2>4, <2>6, <2>7
<1>11. CASE Unavailable(r)
  <2>1. q.pc \in {"scan", "rescan"} /\ q.next \notin Backends /\ Watch({})
        /\ UNCHANGED <<alive, cb, conns>>
    BY <1>11 DEF Unavailable, Scanned
  <2>2. q.list = {} \/ (q.pc = "rescan" /\ q.list \ {q.be} = {})
    BY <1>11 DEF Unavailable, Alternatives
  <2>3. \A b \in steady[r] : b < q.next
    <3>1. q.next \in Nat /\ q.next >= 1
      BY <1>0, CallTypes
    <3>2. q.next > NumBackends
      BY <2>1, <3>1, ProxyAssumption DEF Backends
    <3>3. steady[r] \subseteq Backends
      BY <1>0 DEF Shape
    <3> QED  BY <3>1, <3>2, <3>3, ProxyAssumption DEF Backends
  <2>4. steady[r] = {}
    BY <1>0, <2>1, <2>2, <2>3 DEF Untried
  <2>5. "unavailable" \in Places /\ q.records + 1 \in Nat
    BY <1>0, CallTypes DEF Places
  <2>6. req' = [req EXCEPT ![r] = Blank("unavailable", q.records + 1)]
    BY <1>11 DEF Unavailable
  <2>7. Alone(r) /\ req'[r].pc = "unavailable" /\ req'[r].tries = 0
    BY <1>0, <2>5, <2>6, EndFields
  <2>8. Fine(req'[r]) /\ Untried(req'[r], steady'[r])
    BY <1>3, <2>1, <2>4, <2>7 DEF Fine, Untried, Ended
  <2> QED  BY <1>0, <1>2, <2>1, <2>7, <2>8
<1> QED
  BY <1>1, <1>4, <1>5, <1>7, <1>8, <1>9, <1>10, <1>11

\* A step between the admission and the end of the request: it is no longer
\* selecting, and what was available to it no longer matters.
LEMMA ForwardStep ==
  ASSUME IInv, NEW r \in Requests, Alone(r), Fine(req'[r]), Watch({}), alive' = alive,
         DOMAIN cb' = Backends, conns' \in [Backends -> Int], ConnsExact',
         req'[r].pc \in {"attempt", "backoff", "returned", "answered"}
  PROVE  IInv'
<1>1. Untried(req'[r], steady'[r])
  BY DEF Untried
<1>2. {} \in SUBSET {r} /\ alive' \in SUBSET Backends
  BY DEF IInv, Shape
<1> QED  BY <1>1, <1>2, RequestStep

LEMMA RoundTripKeeps ==
  ASSUME IInv, NEW r \in Requests,
         \/ StartRoundTrip(r) \/ Retry(r) \/ Cancelled(r) \/ Disconnect(r)
         \/ \E result \in Results :
              \/ Attempt(r, result) \/ AttemptAgain(r, result)
              \/ AttemptsExhausted(r, result)
  PROVE  IInv'
<1> DEFINE q == req[r]
<1>0. /\ Shape /\ ConnsExact /\ req \in [Requests -> Calls] /\ q \in Calls
      /\ DOMAIN cb = Backends /\ conns \in [Backends -> Int] /\ Fine(q)
  BY DEF IInv, Shape
<1>1. CASE StartRoundTrip(r)
  <2>1. Alone(r) /\ Same(req'[r], q) /\ req'[r].pc = "attempt" /\ req'[r].tries = 1
    BY <1>0, <1>1, AttemptFields
  <2>2. /\ q.pc = "forward" /\ Watch({}) /\ UNCHANGED <<alive, cb>>
        /\ conns' = [conns EXCEPT ![q.be] = @ + 1]
    BY <1>1 DEF StartRoundTrip
  <2>3. q.be \in Backends
    BY <1>0, <2>2 DEF Fine
  <2>4. Fine(req'[r])
    BY <1>0, <2>1, <2>2, <2>3 DEF Fine, Same, Ended
  <2>5. ConnsExact'
    <3>1. \A c \in Backends : ~Connected(q, c) /\ (Connected(req'[r], c) <=> c = q.be)
      BY <2>1, <2>2 DEF Connected, Same
    <3> HIDE DEF q
    <3> QED  BY <1>0, <2>1, <2>2, <2>3, <3>1, ConnsUp DEF q
  <2>6. conns' \in [Backends -> Int]
    BY <1>0, <2>2, <2>3
  <2> QED  BY <1>0, <2>1, <2>2, <2>4, <2>5, <2>6, ForwardStep
<1>2. ASSUME Alone(r), Same(req'[r], q), Fine(req'[r]), Watch({}), UNCHANGED <<alive, cb, conns>>,
             q.pc \in {"attempt", "backoff"}, req'[r].pc \in {"attempt", "backoff"}
      PROVE  IInv'
  <2>1. ConnsExact'
    BY <1>0, <1>2, ConnsKept DEF Alone, Same, Connected
  <2> QED  BY <1>0, <1>2, <2>1, ForwardStep
<1>3. CASE Retry(r)
  <2>1. Alone(r) /\ Same(req'[r], q) /\ req'[r].pc = "attempt"
    BY <1>0, <1>3, AttemptFields
  <2>2. q.pc = "backoff" /\ Watch({}) /\ UNCHANGED <<alive, cb, conns>>
    BY <1>3 DEF Retry
  <2>3. Fine(req'[r])
    BY <1>0, <2>1, <2>2 DEF Fine, Same, Ended
  <2> QED  BY <1>2, <2>1, <2>2, <2>3
<1>4. CASE Disconnect(r)
  <2>1. Alone(r) /\ Same(req'[r], q) /\ req'[r].pc = q.pc /\ req'[r].tries = q.tries
    BY <1>0, <1>4, AttemptFields
  <2>2. q.pc \in {"attempt", "backoff"} /\ Watch({}) /\ UNCHANGED <<alive, cb, conns>>
    BY <1>4 DEF Disconnect
  <2>3. Fine(req'[r])
    BY <1>0, <2>1, <2>2 DEF Fine, Same
  <2> QED  BY <1>2, <2>1, <2>2, <2>3
<1>5. ASSUME NEW result \in Results, AttemptAgain(r, result) PROVE IInv'
  <2>1. Alone(r) /\ Same(req'[r], q) /\ req'[r].pc = "backoff" /\ req'[r].tries = q.tries
    BY <1>0, <1>5, AttemptFields
  <2>2. q.pc = "attempt" /\ q.idempotent /\ Watch({}) /\ UNCHANGED <<alive, cb, conns>>
    BY <1>5 DEF AttemptAgain, Retryable
  <2>3. Fine(req'[r])
    BY <1>0, <2>1, <2>2 DEF Fine, Same, Ended
  <2> QED  BY <1>2, <2>1, <2>2, <2>3
<1>6. ASSUME NEW result \in Results, Return(r, result), q.pc \in {"attempt", "backoff"},
             Watch({}), UNCHANGED <<alive, cb>>
      PROVE  IInv'
  <2>1. LET e == req'[r] IN
        /\ Alone(r) /\ e.pc = "returned" /\ e.be = q.be /\ e.tries = 0
        /\ e.records = q.records + 1
    BY <1>0, <1>6, ReturnFields
  <2>2. conns' = [conns EXCEPT ![q.be] = @ - 1]
    BY <1>6 DEF Return, DecrementConn
  <2>3. q.be \in Backends /\ q.records = 0
    BY <1>0, <1>6 DEF Fine, Ended
  <2>4. Fine(req'[r])
    BY <2>1, <2>3 DEF Fine, Ended
  <2>5. ConnsExact'
    <3>1. \A c \in Backends : ~Connected(req'[r], c) /\ (Connected(q, c) <=> c = q.be)
      BY <1>6, <2>1 DEF Connected
    <3> HIDE DEF q
    <3> QED  BY <1>0, <2>1, <2>2, <2>3, <3>1, ConnsDown DEF q
  <2>6. conns' \in [Backends -> Int]
    BY <1>0, <2>2, <2>3
  <2> QED  BY <1>0, <1>6, <2>1, <2>4, <2>5, <2>6, ForwardStep
<1>7. "error" \in Results /\ "failed" \in Results /\ "cancelled" \in Results
  BY DEF Results, Failures
<1>8. ASSUME NEW result \in Results, Attempt(r, result) \/ AttemptsExhausted(r, result)
      PROVE  IInv'
  <2>1. /\ \E x \in Results : Return(r, x)
        /\ q.pc = "attempt" /\ Watch({}) /\ UNCHANGED <<alive, cb>>
    BY <1>7, <1>8 DEF Attempt, AttemptsExhausted
  <2> QED  BY <1>6, <2>1
<1>9. CASE Cancelled(r)
  BY <1>6, <1>7, <1>9 DEF Cancelled
<1> QED  BY <1>1, <1>3, <1>4, <1>5, <1>8, <1>9

LEMMA ReportKeeps ==
  ASSUME IInv, NEW r \in Requests, ModifyResponse(r) \/ ErrorHandler(r)
  PROVE  IInv'
<1> DEFINE q == req[r]
<1>0. /\ Shape /\ ConnsExact /\ req \in [Requests -> Calls] /\ q \in Calls
      /\ conns \in [Backends -> Int] /\ Fine(q)
  BY DEF IInv, Shape
<1>1. /\ q.pc = "returned" /\ Watch({}) /\ UNCHANGED <<alive, conns>>
      /\ \E success : Done(r, success)
  BY DEF ModifyResponse, ErrorHandler
<1>2. \E k \in Nat : req' = [req EXCEPT ![r] = Blank("answered", k)]
  <2>1. q.records \in Nat /\ q.records + 1 \in Nat
    BY <1>0, CallTypes
  <2> QED  BY <2>1 DEF ModifyResponse, ErrorHandler
<1>3. "answered" \in Places  BY DEF Places
<1>4. Alone(r) /\ req'[r].pc = "answered" /\ req'[r].tries = 0
  BY <1>0, <1>2, <1>3, EndFields
<1>5. Fine(req'[r])
  BY <1>4 DEF Fine, Ended
<1>6. DOMAIN cb' = Backends
  BY <1>0, <1>1, BreakerDomain DEF Done
<1>7. ConnsExact'
  BY <1>0, <1>1, <1>4, ConnsKept DEF Alone, Connected
<1> QED  BY <1>0, <1>1, <1>4, <1>5, <1>6, <1>7, ForwardStep

\* The steps of others leave the requests as they are, except for their age.
Alike(e, q) ==
  e.be = q.be /\ e.idempotent = q.idempotent /\ e.result = q.result /\ e.records = q.records

LEMMA OthersKeep ==
  ASSUME IInv, Watch({}), alive' \in SUBSET Backends, DOMAIN cb' = Backends, conns' = conns,
         req' \in [Requests -> Calls],
         \A r \in Requests :
           /\ Alike(req'[r], req[r]) /\ req'[r].pc = req[r].pc /\ req'[r].tries = req[r].tries
           /\ req'[r].next = req[r].next /\ req'[r].list = req[r].list
  PROVE  IInv'
<1>1. \A r \in Requests : /\ steady'[r] \subseteq steady[r] /\ steady'[r] \subseteq Backends
                          /\ Fine(req[r]) /\ Untried(req[r], steady[r])
  BY WatchShrinks DEF IInv
<1>2. Shape'
  BY <1>1 DEF IInv, Shape
<1>3. ConnsExact'
  <2>1. \A b \in Backends, r \in Requests : Connected(req'[r], b) <=> Connected(req[r], b)
    BY DEF Connected, Alike
  <2>2. ASSUME NEW b \in Backends
        PROVE  {r \in Requests : Connected(req'[r], b)} = {r \in Requests : Connected(req[r], b)}
    BY <2>1
  <2> QED  BY <2>2, ConnsExactMeans DEF IInv
<1>4. ASSUME NEW r \in Requests PROVE Fine(req'[r]) /\ Untried(req'[r], steady'[r])
  <2>1. Fine(req'[r])
    BY <1>1 DEF Fine, Alike
  <2>2. Untried(req'[r], steady'[r])
    BY <1>1 DEF Untried, Alike
  <2> QED  BY <2>1, <2>2
<1>5. \A r \in Requests : Fine(req[r])' /\ Untried(req[r], steady[r])'
  BY <1>4 DEF Fine, Untried
<1> QED  BY <1>2, <1>3, <1>5 DEF IInv

LEMMA EnvironmentKeeps ==
  ASSUME IInv,
         \/ \E b \in Backends, v \in BOOLEAN : SetAlive(b, v)
         \/ \E b \in Backends : Poll(b) \/ Trip(b) \/ Reset(b)
         \/ Clock
  PROVE  IInv'
<1>0. /\ Shape /\ req \in [Requests -> Calls] /\ alive \in SUBSET Backends
      /\ DOMAIN cb = Backends
  BY DEF IInv, Shape
<1>1. ASSUME req' = req PROVE
      \A r \in Requests :
        /\ Alike(req'[r], req[r]) /\ req'[r].pc = req[r].pc /\ req'[r].tries = req[r].tries
        /\ req'[r].next = req[r].next /\ req'[r].list = req[r].list
  BY <1>1 DEF Alike
<1>2. ASSUME NEW b \in Backends, NEW v \in BOOLEAN, SetAlive(b, v) PROVE IInv'
  <2>1. alive' \in SUBSET Backends /\ Watch({}) /\ UNCHANGED <<cb, conns, req>>
    BY <1>0, <1>2 DEF SetAlive
  <2> QED  BY <1>0, <1>1, <2>1, OthersKeep
<1>3. ASSUME NEW b \in Backends, Poll(b) \/ Trip(b) \/ Reset(b) PROVE IInv'
  <2>1. Watch({}) /\ UNCHANGED <<alive, conns, req>>
    BY <1>3 DEF Poll, Trip, Reset
  <2>2. DOMAIN cb' = Backends
    BY <1>0, <1>3, BreakerDomain DEF Poll, Trip, Reset
  <2> QED  BY <1>0, <1>1, <2>1, <2>2, OthersKeep
<1>4. CASE Clock
  <2>1. Watch({}) /\ UNCHANGED <<alive, conns>> /\ DOMAIN cb' = Backends
    BY <1>4 DEF Clock
  <2>2. req' = [r \in Requests |-> [req[r] EXCEPT !.age = Older(@)]]
    BY <1>4 DEF Clock
  <2>3. ASSUME NEW r \in Requests
        PROVE  /\ req'[r] \in Calls
               /\ Alike(req'[r], req[r]) /\ req'[r].pc = req[r].pc
               /\ req'[r].tries = req[r].tries
               /\ req'[r].next = req[r].next /\ req'[r].list = req[r].list
    <3>1. req[r] \in Calls
      BY <1>0
    <3>2. Older(req[r].age) \in Int
      BY <3>1, CallTypes DEF Older
    <3>3. req'[r] = [req[r] EXCEPT !.age = Older(req[r].age)]
      BY <2>2
    <3> QED  BY <3>1, <3>2, <3>3 DEF Calls, Alike
  <2>4. req' \in [Requests -> Calls]
    BY <2>2, <2>3
  <2> QED  BY <1>0, <2>1, <2>3, <2>4, OthersKeep
<1> QED  BY <1>2, <1>3, <1>4

LEMMA StepInv == IInv /\ [Next]_vars => IInv'
<1> SUFFICES ASSUME IInv, [Next]_vars PROVE IInv'  OBVIOUS
<1>1. CASE UNCHANGED vars
  BY <1>1 DEF vars, IInv, Shape, ConnsExact, Fine, Untried
<1>2. CASE Next
  BY <1>2, SelectionKeeps, RoundTripKeeps, ReportKeeps, EnvironmentKeeps DEF Next
<1> QED  BY <1>1, <1>2

LEMMA Invariant == Spec => []IInv
BY InitInv, StepInv, PTL DEF Spec

----------------------------------------------------------------------------
(* Records                                                                 *)

\* The actions of request r that do not end it.
GoesOn(r) ==
  \/ \E i \in BOOLEAN : Arrive(r, i)
  \/ Scan(r) \/ Select(r) \/ AllowSelected(r) \/ RefuseSelected(r)
  \/ AllowAlternative(r) \/ RefuseAlternative(r)
  \/ StartRoundTrip(r) \/ Retry(r) \/ Cancelled(r) \/ Disconnect(r)
  \/ \E result \in Results :
       Attempt(r, result) \/ AttemptAgain(r, result) \/ AttemptsExhausted(r, result)

LEMMA GoesOnFields ==
  ASSUME IInv, NEW r \in Requests, GoesOn(r)
  PROVE  Alone(r) /\ req'[r].pc \notin Ended
<1>0. /\ Shape /\ req \in [Requests -> Calls] /\ alive \in SUBSET Backends
      /\ req[r] \in Calls /\ Fine(req[r])
  BY DEF IInv, Shape
<1>1. CASE \E i \in BOOLEAN : Arrive(r, i)
  BY <1>0, <1>1, ArriveFields DEF Ended
<1>2. CASE Scan(r)
  <2>1. req[r].pc \in {"scan", "rescan"}
    BY <1>2 DEF Scan
  <2> QED  BY <1>0, <1>2, <2>1, ScanFields DEF Ended
<1>3. CASE Select(r)
  BY <1>0, <1>3, SelectFields DEF Ended
<1>4. CASE AllowSelected(r)
  <2>1. req[r].be \in Backends /\ Admit(r, req[r].be)
    BY <1>0, <1>4 DEF AllowSelected, Fine
  <2> QED  BY <1>0, <2>1, AdmitFields DEF Ended
<1>5. CASE AllowAlternative(r)
  <2>1. Min(Alternatives(r)) \in Backends /\ Admit(r, Min(Alternatives(r)))
    BY <1>0, <1>5, LeastAlternative DEF AllowAlternative
  <2> QED  BY <1>0, <2>1, AdmitFields DEF Ended
<1>6. CASE RefuseSelected(r)
  BY <1>0, <1>6, RefuseFields DEF Ended
<1>7. CASE RefuseAlternative(r)
  <2>1. req[r].pc = "rescan"
    BY <1>7 DEF RefuseAlternative
  <2> QED  BY <1>0, <1>7, <2>1, RefuseFields DEF Ended
<1>8. CASE StartRoundTrip(r) \/ Retry(r)
  BY <1>0, <1>8, AttemptFields DEF Ended
<1>9. CASE Disconnect(r)
  <2>1. req[r].pc \in {"attempt", "backoff"}
    BY <1>9 DEF Disconnect
  <2> QED  BY <1>0, <1>9, <2>1, AttemptFields DEF Ended
<1>10. CASE \E result \in Results : AttemptAgain(r, result)
  BY <1>0, <1>10, AttemptFields DEF Ended
<1>11. CASE Cancelled(r) \/ \E result \in Results :
              Attempt(r, result) \/ AttemptsExhausted(r, result)
  <2>1. \E x \in Results : Return(r, x)
    BY <1>11 DEF Cancelled, Attempt, AttemptsExhausted, Results, Failures
  <2> QED  BY <1>0, <2>1, ReturnFields DEF Ended
<1> QED
  BY <1>1, <1>2, <1>3, <1>4, <1>5, <1>6, <1>7, <1>8, <1>9, <1>10, <1>11 DEF GoesOn

\* What a request that ends with this step has been recorded.
Due(q) == IF q.pc = "returned" /\ q.result \in Failures THEN 2 ELSE 1

LEMMA EndRecords ==
  ASSUME IInv, NEW r \in Requests, Unavailable(r) \/ ModifyResponse(r) \/ ErrorHandler(r)
  PROVE  Alone(r) /\ req'[r].records = Due(req[r])
<1>0. req \in [Requests -> Calls] /\ req[r] \in Calls /\ Fine(req[r])
  BY DEF IInv, Shape
<1>1. "unavailable" \in Places /\ "answered" \in Places /\ 1 \in Nat /\ 2 \in Nat
  BY DEF Places
<1>2. CASE Unavailable(r)
  <2>1. req[r].pc \in {"scan", "rescan"} /\ req[r].records = 0
    BY <1>0, <1>2 DEF Unavailable, Fine, Ended
  <2>2. req' = [req EXCEPT ![r] = Blank("unavailable", req[r].records + 1)]
    BY <1>2 DEF Unavailable
  <2>3. req' = [req EXCEPT ![r] = Blank("unavailable", 1)]
    BY <2>1, <2>2
  <2>4. Alone(r) /\ req'[r].records = 1
    BY <1>0, <1>1, <2>3, EndFields
  <2> QED  BY <2>1, <2>4 DEF Due
<1>3. ASSUME ModifyResponse(r) \/ ErrorHandler(r)
      PROVE  req[r].pc = "returned" /\ req[r].records = 1
  BY <1>0, <1>3 DEF ModifyResponse, ErrorHandler, Fine, Ended
<1>4. CASE ModifyResponse(r)
  <2>1. /\ req[r].result \notin Failures
        /\ req' = [req EXCEPT ![r] = Blank("answered", req[r].records)]
    BY <1>4 DEF ModifyResponse
  <2>2. req[r].pc = "returned" /\ req' = [req EXCEPT ![r] = Blank("answered", 1)]
    BY <1>3, <1>4, <2>1
  <2>3. Alone(r) /\ req'[r].records = 1
    BY <1>0, <1>1, <2>2, EndFields
  <2> QED  BY <2>1, <2>2, <2>3 DEF Due
<1>5. CASE ErrorHandler(r)
  <2>1. /\ req[r].result \in Failures
        /\ req' = [req EXCEPT ![r] = Blank("answered", req[r].records + 1)]
    BY <1>5 DEF ErrorHandler
  <2>2. req[r].records + 1 = 2
    <3>1. req[r].records = 1
      BY <1>3, <1>5
    <3> QED  BY <3>1
  <2>3. Alone(r) /\ req'[r].records = 2
    <3>1. req' = [req EXCEPT ![r] = Blank("answered", 2)]
      BY <2>1, <2>2
    <3> QED  BY <1>0, <1>1, <3>1, EndFields
  <2> QED  BY <1>3, <1>5, <2>1, <2>3 DEF Due
<1> QED  BY <1>2, <1>4, <1>5

LEMMA RecordsStep ==
  ASSUME IInv, [Next]_vars, NEW u \in Requests, req[u].pc \notin Ended, req'[u].pc \in Ended
  PROVE  req'[u].records = Due(req[u])
<1>1. CASE UNCHANGED vars
  BY <1>1 DEF vars
<1>2. CASE \E r \in Requests : GoesOn(r)
  <2>1. PICK r \in Requests : GoesOn(r)  BY <1>2
  <2>2. Alone(r) /\ req'[r].pc \notin Ended
    BY <2>1, GoesOnFields
  <2> QED  BY <2>2 DEF Alone
<1>3. CASE \E r \in Requests : Unavailable(r) \/ ModifyResponse(r) \/ ErrorHandler(r)
  <2>1. PICK r \in Requests : Unavailable(r) \/ ModifyResponse(r) \/ ErrorHandler(r)
    BY <1>3
  <2>2. Alone(r) /\ req'[r].records = Due(req[r])
    BY <2>1, EndRecords
  <2> QED  BY <2>2 DEF Alone
<1>4. CASE \/ \E b \in Backends, v \in BOOLEAN : SetAlive(b, v)
           \/ \E b \in Backends : Poll(b) \/ Trip(b) \/ Reset(b)
  BY <1>4 DEF SetAlive, Poll, Trip, Reset
<1>5. CASE Clock
  <2>1. req'[u] = [req[u] EXCEPT !.age = Older(@)] /\ req[u] \in Calls
    BY <1>5 DEF Clock, IInv, Shape
  <2>2. req'[u].pc = req[u].pc
    BY <2>1 DEF Calls
  <2> QED  BY <2>2
<1> QED
  BY <1>1, <1>2, <1>3, <1>4, <1>5 DEF Next, GoesOn

----------------------------------------------------------------------------
(* The proxy's breakers are breakers                                       *)

\* A request has an age exactly while it is away, with a breaker's closure.
Away == {"forward", "attempt", "backoff", "returned"}

Timed(q) == IF q.pc \in Away THEN q.age \in Nat ELSE q.age = Idle

\* A breaker has a generation, so that one can tell whether it changed.
Known(c) == "generation" \in DOMAIN c

BInv ==
  /\ IInv /\ DOMAIN fresh = Backends
  /\ \A b \in Backends : Known(cb[b])
  /\ \A r \in Requests : Timed(req[r])

\* What the breaker of b sees of a request.
View(q, b) == IF q.be = b THEN q.age ELSE Idle

LEMMA KnownMethods ==
  ASSUME NEW c, Known(c), NEW success \in BOOLEAN, NEW a
  PROVE  /\ Known(Allow(c)) /\ Known(Reject(c)) /\ Known(State(c))
         /\ Known(TripManually(c)) /\ Known(ResetManually(c))
         /\ Known(onResult(c, success, a)) /\ Known(Tick(c))
         /\ Reject(c).generation = c.generation
<1>1. \A n, s, t : Known(setState(n, s, t))
  BY DEF Known, setState
<1>2. Known(currentStateEffect(c)) /\ currentStateEffect(c).generation = c.generation
  BY DEF Known, currentStateEffect, resetCounts
<1>3. Known(onSuccess(c, a)) /\ Known(onFailure(c, a))
  BY <1>1 DEF Known, onSuccess, onFailure
<1> QED
  BY <1>1, <1>2, <1>3
  DEF Known, Allow, Reject, State, TripManually, ResetManually, onResult, Tick

LEMMA SetBreakerFacts ==
  ASSUME BInv, NEW b \in Backends, NEW new, NEW S, SetBreaker(b, new, S)
  PROVE  /\ DOMAIN fresh' = Backends
         /\ cb'[b] = new
         /\ fresh'[b] = IF new.generation = cb[b].generation THEN S ELSE {}
         /\ \A c \in Backends \ {b} : cb'[c] = cb[c] /\ fresh'[c] = fresh[c]
         /\ Known(new) => \A c \in Backends : Known(cb'[c])
<1>1. DOMAIN cb = Backends /\ DOMAIN fresh = Backends /\ \A c \in Backends : Known(cb[c])
  BY DEF BInv, IInv, Shape
<1> QED  BY <1>1 DEF SetBreaker

\* A breaker that this step does not concern.
LEMMA NotConcerned ==
  ASSUME NEW b \in Backends, cb'[b] = cb[b], fresh'[b] = fresh[b],
         \A r \in Requests : View(req'[r], b) = View(req[r], b)
  PROVE  UNCHANGED BreakerOf(b)!vars
BY DEF BreakerOf!vars, View

\* The steps of a request that neither begin nor end its time away.
Quiet(r) ==
  \/ \E i \in BOOLEAN : Arrive(r, i)
  \/ Scan(r) \/ Select(r) \/ RefuseSelected(r) \/ RefuseAlternative(r) \/ Unavailable(r)
  \/ StartRoundTrip(r) \/ Retry(r) \/ Cancelled(r) \/ Disconnect(r)
  \/ \E result \in Results :
       Attempt(r, result) \/ AttemptAgain(r, result) \/ AttemptsExhausted(r, result)

LEMMA QuietFields ==
  ASSUME BInv, NEW r \in Requests, Quiet(r)
  PROVE  /\ Alone(r) /\ req'[r].age = req[r].age
         /\ req'[r].pc \in Away <=> req[r].pc \in Away
         /\ req'[r].be = req[r].be \/ req[r].age = Idle
<1> DEFINE q == req[r]
<1>0. /\ req \in [Requests -> Calls] /\ q \in Calls /\ alive \in SUBSET Backends
      /\ Timed(q) /\ q.records + 1 \in Nat
  BY CallTypes DEF BInv, IInv, Shape
<1>1. ASSUME NEW i \in BOOLEAN, Arrive(r, i)
      PROVE  /\ Alone(r) /\ req'[r].age = Idle /\ q.age = Idle
             /\ req'[r].pc \notin Away /\ q.pc \notin Away
  BY <1>0, <1>1, ArriveFields DEF Arrive, Timed, Away, Ended
<1>2. CASE Scan(r)
  BY <1>0, <1>2, ScanFields DEF Same
<1>3. CASE Select(r)
  <2>1. q.pc = "scan" /\ q.age = Idle
    BY <1>0, <1>3 DEF Select, Timed, Away
  <2> QED  BY <1>0, <1>3, <2>1, SelectFields DEF Away
<1>4. CASE RefuseSelected(r)
  <2>1. q.pc = "allow"
    BY <1>4 DEF RefuseSelected
  <2> QED  BY <1>0, <1>4, <2>1, RefuseFields DEF Same, Away
<1>5. CASE RefuseAlternative(r)
  BY <1>0, <1>5, RefuseFields DEF Same
<1>6. CASE Unavailable(r)
  <2>1. q.pc \in {"scan", "rescan"} /\ q.age = Idle
    BY <1>0, <1>6 DEF Unavailable, Timed, Away
  <2>2. req' = [req EXCEPT ![r] = Blank("unavailable", q.records + 1)]
    BY <1>6 DEF Unavailable
  <2>3. "unavailable" \in Places  BY DEF Places
  <2>4. Alone(r) /\ req'[r].pc = "unavailable" /\ req'[r].age = Idle
    BY <1>0, <2>2, <2>3, EndAge
  <2> QED  BY <2>1, <2>4 DEF Away
<1>7. CASE StartRoundTrip(r) \/ Retry(r)
  <2>1. q.pc \in {"forward", "backoff"}
    BY <1>7 DEF StartRoundTrip, Retry
  <2> QED  BY <1>0, <1>7, <2>1, AttemptFields DEF Same, Away
<1>8. CASE Disconnect(r)
  BY <1>0, <1>8, AttemptFields DEF Same
<1>9. ASSUME NEW result \in Results, AttemptAgain(r, result)
      PROVE  /\ Alone(r) /\ req'[r].age = q.age /\ req'[r].be = q.be
             /\ req'[r].pc \in Away /\ q.pc \in Away
  <2>1. q.pc = "attempt"
    BY <1>9 DEF AttemptAgain
  <2> QED  BY <1>0, <1>9, <2>1, AttemptFields DEF Same, Away
<1>10. CASE Cancelled(r) \/ \E result \in Results :
              Attempt(r, result) \/ AttemptsExhausted(r, result)
  <2>1. (\E x \in Results : Return(r, x)) /\ q.pc \in {"attempt", "backoff"}
    BY <1>10 DEF Cancelled, Attempt, AttemptsExhausted, Results, Failures
  <2> QED  BY <1>0, <2>1, ReturnFields DEF Away
<1> QED
  BY <1>1, <1>2, <1>3, <1>4, <1>5, <1>6, <1>7, <1>8, <1>9, <1>10 DEF Quiet

LEMMA QuietStep ==
  ASSUME BInv, NEW r \in Requests, Quiet(r)
  PROVE  \A u \in Requests :
           Timed(req'[u]) /\ \A b \in Backends : View(req'[u], b) = View(req[u], b)
<1>1. \A u \in Requests : Timed(req[u])
  BY DEF BInv
<1> QED  BY <1>1, QuietFields DEF Alone, Timed, View

\* The operators of the instance are those of Breaker.
LEMMA SameConstants ==
  ASSUME NEW b
  PROVE  /\ BreakerOf(b)!StateClosed = StateClosed /\ BreakerOf(b)!StateOpen = StateOpen
         /\ BreakerOf(b)!StateHalfOpen = StateHalfOpen
         /\ BreakerOf(b)!ZeroTime = ZeroTime /\ BreakerOf(b)!Past = Past
         /\ BreakerOf(b)!ZeroCounts = ZeroCounts /\ BreakerOf(b)!Horizon = Horizon
         /\ BreakerOf(b)!NewBreaker = NewBreaker
         /\ BreakerOf(b)!Idle = Idle
BY DEF BreakerOf!StateClosed, StateClosed, BreakerOf!StateOpen, StateOpen,
       BreakerOf!StateHalfOpen, StateHalfOpen, BreakerOf!ZeroTime, ZeroTime, BreakerOf!Past, Past,
       BreakerOf!ZeroCounts, ZeroCounts, BreakerOf!Horizon, Horizon, BreakerOf!NewBreaker,
       NewBreaker, BreakerOf!Idle, Idle

LEMMA SameStates ==
  ASSUME NEW b, NEW c
  PROVE  /\ BreakerOf(b)!currentState(c) = currentState(c)
         /\ BreakerOf(b)!currentStateEffect(c) = currentStateEffect(c)
         /\ BreakerOf(b)!Tick(c) = Tick(c)
<1>1. \A t : BreakerOf(b)!Before(t) = Before(t)
  BY DEF BreakerOf!Before, Before
<1>2. BreakerOf(b)!currentState(c) = currentState(c)
  BY <1>1, SameConstants DEF BreakerOf!currentState, currentState
<1>3. BreakerOf(b)!currentStateEffect(c) = currentStateEffect(c)
  BY <1>1, SameConstants DEF BreakerOf!currentStateEffect, currentStateEffect,
     BreakerOf!WindowOver, WindowOver, BreakerOf!resetCounts, resetCounts
<1>4. BreakerOf(b)!Tick(c) = Tick(c)
  BY <1>1, SameConstants DEF BreakerOf!Tick, Tick, BreakerOf!OneTickCloser, OneTickCloser
<1> QED  BY <1>2, <1>3, <1>4

LEMMA SameSetState ==
  ASSUME NEW b, NEW c, NEW s \in BreakerStates, NEW a
  PROVE  BreakerOf(b)!setState(c, s, a) = setState(c, s, a)
<1>1. \A d : BreakerOf(b)!Deadline(d, a) = Deadline(d, a)
  BY SameConstants DEF BreakerOf!Deadline, Deadline
<1>2. CASE s = StateClosed
  BY <1>1, <1>2, SameConstants DEF BreakerOf!setState, setState,
     BreakerOf!KeepsCounts, KeepsCounts, StateClosed, StateOpen, StateHalfOpen
<1>3. CASE s = StateOpen
  BY <1>1, <1>3, SameConstants DEF BreakerOf!setState, setState,
     BreakerOf!KeepsCounts, KeepsCounts, StateClosed, StateOpen, StateHalfOpen
<1>4. CASE s = StateHalfOpen
  BY <1>1, <1>4, SameConstants DEF BreakerOf!setState, setState,
     BreakerOf!KeepsCounts, KeepsCounts, StateClosed, StateOpen, StateHalfOpen
<1> QED  BY <1>2, <1>3, <1>4 DEF BreakerStates

LEMMA SameMethods ==
  ASSUME NEW b, NEW c
  PROVE  /\ BreakerOf(b)!Admits(c) <=> Admits(c)
         /\ BreakerOf(b)!Allow(c) = Allow(c)
         /\ BreakerOf(b)!Reject(c) = Reject(c)
         /\ BreakerOf(b)!State(c) = State(c)
         /\ BreakerOf(b)!TripManually(c) = TripManually(c)
         /\ BreakerOf(b)!ResetManually(c) = ResetManually(c)
<1>1. \A n : BreakerOf(b)!Increment(n) = Increment(n)
  BY DEF BreakerOf!Increment, Increment
<1>2. BreakerOf(b)!Admits(c) <=> Admits(c)
  BY SameStates, SameConstants DEF BreakerOf!Admits, Admits
<1>3. BreakerOf(b)!Allow(c) = Allow(c)
  BY <1>1, SameStates DEF BreakerOf!Allow, Allow
<1>4. BreakerOf(b)!Reject(c) = Reject(c)
  BY SameStates DEF BreakerOf!Reject, Reject
<1>5. BreakerOf(b)!State(c) = State(c)
  <2> DEFINE n == currentStateEffect(c)
  <2>1. currentState(c) # c.state => currentState(c) = StateHalfOpen
    BY DEF currentState
  <2>2. BreakerOf(b)!setState(n, StateHalfOpen, 0) = setState(n, StateHalfOpen, 0)
    BY SameSetState DEF BreakerStates
  <2> QED  BY <2>1, <2>2, SameStates DEF BreakerOf!State, State
<1>6. /\ BreakerOf(b)!TripManually(c) = TripManually(c)
      /\ BreakerOf(b)!ResetManually(c) = ResetManually(c)
  BY SameSetState, SameConstants
     DEF BreakerStates, BreakerOf!TripManually, TripManually, BreakerOf!ResetManually, ResetManually
<1> QED  BY <1>2, <1>3, <1>4, <1>5, <1>6

LEMMA SameOnResult ==
  ASSUME NEW b, NEW c, NEW success, NEW a
  PROVE  BreakerOf(b)!onResult(c, success, a) = onResult(c, success, a)
<1>1. \A n : BreakerOf(b)!Increment(n) = Increment(n)
  BY DEF BreakerOf!Increment, Increment
<1>2. BreakerOf(b)!onSuccess(c, a) = onSuccess(c, a)
  <2> DEFINE n == [c EXCEPT !.counts.ConsecutiveSuccesses = Increment(@),
                            !.counts.ConsecutiveFailures = 0]
             m == [c EXCEPT !.counts.ConsecutiveSuccesses = BreakerOf(b)!Increment(@),
                            !.counts.ConsecutiveFailures = 0]
  <2>1. m = n
    BY <1>1
  <2>2. BreakerOf(b)!setState(n, StateClosed, a) = setState(n, StateClosed, a)
    BY SameSetState DEF BreakerStates
  <2>3. onSuccess(c, a) =
          IF c.state = StateHalfOpen /\ n.counts.ConsecutiveSuccesses >= MaxRequests
          THEN setState(n, StateClosed, a) ELSE n
    BY DEF onSuccess
  <2>4. BreakerOf(b)!onSuccess(c, a) =
          IF c.state = BreakerOf(b)!StateHalfOpen /\ m.counts.ConsecutiveSuccesses >= MaxRequests
          THEN BreakerOf(b)!setState(m, BreakerOf(b)!StateClosed, a) ELSE m
    BY DEF BreakerOf!onSuccess
  <2> HIDE DEF m, n
  <2> QED  BY <2>1, <2>2, <2>3, <2>4, SameConstants
<1>3. \A d, n : BreakerOf(b)!Trips(d, n) <=> Trips(d, n)
  BY SameConstants DEF BreakerOf!Trips, Trips, BreakerOf!ReadyToTrip, ReadyToTrip
<1>4. BreakerOf(b)!onFailure(c, a) = onFailure(c, a)
  <2> DEFINE n == [c EXCEPT !.counts.TotalFailures = Increment(@),
                            !.counts.ConsecutiveFailures = Increment(@),
                            !.counts.ConsecutiveSuccesses = 0]
             m == [c EXCEPT !.counts.TotalFailures = BreakerOf(b)!Increment(@),
                            !.counts.ConsecutiveFailures = BreakerOf(b)!Increment(@),
                            !.counts.ConsecutiveSuccesses = 0]
  <2>1. m = n
    <3>1. /\ BreakerOf(b)!Increment(c.counts.TotalFailures) = Increment(c.counts.TotalFailures)
          /\ BreakerOf(b)!Increment(c.counts.ConsecutiveFailures)
               = Increment(c.counts.ConsecutiveFailures)
      BY <1>1
    <3> QED  BY <3>1, Zenon
  <2>2. BreakerOf(b)!setState(n, StateOpen, a) = setState(n, StateOpen, a)
    BY SameSetState DEF BreakerStates
  <2>3. onFailure(c, a) = IF Trips(c, n.counts) THEN setState(n, StateOpen, a) ELSE n
    BY DEF onFailure
  <2>4. BreakerOf(b)!onFailure(c, a) =
          IF BreakerOf(b)!Trips(c, m.counts)
          THEN BreakerOf(b)!setState(m, BreakerOf(b)!StateOpen, a) ELSE m
    BY DEF BreakerOf!onFailure
  <2> HIDE DEF m, n
  <2> QED  BY <1>3, <2>1, <2>2, <2>3, <2>4, SameConstants
<1> QED  BY <1>2, <1>4 DEF BreakerOf!onResult, onResult

\* AllowSelected and AllowAlternative.
LEMMA AdmitUses ==
  ASSUME BInv, NEW r \in Requests, NEW b \in Backends, Admit(r, b),
         req[r].pc \in {"allow", "rescan"}
  PROVE  /\ DOMAIN fresh' = Backends /\ \A c \in Backends : Known(cb'[c])
         /\ \A u \in Requests : Timed(req'[u])
         /\ BreakerOf(b)!Begin(r)
         /\ \A c \in Backends \ {b} : UNCHANGED BreakerOf(c)!vars
<1> DEFINE q == req[r]
           age(u) == View(req[u], b)
<1>0. /\ req \in [Requests -> Calls] /\ Known(cb[b]) /\ \A u \in Requests : Timed(req[u])
      /\ q.age = Idle
  BY DEF BInv, IInv, Shape, Timed, Away
<1>1. /\ Alone(r) /\ req'[r].pc = "forward" /\ req'[r].be = b /\ req'[r].age = 0
  BY <1>0, AdmitFields
<1>2. /\ Admits(cb[b]) /\ SetBreaker(b, Allow(cb[b]), fresh[b] \cup {r})
  BY DEF Admit
<1>3. Known(Allow(cb[b]))
  BY <1>0, KnownMethods
<1>4. /\ DOMAIN fresh' = Backends /\ cb'[b] = Allow(cb[b])
      /\ fresh'[b] = IF Allow(cb[b]).generation = cb[b].generation
                     THEN fresh[b] \cup {r} ELSE {}
      /\ \A c \in Backends \ {b} : cb'[c] = cb[c] /\ fresh'[c] = fresh[c]
      /\ \A c \in Backends : Known(cb'[c])
  BY <1>2, <1>3, SetBreakerFacts
<1>5. \A u \in Requests : Timed(req'[u])
  BY <1>0, <1>1 DEF Alone, Timed, Away
<1>6. \A u \in Requests, c \in Backends \ {b} : View(req'[u], c) = View(req[u], c)
  BY <1>0, <1>1 DEF Alone, View
<1>7. BreakerOf(b)!Begin(r)
  <2>1. [u \in Requests |-> View(req'[u], b)]
          = [[u \in Requests |-> View(req[u], b)] EXCEPT ![r] = 0]
    BY <1>1 DEF Alone, View
  <2>2. View(req[r], b) = Idle
    BY <1>0 DEF View
  <2> QED
    BY <1>2, <1>4, <2>1, <2>2, SameConstants, SameMethods
    DEF BreakerOf!Begin, BreakerOf!KeepFresh, View
<1> QED  BY <1>4, <1>5, <1>6, <1>7, NotConcerned

\* RefuseSelected and RefuseAlternative.
LEMMA RefuseUses ==
  ASSUME BInv, NEW r \in Requests, Quiet(r), NEW b \in Backends, ~Admits(cb[b]),
         SetBreaker(b, Reject(cb[b]), fresh[b]), req[r].pc \in {"allow", "rescan"}
  PROVE  /\ DOMAIN fresh' = Backends /\ \A c \in Backends : Known(cb'[c])
         /\ BreakerOf(b)!Refused(r)
         /\ \A c \in Backends \ {b} : UNCHANGED BreakerOf(c)!vars
<1>0. Known(cb[b]) /\ req[r].age = Idle
  BY DEF BInv, Timed, Away
<1>1. Known(Reject(cb[b])) /\ Reject(cb[b]).generation = cb[b].generation
  BY <1>0, KnownMethods
<1>2. /\ DOMAIN fresh' = Backends /\ cb'[b] = Reject(cb[b]) /\ fresh'[b] = fresh[b]
      /\ \A c \in Backends \ {b} : cb'[c] = cb[c] /\ fresh'[c] = fresh[c]
      /\ \A c \in Backends : Known(cb'[c])
  BY <1>1, SetBreakerFacts
<1>3. \A u \in Requests, c \in Backends : View(req'[u], c) = View(req[u], c)
  BY QuietStep
<1>4. BreakerOf(b)!Refused(r)
  <2>1. View(req[r], b) = Idle
    BY <1>0 DEF View
  <2> QED
    BY <1>2, <1>3, <2>1, SameConstants, SameMethods DEF BreakerOf!Refused, View
<1> QED  BY <1>2, <1>3, <1>4, NotConcerned

\* modifyResponse and errorHandler.
LEMMA DoneUses ==
  ASSUME BInv, NEW r \in Requests, NEW success \in BOOLEAN, Done(r, success),
         NEW b \in Backends, req[r].be = b,
         req[r].pc = "returned", NEW k \in Nat, req' = [req EXCEPT ![r] = Blank("answered", k)]
  PROVE  /\ DOMAIN fresh' = Backends /\ \A c \in Backends : Known(cb'[c])
         /\ \A u \in Requests : Timed(req'[u])
         /\ BreakerOf(b)!Report(r, success)
         /\ \A c \in Backends \ {b} : UNCHANGED BreakerOf(c)!vars
<1> DEFINE q == req[r]
           new == onResult(cb[b], success, q.age)
<1>0. /\ req \in [Requests -> Calls] /\ \A u \in Requests : Timed(req[u])
      /\ q.age \in Nat /\ "answered" \in Places
  BY DEF BInv, IInv, Shape, Timed, Away, Places
<1>1. Alone(r) /\ req'[r].pc = "answered" /\ req'[r].age = Idle
  BY <1>0, EndAge
<1>2. SetBreaker(b, new, fresh[b] \ {r})
  BY DEF Done
<1>3. Known(new)
  BY <1>0, KnownMethods DEF BInv
<1>4. /\ DOMAIN fresh' = Backends /\ cb'[b] = new
      /\ fresh'[b] = IF new.generation = cb[b].generation THEN fresh[b] \ {r} ELSE {}
      /\ \A c \in Backends \ {b} : cb'[c] = cb[c] /\ fresh'[c] = fresh[c]
      /\ \A c \in Backends : Known(cb'[c])
  BY <1>0, <1>2, <1>3, SetBreakerFacts
<1>5. \A u \in Requests : Timed(req'[u])
  BY <1>0, <1>1 DEF Alone, Timed, Away
<1>6. \A u \in Requests, c \in Backends \ {b} : View(req'[u], c) = View(req[u], c)
  BY <1>0, <1>1 DEF Alone, View
<1>7. BreakerOf(b)!Report(r, success)
  <2>1. [u \in Requests |-> View(req'[u], b)]
          = [[u \in Requests |-> View(req[u], b)] EXCEPT ![r] = Idle]
    BY <1>1 DEF Alone, View
  <2>2. View(q, b) = q.age /\ q.age # Idle
    BY <1>0 DEF View, Idle
  <2>3. BreakerOf(b)!onResult(cb[b], success, q.age) = new
    BY SameOnResult
  <2> HIDE DEF new
  <2> QED
    BY <1>4, <2>1, <2>2, <2>3, SameConstants
    DEF BreakerOf!Report, BreakerOf!KeepFresh, View
<1> QED  BY <1>0, <1>4, <1>5, <1>6, <1>7, NotConcerned

\* The admin API.
LEMMA OperatorUses ==
  ASSUME BInv, NEW b \in Backends, Poll(b) \/ Trip(b) \/ Reset(b)
  PROVE  /\ DOMAIN fresh' = Backends /\ \A c \in Backends : Known(cb'[c])
         /\ BreakerOf(b)!Poll \/ BreakerOf(b)!Trip \/ BreakerOf(b)!Reset
         /\ \A c \in Backends \ {b} : UNCHANGED BreakerOf(c)!vars
<1>0. Known(cb[b])
  BY DEF BInv
<1>1. PICK new : /\ SetBreaker(b, new, fresh[b]) /\ req' = req
                 /\ \/ new = State(cb[b])
                    \/ Operator /\ new = TripManually(cb[b])
                    \/ Operator /\ new = ResetManually(cb[b])
  BY DEF Poll, Trip, Reset
<1>2. Known(new)
  BY <1>0, <1>1, KnownMethods
<1>3. /\ DOMAIN fresh' = Backends /\ cb'[b] = new
      /\ fresh'[b] = IF new.generation = cb[b].generation THEN fresh[b] ELSE {}
      /\ \A c \in Backends \ {b} : cb'[c] = cb[c] /\ fresh'[c] = fresh[c]
      /\ \A c \in Backends : Known(cb'[c])
  BY <1>1, <1>2, SetBreakerFacts
<1>4. BreakerOf(b)!Poll \/ BreakerOf(b)!Trip \/ BreakerOf(b)!Reset
  BY <1>1, <1>3, SameMethods
  DEF BreakerOf!Poll, BreakerOf!Trip, BreakerOf!Reset, BreakerOf!KeepFresh
<1> QED  BY <1>1, <1>3, <1>4, NotConcerned

LEMMA ClockUses ==
  ASSUME BInv, Clock
  PROVE  /\ DOMAIN fresh' = Backends /\ \A c \in Backends : Known(cb'[c])
         /\ \A u \in Requests : Timed(req'[u])
         /\ \A b \in Backends : BreakerOf(b)!Clock
<1>0. /\ req \in [Requests -> Calls] /\ DOMAIN fresh = Backends
      /\ \A b \in Backends : Known(cb[b])
  BY DEF BInv, IInv, Shape
<1>1. /\ \A b \in Backends : cb'[b] = Tick(cb[b])
      /\ fresh' = fresh
  BY DEF Clock
<1>2. ASSUME NEW u \in Requests
      PROVE  /\ req'[u].pc = req[u].pc /\ req'[u].be = req[u].be
             /\ req'[u].age = Older(req[u].age)
  <2>1. req'[u] = [req[u] EXCEPT !.age = Older(req[u].age)] /\ req[u] \in Calls
    BY <1>0 DEF Clock
  <2> QED  BY <2>1 DEF Calls
<1>3. \A u \in Requests : Timed(req'[u])
  BY <1>2 DEF BInv, Timed, Older
<1>4. \A c \in Backends : Known(cb'[c])
  BY <1>0, <1>1, KnownMethods
<1>5. ASSUME NEW b \in Backends PROVE BreakerOf(b)!Clock
  <2>1. \A a : BreakerOf(b)!Older(a) = Older(a)
    BY SameConstants DEF BreakerOf!Older, Older
  <2>2. \A u \in Requests : View(req'[u], b) = Older(View(req[u], b))
    BY <1>2 DEF View, Older
  <2> QED  BY <1>1, <2>1, <2>2, SameStates DEF BreakerOf!Clock, View
<1> QED  BY <1>0, <1>1, <1>3, <1>4, <1>5

LEMMA UsesStep ==
  ASSUME BInv, [Next]_vars
  PROVE  /\ BInv'
         /\ \A b \in Backends : BreakerOf(b)!Next \/ UNCHANGED BreakerOf(b)!vars
<1> DEFINE Uses == \A b \in Backends : BreakerOf(b)!Next \/ UNCHANGED BreakerOf(b)!vars
           Times == \A u \in Requests : Timed(req'[u])
           Breaks == DOMAIN fresh' = Backends /\ \A c \in Backends : Known(cb'[c])
<1>0. IInv'
  BY StepInv DEF BInv
<1>1. SUFFICES Uses /\ Times /\ Breaks
  BY <1>0 DEF BInv, Timed, Known
<1>2. CASE UNCHANGED vars
  <2>1. Uses
    BY <1>2, NotConcerned DEF vars
  <2> QED  BY <1>2, <2>1 DEF vars, BInv
<1>3. ASSUME NEW r \in Requests, Quiet(r), UNCHANGED <<cb, fresh>> PROVE Uses /\ Times /\ Breaks
  <2>1. Times /\ \A u \in Requests, b \in Backends : View(req'[u], b) = View(req[u], b)
    BY <1>3, QuietStep
  <2>2. Uses
    BY <1>3, <2>1, NotConcerned
  <2> QED  BY <1>3, <2>1, <2>2 DEF BInv
<1>4. ASSUME NEW r \in Requests, AllowSelected(r) \/ AllowAlternative(r)
      PROVE  Uses /\ Times /\ Breaks
  <2>1. PICK b \in Backends : Admit(r, b) /\ req[r].pc \in {"allow", "rescan"}
    BY <1>4, LeastAlternative DEF AllowSelected, AllowAlternative, BInv, IInv, Fine
  <2>2. /\ Breaks /\ Times /\ BreakerOf(b)!Begin(r)
        /\ \A c \in Backends \ {b} : UNCHANGED BreakerOf(c)!vars
    BY <2>1, AdmitUses
  <2>3. BreakerOf(b)!Next
    BY <2>2 DEF BreakerOf!Next
  <2> QED  BY <2>2, <2>3
<1>5. ASSUME NEW r \in Requests, RefuseSelected(r) \/ RefuseAlternative(r)
      PROVE  Uses /\ Times /\ Breaks
  <2>1. PICK b \in Backends : /\ ~Admits(cb[b]) /\ SetBreaker(b, Reject(cb[b]), fresh[b])
                              /\ req[r].pc \in {"allow", "rescan"}
    BY <1>5, LeastAlternative DEF RefuseSelected, RefuseAlternative, BInv, IInv, Fine
  <2>2. Quiet(r)
    BY <1>5 DEF Quiet
  <2>3. /\ Breaks /\ BreakerOf(b)!Refused(r)
        /\ \A c \in Backends \ {b} : UNCHANGED BreakerOf(c)!vars
    BY <2>1, <2>2, RefuseUses
  <2>4. BreakerOf(b)!Next
    BY <2>3 DEF BreakerOf!Next
  <2> QED  BY <2>2, <2>3, <2>4, QuietStep
<1>6. ASSUME NEW r \in Requests, ModifyResponse(r) \/ ErrorHandler(r)
      PROVE  Uses /\ Times /\ Breaks
  <2>1. req[r].records \in Nat /\ req[r].records + 1 \in Nat
    BY CallTypes DEF BInv, IInv, Shape
  <2>2. PICK success \in BOOLEAN, k \in Nat :
          /\ Done(r, success) /\ req[r].pc = "returned"
          /\ req' = [req EXCEPT ![r] = Blank("answered", k)]
    BY <1>6, <2>1 DEF ModifyResponse, ErrorHandler
  <2>3. PICK b \in Backends : req[r].be = b
    BY <2>2 DEF BInv, IInv, Fine
  <2>4. /\ Breaks /\ Times /\ BreakerOf(b)!Report(r, success)
        /\ \A c \in Backends \ {b} : UNCHANGED BreakerOf(c)!vars
    BY <2>2, <2>3, DoneUses
  <2>5. BreakerOf(b)!Next
    BY <2>4 DEF BreakerOf!Next
  <2> QED  BY <2>4, <2>5
<1>7. ASSUME NEW b \in Backends, Poll(b) \/ Trip(b) \/ Reset(b) PROVE Uses /\ Times /\ Breaks
  <2>1. /\ Breaks /\ (BreakerOf(b)!Poll \/ BreakerOf(b)!Trip \/ BreakerOf(b)!Reset)
        /\ \A c \in Backends \ {b} : UNCHANGED BreakerOf(c)!vars
    BY <1>7, OperatorUses
  <2>2. BreakerOf(b)!Next
    BY <2>1 DEF BreakerOf!Next
  <2>3. Times
    BY <1>7 DEF Poll, Trip, Reset, BInv
  <2> QED  BY <2>1, <2>2, <2>3
<1>8. CASE Clock
  <2>1. Breaks /\ Times /\ \A b \in Backends : BreakerOf(b)!Clock
    BY <1>8, ClockUses
  <2> QED  BY <2>1 DEF BreakerOf!Next
<1>9. ASSUME NEW b \in Backends, NEW v \in BOOLEAN, SetAlive(b, v) PROVE Uses /\ Times /\ Breaks
  <2>1. UNCHANGED <<cb, fresh, req>>
    BY <1>9 DEF SetAlive
  <2>2. Uses
    BY <2>1, NotConcerned
  <2> QED  BY <2>1, <2>2 DEF BInv
<1>10. ASSUME NEW r \in Requests,
              \/ \E i \in BOOLEAN : Arrive(r, i)
              \/ Scan(r) \/ Select(r) \/ Unavailable(r)
              \/ StartRoundTrip(r) \/ Retry(r) \/ Cancelled(r) \/ Disconnect(r)
              \/ \E result \in Results :
                   Attempt(r, result) \/ AttemptAgain(r, result) \/ AttemptsExhausted(r, result)
       PROVE  Uses /\ Times /\ Breaks
  <2>1. Quiet(r)
    BY <1>10 DEF Quiet
  <2>2. UNCHANGED <<cb, fresh>>
    BY <1>10
    DEF Arrive, Scan, Select, Unavailable, StartRoundTrip, Retry, Cancelled, Disconnect,
        Attempt, AttemptAgain, AttemptsExhausted
  <2> QED  BY <1>3, <2>1, <2>2
<1> HIDE DEF Uses, Times, Breaks
<1> QED  BY <1>2, <1>4, <1>5, <1>6, <1>7, <1>8, <1>9, <1>10 DEF Next

LEMMA UsesInit ==
  ASSUME Init
  PROVE  BInv /\ \A b \in Backends : BreakerOf(b)!Init
<1>1. "answered" \in Places /\ 1 \in Nat  BY DEF Places
<1>2. \A r \in Requests : req[r].pc = "answered" /\ req[r].age = Idle
  BY <1>1, BlankFields DEF Init
<1>3. \A r \in Requests : Timed(req[r])
  BY <1>2 DEF Timed, Away
<1>4. \A b \in Backends : Known(cb[b]) /\ cb[b] = NewBreaker /\ fresh[b] = {}
  BY DEF Init, Known, NewBreaker
<1>5. BInv
  BY <1>3, <1>4, InitInv DEF BInv, Init
<1>6. ASSUME NEW b \in Backends PROVE BreakerOf(b)!Init
  BY <1>2, <1>4, SameConstants DEF BreakerOf!Init
<1> QED  BY <1>5, <1>6

----------------------------------------------------------------------------
(* Theorems                                                                *)

(***************************************************************************)
(* Backend.connections, which least connections compares, is the number of *)
(* requests between IncrementConn and DecrementConn (proxy.go:248, 291),   *)
(* for any number of requests, backends and retries.                       *)
(***************************************************************************)
THEOREM ConnectionsExact == Spec => []ConnsExact
<1>1. IInv => ConnsExact
  BY DEF IInv
<1> QED  BY <1>1, Invariant, PTL

(***************************************************************************)
(* However many retries there are, RoundTrip sends a request a second time *)
(* only if its method is idempotent (proxy.go:255).                        *)
(***************************************************************************)
THEOREM RepeatedOnlyIfSafe == Spec => []SentOnce
<1>1. IInv => SentOnce
  BY DEF IInv, Fine, SentOnce
<1> QED  BY <1>1, Invariant, PTL

(***************************************************************************)
(* selectAvailableBackend: in a pool of any size, while flags and breakers *)
(* change under it, a request is refused with 503 only if no backend was   *)
(* alive with a closed breaker all the time.                               *)
(***************************************************************************)
THEOREM RefusedOnlyIfNone == Spec => []NoNeedless503
<1>1. IInv => NoNeedless503
  BY DEF IInv, Untried, NoNeedless503
<1> QED  BY <1>1, Invariant, PTL

(***************************************************************************)
(* On every path through selection, retries and disconnections, a request  *)
(* that ends has been recorded (proxy.go:152, 309), and more than once     *)
(* only if its transport failed.                                           *)
(***************************************************************************)
THEOREM Recorded == Spec => NoneUnrecorded
<1>1. ASSUME IInv, [Next]_vars
      PROVE  [ \A r \in Requests :
                 req[r].pc \notin Ended /\ req'[r].pc \in Ended =>
                   \/ req'[r].records = 1
                   \/ /\ req'[r].records > 1
                      /\ req[r].pc = "returned" /\ req[r].result \in Failures ]_vars
  BY <1>1, RecordsStep DEF Due
<1> QED  BY <1>1, Invariant, PTL DEF Spec, NoneUnrecorded

(***************************************************************************)
(* The proxy drives each of its breakers by the protocol of Allow and the  *)
(* closure it returns (breaker.go:125): an admission is followed by at     *)
(* most one report, to the same breaker, with the time of that admission,  *)
(* on every path of proxy.go.  The argument is that a request carries an   *)
(* age exactly from its admission to modifyResponse or errorHandler, and   *)
(* keeps its backend all that time.  So every behaviour of the proxy is,   *)
(* seen from one breaker, a behaviour of CircuitBreaker.                   *)
(***************************************************************************)
THEOREM BreakersUsedProperly == Spec => UsesBreakers
<1>1. Init => BInv /\ \A b \in Backends : BreakerOf(b)!Init
  BY UsesInit
<1>2. BInv /\ [Next]_vars => BInv'
  BY UsesStep
<1>3. ASSUME BInv, [Next]_vars
      PROVE  [ \A b \in Backends : BreakerOf(b)!Next \/ UNCHANGED BreakerOf(b)!vars ]_vars
  BY <1>3, UsesStep
<1> QED  BY <1>1, <1>2, <1>3, PTL DEF Spec, UsesBreakers

=============================================================================
