-------------------------- MODULE FastProxyProofs --------------------------
(***************************************************************************)
(* The accounts of the fasthttp engine, its breaker gauge and its map of   *)
(* clients, for any number of requests, backends and chaos handlers.       *)
(***************************************************************************)
EXTENDS FastProxy, FiniteSetTheorems, TLAPS

LEMMA LeastBackend ==
  ASSUME NEW S \in SUBSET Backends, S # {}
  PROVE  Min(S) \in S
<1> DEFINE R == {ss \in Nat \X Nat : ss[1] < ss[2]}
<1>1. S \subseteq Nat
  BY FastProxyAssumption DEF Backends
<1>2. IsWellFoundedOn(R, Nat)
  BY NatLessThanWellFounded DEF OpToRel
<1>3. PICK m \in S : \A n \in S : ~(<<n, m>> \in R)
  BY <1>1, <1>2, WFMin
<1>4. ASSUME NEW n \in S PROVE m <= n
  <2>1. m \in Nat /\ n \in Nat /\ ~(<<n, m>> \in R)
    BY <1>1, <1>3
  <2>2. <<n, m>> \in Nat \X Nat /\ <<n, m>>[1] = n /\ <<n, m>>[2] = m
    BY <2>1
  <2> QED  BY <2>1, <2>2
<1> QED  BY <1>4 DEF Min

(***************************************************************************)
(* How the actions change the local variables of a request.  What the      *)
(* types of the fields are does not matter for this, and is hidden.        *)
(***************************************************************************)
Placing(f, r, pc, n) == [f EXCEPT ![r].pc = pc, ![r].n = n]

LEMMA StepFields ==
  ASSUME NEW f \in [Requests -> Calls], NEW r \in Requests, NEW pc \in Places, NEW n \in Int,
         NEW g, g = Placing(f, r, pc, n)
  PROVE  /\ g \in [Requests -> Calls] /\ \A q \in Requests \ {r} : g[q] = f[q]
         /\ g[r].pc = pc /\ g[r].be = f[r].be /\ g[r].delta = f[r].delta
         /\ g[r].records = f[r].records
<1>1. PICK P, B, L, D, N, R :
        /\ Calls = [pc : P, be : B, list : L, delta : D, n : N, records : R]
        /\ pc \in P /\ n \in N
  BY Zenon DEF Calls
<1>2. f \in [Requests -> [pc : P, be : B, list : L, delta : D, n : N, records : R]]
  BY <1>1
<1>3. /\ g \in [Requests -> [pc : P, be : B, list : L, delta : D, n : N, records : R]]
      /\ \A q \in Requests \ {r} : g[q] = f[q]
      /\ g[r].pc = pc /\ g[r].be = f[r].be /\ g[r].delta = f[r].delta
      /\ g[r].records = f[r].records
  BY ONLY <1>1, <1>2, r \in Requests, g = Placing(f, r, pc, n) DEF Placing
<1> QED  BY <1>1, <1>3

Lists == SUBSET Backends
Selected == Backends \cup {None}
Choosing(f, r, pc, be, list) == [f EXCEPT ![r].pc = pc, ![r].be = be, ![r].list = list]

LEMMA ListFields ==
  ASSUME NEW f \in [Requests -> Calls], NEW r \in Requests, NEW pc \in Places,
         NEW be \in Selected, NEW list \in Lists
  PROVE  LET g == Choosing(f, r, pc, be, list) IN
         /\ g \in [Requests -> Calls] /\ \A q \in Requests \ {r} : g[q] = f[q]
         /\ g[r].pc = pc /\ g[r].be = be /\ g[r].delta = f[r].delta
         /\ g[r].records = f[r].records
<1> DEFINE g == Choosing(f, r, pc, be, list)
<1>0. g = [f EXCEPT ![r].pc = pc, ![r].be = be, ![r].list = list]
  BY DEF Choosing
<1> HIDE DEF g
<1>1. PICK P, B, L, D, N, R :
        /\ Calls = [pc : P, be : B, list : L, delta : D, n : N, records : R]
        /\ pc \in P /\ be \in B /\ list \in L
  BY Zenon DEF Calls, Selected, Lists
<1>2. f \in [Requests -> [pc : P, be : B, list : L, delta : D, n : N, records : R]]
  BY <1>1
<1>3. /\ g \in [Requests -> [pc : P, be : B, list : L, delta : D, n : N, records : R]]
      /\ \A q \in Requests \ {r} : g[q] = f[q]
      /\ g[r].pc = pc /\ g[r].be = be /\ g[r].delta = f[r].delta
      /\ g[r].records = f[r].records
  BY ONLY <1>0, <1>1, <1>2, r \in Requests
<1> QED  BY <1>1, <1>3 DEF g

LEMMA BlankFields ==
  ASSUME NEW k
  PROVE  /\ k \in Nat => Blank(k) \in Calls
         /\ Blank(k).pc = "idle" /\ Blank(k).be = None /\ Blank(k).list = {}
         /\ Blank(k).delta = 1 /\ Blank(k).n = 0 /\ Blank(k).records = k
BY DEF Blank, Calls, Places

Moved(r, pc, be, delta, records) ==
  /\ req' \in [Requests -> Calls] /\ \A q \in Requests \ {r} : req'[q] = req[q]
  /\ req'[r].pc = pc /\ req'[r].be = be
  /\ req'[r].delta = delta /\ req'[r].records = records

\* A step of request r to the place pc, with the same backend.
Advances(r, pc) == Moved(r, pc, req[r].be, req[r].delta, req[r].records)

LEMMA CallTypes ==
  ASSUME TypeOK, NEW r \in Requests
  PROVE  /\ req \in [Requests -> Calls]
         /\ req[r].pc \in Places /\ req[r].be \in Backends \cup {None}
         /\ req[r].list \in SUBSET Backends /\ req[r].delta \in {1, -1}
         /\ req[r].n \in Int /\ req[r].records \in Nat
BY DEF TypeOK, Calls

LEMMA SelectMoves ==
  ASSUME TypeOK, NEW r \in Requests, NEW b \in Backends \cup {None}, Select(r, b)
  PROVE  Moved(r, IF b = None THEN "alternatives" ELSE "allow", b, 1, 0)
<1> DEFINE place == IF b = None THEN "alternatives" ELSE "allow"
           e == [Blank(0) EXCEPT !.pc = place, !.be = b]
<1>1. place \in Places
  BY DEF Places
<1>2. req' = [req EXCEPT ![r] = e]
  BY DEF Select
<1> HIDE DEF place
<1>3. PICK P, B, L, D, N, R :
        /\ Calls = [pc : P, be : B, list : L, delta : D, n : N, records : R]
        /\ place \in P /\ b \in B
  BY <1>1, Zenon DEF Calls
<1>4. Blank(0) \in [pc : P, be : B, list : L, delta : D, n : N, records : R]
  BY <1>3, BlankFields
<1>5. /\ e \in [pc : P, be : B, list : L, delta : D, n : N, records : R]
      /\ e.pc = place /\ e.be = b /\ e.delta = Blank(0).delta /\ e.records = Blank(0).records
  BY ONLY <1>3, <1>4
<1>6. e \in Calls /\ e.delta = 1 /\ e.records = 0
  BY <1>3, <1>5, BlankFields
<1> HIDE DEF e
<1>7. Moved(r, place, b, 1, 0)
  BY <1>2, <1>5, <1>6, CallTypes DEF Moved
<1> QED  BY <1>7 DEF place

LEMMA AdmitMoves ==
  ASSUME TypeOK, NEW r \in Requests, NEW b \in Backends, Admit(r, b)
  PROVE  Moved(r, "count", b, req[r].delta, req[r].records)
<1>1. "count" \in Places /\ {} \in Lists /\ b \in Selected
  BY DEF Places, Lists, Selected
<1>2. req' = Choosing(req, r, "count", b, {})
  BY DEF Admit, Choosing
<1> QED  BY <1>1, <1>2, CallTypes, ListFields DEF Moved

LEMMA ListMoves ==
  ASSUME TypeOK, NEW r \in Requests, NEW b \in Backends \cup {None}, NEW l \in SUBSET Backends,
         req' = Choosing(req, r, "alternatives", b, l)
  PROVE  Moved(r, "alternatives", b, req[r].delta, req[r].records)
<1>1. "alternatives" \in Places /\ req \in [Requests -> Calls] /\ b \in Selected /\ l \in Lists
  BY CallTypes DEF Places, Selected, Lists
<1>2. /\ req' \in [Requests -> Calls] /\ \A q \in Requests \ {r} : req'[q] = req[q]
      /\ req'[r].pc = "alternatives" /\ req'[r].be = b /\ req'[r].delta = req[r].delta
      /\ req'[r].records = req[r].records
  BY <1>1, ListFields
<1> QED  BY <1>2 DEF Moved

LEMMA RefuseMoves ==
  ASSUME TypeOK, NEW r \in Requests
  PROVE  /\ \A list \in SUBSET Backends : RefuseSelected(r, list) => Advances(r, "alternatives")
         /\ RefuseAlternative(r) => Advances(r, "alternatives")
<1> USE CallTypes
<1>0. req[r].be \in Backends \cup {None}  OBVIOUS
<1>1. ASSUME NEW list \in SUBSET Backends, RefuseSelected(r, list)
      PROVE  Advances(r, "alternatives")
  <2> DEFINE l == list \ {req[r].be}
  <2>1. l \in SUBSET Backends  OBVIOUS
  <2>2. req' = [req EXCEPT ![r].pc = "alternatives", ![r].list = l]
    BY <1>1 DEF RefuseSelected
  <2> HIDE DEF l
  <2>3. req' = Choosing(req, r, "alternatives", req[r].be, l)
    BY <2>2 DEF Choosing, Calls
  <2> QED  BY <1>0, <2>1, <2>3, ListMoves DEF Advances
<1>2. ASSUME RefuseAlternative(r) PROVE Advances(r, "alternatives")
  <2> DEFINE l == req[r].list \ {Min(req[r].list)}
  <2>1. l \in SUBSET Backends  OBVIOUS
  <2>2. req' = [req EXCEPT ![r].list = l] /\ req[r].pc = "alternatives"
    BY <1>2 DEF RefuseAlternative
  <2> HIDE DEF l
  <2>3. req' = Choosing(req, r, "alternatives", req[r].be, l)
    BY <2>2 DEF Choosing, Calls
  <2> QED  BY <1>0, <2>1, <2>3, ListMoves DEF Advances
<1> QED  BY <1>1, <1>2

LEMMA UnavailableMoves ==
  ASSUME TypeOK, NEW r \in Requests, Unavailable(r)
  PROVE  Moved(r, "idle", None, 1, req[r].records + 1)
<1>1. req[r].records + 1 \in Nat
  BY CallTypes
<1>2. req' = [req EXCEPT ![r] = Blank(req[r].records + 1)]
  BY DEF Unavailable
<1> QED  BY <1>1, <1>2, CallTypes, BlankFields DEF Moved

LEMMA StepMoves ==
  ASSUME TypeOK, NEW r \in Requests, NEW pc \in Places, NEW n \in Int, Step(r, pc, n)
  PROVE  Advances(r, pc)
<1>1. req' = Placing(req, r, pc, n)
  BY DEF Step, Placing
<1> QED  BY <1>1, CallTypes, StepFields DEF Moved, Advances

LEMMA GaugeMoves ==
  ASSUME TypeOK, NEW r \in Requests
  PROVE  /\ CountConn(r) => Advances(r, "conns")
         /\ ReadConns(r) => Advances(r, "gauge")
         /\ SetBackendActive(r) => Advances(r, "active")
         /\ GetActiveConnections(r) => Advances(r, "store")
         /\ SetActive(r) => IF req[r].delta = 1 THEN Advances(r, "lookup")
                            ELSE Moved(r, "idle", None, 1, req[r].records)
<1> USE CallTypes
<1>0. {"conns", "gauge", "active", "store", "lookup"} \subseteq Places  BY DEF Places
<1>1. CountConn(r) => Advances(r, "conns")
  BY <1>0, StepMoves DEF CountConn
<1>2. ReadConns(r) => Advances(r, "gauge")
  <2>1. ReadConns(r) => conns[req[r].be] \in Int
    BY DEF ReadConns, TypeOK
  <2> QED  BY <1>0, <2>1, StepMoves DEF ReadConns
<1>3. SetBackendActive(r) => Advances(r, "active")
  BY <1>0, StepMoves DEF SetBackendActive
<1>4. GetActiveConnections(r) => Advances(r, "store")
  BY <1>0, StepMoves DEF GetActiveConnections, TypeOK
<1>5. ASSUME SetActive(r), req[r].delta = 1 PROVE Advances(r, "lookup")
  <2>1. req' = [req EXCEPT ![r] = [req[r] EXCEPT !.pc = "lookup", !.n = 0]]
    BY <1>5 DEF SetActive
  <2>2. req' = Placing(req, r, "lookup", 0)
    BY <2>1 DEF Placing, Calls
  <2> QED  BY <1>0, <2>2, StepFields DEF Moved, Advances
<1>6. ASSUME SetActive(r), req[r].delta # 1
      PROVE  Moved(r, "idle", None, 1, req[r].records)
  <2>1. req' = [req EXCEPT ![r] = Blank(req[r].records)]
    BY <1>6 DEF SetActive
  <2> QED  BY <2>1, BlankFields DEF Moved
<1> QED  BY <1>1, <1>2, <1>3, <1>4, <1>5, <1>6

LEMMA ClientMoves ==
  ASSUME TypeOK, NEW r \in Requests
  PROVE  /\ Lookup(r) => Advances(r, IF Hit(r) THEN "send" ELSE "missed")
         /\ BeginStore(r) => Advances(r, "writing")
         /\ EndStore(r) => Advances(r, "send")
<1>0. {"missed", "writing", "send"} \subseteq Places  BY DEF Places
<1>1. ASSUME NEW pc \in {"missed", "writing", "send"}, req' = [req EXCEPT ![r].pc = pc]
      PROVE  Advances(r, pc)
  <2>1. pc \in Places  BY <1>0
  <2>2. req' = Placing(req, r, pc, req[r].n)
    BY <1>1, CallTypes DEF Placing, Calls
  <2> QED  BY <2>1, <2>2, CallTypes, StepFields DEF Moved, Advances
<1>2. Lookup(r) /\ Hit(r) => Advances(r, "send")
  BY <1>1 DEF Lookup
<1>3. Lookup(r) /\ ~Hit(r) => Advances(r, "missed")
  BY <1>1 DEF Lookup
<1>4. BeginStore(r) => Advances(r, "writing")
  BY <1>1 DEF BeginStore
<1>5. EndStore(r) => Advances(r, "send")
  BY <1>1 DEF EndStore
<1> QED  BY <1>2, <1>3, <1>4, <1>5

LEMMA DoMoves ==
  ASSUME TypeOK, NEW r \in Requests, NEW success, Do(r, success)
  PROVE  Moved(r, "count", req[r].be, -1, req[r].records + 1)
<1>1. /\ req' = [req EXCEPT ![r].pc = "count", ![r].delta = -1,
                            ![r].records = req[r].records + 1]
      /\ req[r].records + 1 \in Nat /\ "count" \in Places /\ -1 \in {1, -1}
  BY CallTypes DEF Do, Recorded, Places
<1>2. PICK P, B, L, D, N, R :
        /\ Calls = [pc : P, be : B, list : L, delta : D, n : N, records : R]
        /\ "count" \in P /\ -1 \in D /\ req[r].records + 1 \in R
  BY <1>1, Zenon DEF Calls
<1>3. req \in [Requests -> [pc : P, be : B, list : L, delta : D, n : N, records : R]]
  BY <1>2, CallTypes
<1>4. /\ req' \in [Requests -> [pc : P, be : B, list : L, delta : D, n : N, records : R]]
      /\ \A q \in Requests \ {r} : req'[q] = req[q]
      /\ req'[r].pc = "count" /\ req'[r].be = req[r].be /\ req'[r].delta = -1
      /\ req'[r].records = req[r].records + 1
  BY ONLY <1>1, <1>2, <1>3, r \in Requests
<1> QED  BY <1>2, <1>4 DEF Moved

----------------------------------------------------------------------------
(* Types                                                                   *)

LEMMA InitType == Init => TypeOK
<1> SUFFICES ASSUME Init PROVE TypeOK  OBVIOUS
<1>1. req \in [Requests -> Calls] /\ \A r \in Requests : req[r].pc = "idle"
  BY BlankFields DEF Init
<1>2. /\ chaos \in [Handlers -> [pc : {"idle", "publish", "done"},
                                 host : Backends \cup {None}, to : States]]
      /\ \A h \in Handlers : chaos[h].pc = "idle"
  BY DEF Init, States
<1>3. "closed" \in States /\ arrivals \in 0 .. MaxArrivals
  BY FastProxyAssumption DEF States, Init
<1>4. /\ circuit \in [Backends -> States] /\ circuitGauge \in [Backends -> States]
      /\ conns \in [Backends -> Int] /\ connsGauge \in [Backends -> Int] /\ active \in Int
      /\ owed \in [Backends -> Int]
  BY <1>3 DEF Init
<1>5. clients \in SUBSET Backends /\ overtaken \in SUBSET Backends
  BY DEF Init
<1>6. aborted \in BOOLEAN /\ overlapped \in BOOLEAN
  BY Zenon DEF Init
<1> QED  BY <1>1, <1>2, <1>3, <1>4, <1>5, <1>6 DEF TypeOK

LEMMA AfterReportState ==
  ASSUME NEW s \in States, NEW success
  PROVE  AfterReport(s, success) \subseteq States
BY DEF AfterReport, States

LEMMA EnterType ==
  ASSUME TypeOK, NEW b \in Backends, NEW to \in States, Enter(b, to)
  PROVE  /\ circuit' \in [Backends -> States] /\ circuitGauge' \in [Backends -> States]
         /\ overtaken' \in SUBSET Backends
BY DEF Enter, OnStateChange, TypeOK

LEMMA MovedType ==
  ASSUME TypeOK, NEW r \in Requests, NEW pc, NEW be, NEW delta, NEW k,
         Moved(r, pc, be, delta, k), pc \in {"idle", "alternatives"} \/ be \in Backends
  PROVE  /\ req' \in [Requests -> Calls]
         /\ \A q \in Requests : req'[q].pc \notin {"idle", "alternatives"} => req'[q].be \in Backends
BY DEF Moved, TypeOK

LEMMA HasBackend ==
  ASSUME TypeOK, NEW r \in Requests, req[r].pc \notin {"idle", "alternatives"}
  PROVE  req[r].be \in Backends
BY DEF TypeOK

LEMMA TypeStep == TypeOK /\ [Next]_vars => TypeOK'
<1> SUFFICES ASSUME TypeOK, [Next]_vars PROVE TypeOK'  OBVIOUS
<1> USE DEF breakers, gauges
<1>1. ASSUME NEW b \in Backends, Poll(b) PROVE TypeOK'
  <2>1. "half-open" \in States  BY DEF States
  <2> QED  BY <1>1, <2>1, EnterType DEF Poll, TypeOK
<1>2. ASSUME NEW h \in Handlers, NEW b \in Backends, NEW to \in {"open", "closed"},
             ChaosForce(h, b, to)
      PROVE  TypeOK'
  <2>1. to \in States  BY DEF States
  <2>2. /\ circuit' \in [Backends -> States] /\ circuitGauge' \in [Backends -> States]
        /\ overtaken' \in SUBSET Backends
    BY <1>2, <2>1, EnterType DEF ChaosForce
  <2>3. /\ chaos' \in [Handlers -> [pc : {"idle", "publish", "done"},
                                    host : Backends \cup {None}, to : States]]
        /\ \A g \in Handlers : chaos'[g].pc = "publish" => chaos'[g].host \in Backends
    BY <1>2, <2>1 DEF ChaosForce, TypeOK
  <2> QED  BY <1>2, <2>2, <2>3 DEF ChaosForce, TypeOK
<1>3. ASSUME NEW h \in Handlers, ChaosPublish(h) PROVE TypeOK'
  BY <1>3 DEF ChaosPublish, TypeOK
<1>4. ASSUME NEW r \in Requests, NEW b \in Backends \cup {None}, Select(r, b) PROVE TypeOK'
  <2>1. arrivals' \in 0 .. MaxArrivals
    BY <1>4, FastProxyAssumption DEF Select, TypeOK
  <2> QED  BY <1>4, <2>1, SelectMoves, MovedType DEF Select, TypeOK
<1>5. ASSUME NEW r \in Requests, NEW b \in Backends, Admit(r, b),
             UNCHANGED <<circuit, circuitGauge, overtaken, gauges, clients, aborted, chaos,
                         arrivals>>
      PROVE  TypeOK'
  <2>1. owed' \in [Backends -> Int]
    BY <1>5 DEF Admit, TypeOK
  <2> QED  BY <1>5, <2>1, AdmitMoves, MovedType DEF TypeOK
<1>6. ASSUME NEW r \in Requests, AllowSelected(r) PROVE TypeOK'
  BY <1>5, <1>6, HasBackend DEF AllowSelected
<1>7. ASSUME NEW r \in Requests, AllowAlternative(r) PROVE TypeOK'
  <2>1. Min(req[r].list) \in Backends
    BY <1>7, CallTypes, LeastBackend DEF AllowAlternative
  <2> QED  BY <1>5, <1>7, <2>1 DEF AllowAlternative
<1>8. ASSUME NEW r \in Requests, NEW list \in SUBSET Backends,
             RefuseSelected(r, list) \/ RefuseAlternative(r)
      PROVE  TypeOK'
  <2>1. Advances(r, "alternatives")
    BY <1>8, RefuseMoves
  <2> QED  BY <1>8, <2>1, MovedType DEF Advances, RefuseSelected, RefuseAlternative, TypeOK
<1>9. ASSUME NEW r \in Requests, Unavailable(r) PROVE TypeOK'
  BY <1>9, UnavailableMoves, MovedType DEF Unavailable, TypeOK
<1>10. ASSUME NEW r \in Requests, NEW pc, Advances(r, pc), InGauges(r),
              conns' \in [Backends -> Int], connsGauge' \in [Backends -> Int], active' \in Int,
              overlapped' = (overlapped \/ \E q \in Requests \ {r} : InGauges(q)),
              UNCHANGED <<breakers, clients, aborted, chaos, arrivals>>
       PROVE  TypeOK'
  <2> DEFINE o == overlapped \/ \E q \in Requests \ {r} : InGauges(q)
  <2>1. overlapped' = o /\ o \in BOOLEAN
    BY <1>10
  <2>2. req[r].be \in Backends
    BY <1>10, HasBackend DEF InGauges
  <2> HIDE DEF o
  <2> QED  BY <1>10, <2>1, <2>2, MovedType DEF Advances, TypeOK
<1>11. ASSUME NEW r \in Requests, CountConn(r) PROVE TypeOK'
  <2>1. conns' \in [Backends -> Int]
    BY <1>11, CallTypes DEF CountConn, Counted, TypeOK
  <2> QED  BY <1>10, <1>11, <2>1, GaugeMoves DEF CountConn, Step, InGauges, TypeOK
<1>12. ASSUME NEW r \in Requests, ReadConns(r) PROVE TypeOK'
  BY <1>10, <1>12, GaugeMoves DEF ReadConns, Step, InGauges, TypeOK
<1>13. ASSUME NEW r \in Requests, SetBackendActive(r) PROVE TypeOK'
  <2>1. connsGauge' \in [Backends -> Int]
    BY <1>13, CallTypes DEF SetBackendActive, TypeOK
  <2> QED  BY <1>10, <1>13, <2>1, GaugeMoves DEF SetBackendActive, Step, InGauges, TypeOK
<1>14. ASSUME NEW r \in Requests, GetActiveConnections(r) PROVE TypeOK'
  BY <1>10, <1>14, GaugeMoves DEF GetActiveConnections, Step, InGauges, TypeOK
<1>15. ASSUME NEW r \in Requests, SetActive(r) PROVE TypeOK'
  <2>1. active' \in Int /\ InGauges(r)
    BY <1>15, CallTypes DEF SetActive, NewActive, InGauges
  <2>2. CASE req[r].delta = 1
    BY <1>10, <1>15, <2>1, <2>2, GaugeMoves DEF SetActive, TypeOK
  <2>3. CASE req[r].delta # 1
    <3> DEFINE o == overlapped \/ \E q \in Requests \ {r} : InGauges(q)
    <3>1. overlapped' = o /\ o \in BOOLEAN
      BY <1>15 DEF SetActive
    <3> HIDE DEF o
    <3>2. Moved(r, "idle", None, 1, req[r].records)
      BY <1>15, <2>3, GaugeMoves
    <3> QED  BY <1>15, <2>1, <3>1, <3>2, MovedType DEF SetActive, TypeOK
  <2> QED  BY <2>2, <2>3
<1>16. ASSUME NEW r \in Requests, Lookup(r) \/ BeginStore(r) \/ EndStore(r) PROVE TypeOK'
  <2>1. req[r].be \in Backends
    BY <1>16, HasBackend DEF Lookup, BeginStore, EndStore
  <2>2. \E pc : Advances(r, pc)
    BY <1>16, ClientMoves
  <2>3. clients' \in SUBSET Backends
    BY <1>16, <2>1 DEF Lookup, BeginStore, EndStore, TypeOK
  <2> QED
    BY <1>16, <2>1, <2>2, <2>3, MovedType DEF Advances, Lookup, BeginStore, EndStore, TypeOK
<1>17. ASSUME NEW r \in Requests, NEW success \in BOOLEAN, Do(r, success) PROVE TypeOK'
  <2>1. req[r].be \in Backends /\ circuit[req[r].be] \in States
    BY <1>17 DEF Do, TypeOK
  <2>2. PICK s \in States : Enter(req[r].be, s)
    BY <1>17, <2>1, AfterReportState DEF Do
  <2>3. owed' \in [Backends -> Int]
    BY <1>17, <2>1 DEF Do, CbDone, TypeOK
  <2> QED  BY <1>17, <2>1, <2>2, <2>3, DoMoves, MovedType, EnterType DEF Do, TypeOK
<1>18. ASSUME NEW r \in Requests, Abort(r) PROVE TypeOK'
  BY <1>18 DEF Abort, TypeOK
<1>19. CASE UNCHANGED vars
  BY <1>19 DEF vars, TypeOK
<1> QED
  BY <1>1, <1>2, <1>3, <1>4, <1>6, <1>7, <1>8, <1>9, <1>11, <1>12, <1>13, <1>14, <1>15,
     <1>16, <1>17, <1>18, <1>19 DEF Next, Serve

----------------------------------------------------------------------------
(* Accounts                                                                *)

\* The request was admitted by the breaker of b and has not reported.
Carries(q, b) ==
  q.be = b /\ q.delta = 1 /\ q.pc \notin {"idle", "allow", "alternatives"}

(***************************************************************************)
(* AccountedOnce does not say that a request is only recorded and reported *)
(* on its way out; that the places outside of the gauges are passed on the *)
(* way in carries it.                                                      *)
(***************************************************************************)
InOrder(q) ==
  /\ q.records = IF q.pc = "idle" \/ q.delta = -1 THEN 1 ELSE 0
  /\ q.pc \notin {"count", "conns", "gauge", "active", "store"} => q.delta = 1

Account ==
  /\ \A b \in Backends : owed[b] = Cardinality(Admitted(b))
  /\ \A r \in Requests : InOrder(req[r])

LEMMA AdmittedFinite ==
  ASSUME NEW b
  PROVE  /\ IsFiniteSet(Admitted(b)) /\ Cardinality(Admitted(b)) \in Nat
         /\ Admitted(b) = {r \in Requests : Carries(req[r], b)}
<1>1. Admitted(b) \subseteq Requests
  BY DEF Admitted
<1>2. IsFiniteSet(Admitted(b))
  BY <1>1, FastProxyAssumption, FS_Subset
<1>3. Cardinality(Admitted(b)) \in Nat
  BY <1>2, FS_CardinalityType
<1>4. Admitted(b) = {r \in Requests : Carries(req[r], b)}
  BY DEF Admitted, Carries
<1> QED  BY <1>2, <1>3, <1>4

\* A step of a request that neither admits nor reports it.
LEMMA AccountKept ==
  ASSUME TypeOK, Account, NEW r \in Requests, NEW pc, NEW be, NEW delta, NEW k,
         Moved(r, pc, be, delta, k), InOrder(req'[r]), owed' = owed,
         \A b \in Backends : Carries(req'[r], b) <=> Carries(req[r], b)
  PROVE  Account'
<1>1. \A q \in Requests \ {r} : req'[q] = req[q]
  BY DEF Moved
<1>2. ASSUME NEW b \in Backends PROVE Admitted(b)' = Admitted(b)
  <2>1. \A q \in Requests : Carries(req'[q], b) <=> Carries(req[q], b)
    BY <1>1
  <2>2. Admitted(b)' = {q \in Requests : Carries(req'[q], b)}
    BY DEF Admitted, Carries
  <2> QED  BY <2>1, <2>2, AdmittedFinite
<1>3. \A q \in Requests : InOrder(req'[q])
  BY <1>1 DEF Account
<1> QED  BY <1>2, <1>3 DEF Account, InOrder

LEMMA AccountAdmit ==
  ASSUME TypeOK, Account, NEW r \in Requests, NEW b \in Backends, Admit(r, b),
         req[r].pc \in {"allow", "alternatives"}
  PROVE  Account'
<1>1. Moved(r, "count", b, req[r].delta, req[r].records)
  BY AdmitMoves
<1>2. /\ \A q \in Requests \ {r} : req'[q] = req[q]
      /\ req'[r].pc = "count" /\ req'[r].be = b /\ req'[r].delta = 1 /\ req'[r].records = 0
  BY <1>1 DEF Moved, Account, InOrder
<1>3. ASSUME NEW c \in Backends
      PROVE  /\ Admitted(c)' = IF c = b THEN Admitted(c) \cup {r} ELSE Admitted(c)
             /\ r \notin Admitted(c)
  <2>1. Admitted(c)' = {q \in Requests : Carries(req'[q], c)}
    BY DEF Admitted, Carries
  <2>2. Carries(req'[r], c) <=> c = b
    BY <1>2 DEF Carries
  <2>3. ~Carries(req[r], c)
    BY DEF Carries
  <2> QED  BY <1>2, <2>1, <2>2, <2>3, AdmittedFinite
<1>4. owed' = [owed EXCEPT ![b] = @ + 1]
  BY DEF Admit
<1>5. ASSUME NEW c \in Backends PROVE owed'[c] = Cardinality(Admitted(c)')
  <2>1. CASE c = b
    <3>1. Cardinality(Admitted(c)') = Cardinality(Admitted(c)) + 1
      <4>1. IsFiniteSet(Admitted(c)) /\ r \notin Admitted(c)
        BY <1>3, AdmittedFinite
      <4>2. Cardinality(Admitted(c) \cup {r}) = Cardinality(Admitted(c)) + 1
        BY <4>1, FS_AddElement
      <4> QED  BY <1>3, <2>1, <4>2
    <3> QED  BY <1>4, <2>1, <3>1 DEF Account, TypeOK
  <2>2. CASE c # b
    BY <1>3, <1>4, <2>2 DEF Account, TypeOK
  <2> QED  BY <2>1, <2>2
<1>6. \A q \in Requests : InOrder(req'[q])
  BY <1>2 DEF Account, InOrder
<1> QED  BY <1>5, <1>6 DEF Account, InOrder

LEMMA AccountDo ==
  ASSUME TypeOK, Account, NEW r \in Requests, NEW success, Do(r, success)
  PROVE  Account'
<1> DEFINE b == req[r].be
<1>1. b \in Backends /\ req[r].pc = "send" /\ req[r].delta = 1 /\ req[r].records = 0
  BY HasBackend DEF Do, Account, InOrder
<1>2. Moved(r, "count", b, -1, req[r].records + 1)
  BY DoMoves
<1>3. /\ \A q \in Requests \ {r} : req'[q] = req[q]
      /\ req'[r].pc = "count" /\ req'[r].delta = -1 /\ req'[r].records = 1
  BY <1>1, <1>2 DEF Moved
<1>4. owed' = [owed EXCEPT ![b] = @ - 1]
  BY DEF Do, CbDone
<1>5. \A c \in Backends : Carries(req[r], c) <=> c = b
  BY <1>1 DEF Carries
<1> HIDE DEF b
<1>6. ASSUME NEW c \in Backends
      PROVE  /\ Admitted(c)' = IF c = b THEN Admitted(c) \ {r} ELSE Admitted(c)
             /\ c = b => r \in Admitted(c)
  <2>1. Admitted(c)' = {q \in Requests : Carries(req'[q], c)}
    BY DEF Admitted, Carries
  <2>2. ~Carries(req'[r], c)
    BY <1>3 DEF Carries
  <2> QED  BY <1>3, <1>5, <2>1, <2>2, AdmittedFinite
<1>7. ASSUME NEW c \in Backends PROVE owed'[c] = Cardinality(Admitted(c)')
  <2>1. CASE c = b
    <3>1. Cardinality(Admitted(c)') = Cardinality(Admitted(c)) - 1
      BY <1>6, <2>1, AdmittedFinite, FS_RemoveElement
    <3> QED  BY <1>1, <1>4, <2>1, <3>1 DEF Account, TypeOK
  <2>2. CASE c # b
    BY <1>1, <1>4, <1>6, <2>2 DEF Account, TypeOK
  <2> QED  BY <2>1, <2>2
<1>8. \A q \in Requests : InOrder(req'[q])
  BY <1>3 DEF Account, InOrder
<1> QED  BY <1>7, <1>8 DEF Account, InOrder

LEMMA AccountStep == TypeOK /\ Account /\ [Next]_vars => Account'
<1> SUFFICES ASSUME TypeOK, Account, [Next]_vars PROVE Account'  OBVIOUS
<1> USE DEF breakers, gauges
<1>0. \A r \in Requests : InOrder(req[r])
  BY DEF Account
<1>1. CASE UNCHANGED <<req, owed>>
  BY <1>1 DEF Account, InOrder, Admitted
<1>2. ASSUME NEW r \in Requests, NEW b \in Backends \cup {None}, Select(r, b) PROVE Account'
  <2>1. Moved(r, IF b = None THEN "alternatives" ELSE "allow", b, 1, 0)
    BY <1>2, SelectMoves
  <2>2. InOrder(req'[r]) /\ \A c \in Backends : ~Carries(req'[r], c) /\ ~Carries(req[r], c)
    BY <1>2, <2>1 DEF Select, Moved, InOrder, Carries
  <2> QED  BY <1>2, <2>1, <2>2, AccountKept DEF Select
<1>3. ASSUME NEW r \in Requests, AllowSelected(r) PROVE Account'
  BY <1>3, HasBackend, AccountAdmit DEF AllowSelected
<1>4. ASSUME NEW r \in Requests, AllowAlternative(r) PROVE Account'
  <2>1. Min(req[r].list) \in Backends
    BY <1>4, CallTypes, LeastBackend DEF AllowAlternative
  <2> QED  BY <1>4, <2>1, AccountAdmit DEF AllowAlternative
<1>5. ASSUME NEW r \in Requests, NEW list \in SUBSET Backends,
             RefuseSelected(r, list) \/ RefuseAlternative(r)
      PROVE  Account'
  <2>1. Moved(r, "alternatives", req[r].be, req[r].delta, req[r].records)
    BY <1>5, RefuseMoves DEF Advances
  <2>2. req[r].pc \in {"allow", "alternatives"} /\ owed' = owed
    BY <1>5 DEF RefuseSelected, RefuseAlternative
  <2>3. InOrder(req'[r]) /\ \A c \in Backends : ~Carries(req'[r], c) /\ ~Carries(req[r], c)
    BY <1>0, <2>1, <2>2 DEF Moved, InOrder, Carries
  <2> QED  BY <2>1, <2>2, <2>3, AccountKept
<1>6. ASSUME NEW r \in Requests, Unavailable(r) PROVE Account'
  <2>1. Moved(r, "idle", None, 1, req[r].records + 1)
    BY <1>6, UnavailableMoves
  <2>2. req[r].pc = "alternatives" /\ owed' = owed
    BY <1>6 DEF Unavailable
  <2>3. InOrder(req'[r]) /\ \A c \in Backends : ~Carries(req'[r], c) /\ ~Carries(req[r], c)
    BY <1>0, <2>1, <2>2 DEF Moved, InOrder, Carries
  <2> QED  BY <2>1, <2>2, <2>3, AccountKept
<1>7. ASSUME NEW r \in Requests, NEW pc, Advances(r, pc), owed' = owed,
             pc \notin {"idle", "allow", "alternatives"},
             req[r].pc \notin {"idle", "allow", "alternatives"},
             req[r].delta = 1 \/ pc \in {"count", "conns", "gauge", "active", "store"}
      PROVE  Account'
  <2>1. Moved(r, pc, req[r].be, req[r].delta, req[r].records)
    BY <1>7 DEF Advances
  <2>2. InOrder(req'[r]) /\ \A c \in Backends : Carries(req'[r], c) <=> Carries(req[r], c)
    BY <1>0, <1>7, <2>1 DEF Moved, InOrder, Carries
  <2> QED  BY <1>7, <2>1, <2>2, AccountKept
<1>8. ASSUME NEW r \in Requests,
             CountConn(r) \/ ReadConns(r) \/ SetBackendActive(r) \/ GetActiveConnections(r)
      PROVE  Account'
  BY <1>7, <1>8, GaugeMoves
  DEF CountConn, ReadConns, SetBackendActive, GetActiveConnections, Step
<1>9. ASSUME NEW r \in Requests, SetActive(r) PROVE Account'
  <2>1. CASE req[r].delta = 1
    BY <1>7, <1>9, <2>1, GaugeMoves DEF SetActive
  <2>2. CASE req[r].delta # 1
    <3>1. Moved(r, "idle", None, 1, req[r].records)
      BY <1>9, <2>2, GaugeMoves
    <3>2. req[r].delta = -1 /\ req[r].records = 1
      <4>1. req[r].delta \in {1, -1}  BY CallTypes
      <4>2. InOrder(req[r])  BY <1>0
      <4> QED  BY <2>2, <4>1, <4>2 DEF InOrder
    <3>3. InOrder(req'[r]) /\ \A c \in Backends : ~Carries(req'[r], c) /\ ~Carries(req[r], c)
      BY <2>2, <3>1, <3>2 DEF Moved, InOrder, Carries
    <3> QED  BY <1>9, <3>1, <3>3, AccountKept DEF SetActive
  <2> QED  BY <2>1, <2>2
<1>10. ASSUME NEW r \in Requests, Lookup(r) \/ BeginStore(r) \/ EndStore(r) PROVE Account'
  <2>1. req[r].pc \in {"lookup", "missed", "writing"} /\ owed' = owed
    BY <1>10 DEF Lookup, BeginStore, EndStore
  <2>2. req[r].delta = 1
    BY <1>0, <2>1 DEF InOrder
  <2> QED  BY <1>7, <1>10, <2>1, <2>2, ClientMoves
<1>11. ASSUME NEW r \in Requests, NEW success, Do(r, success) PROVE Account'
  BY <1>11, AccountDo
<1>12. (\E b \in Backends : Poll(b))
       \/ (\E h \in Handlers, b \in Backends, to \in {"open", "closed"} : ChaosForce(h, b, to))
       \/ (\E h \in Handlers : ChaosPublish(h))
       \/ (\E r \in Requests : Abort(r)) \/ UNCHANGED vars => UNCHANGED <<req, owed>>
  BY DEF Poll, ChaosForce, ChaosPublish, Abort, vars
<1> QED
  BY <1>1, <1>2, <1>3, <1>4, <1>5, <1>6, <1>8, <1>9, <1>10, <1>11, <1>12 DEF Next, Serve

----------------------------------------------------------------------------
(* The breaker gauge and the map of clients                                *)

\* Strengthening of BreakerGaugeAgrees: what a handler is about to write is
\* the state of the breaker, unless that has changed since the handler forced it.
GaugeInv ==
  /\ BreakerGaugeAgrees
  /\ \A h \in Handlers :
       chaos[h].pc = "publish" /\ chaos[h].host \notin overtaken
         => chaos[h].to = circuit[chaos[h].host]

LEMMA EnterAgrees ==
  ASSUME TypeOK, GaugeInv, NEW b \in Backends, NEW to, Enter(b, to)
  PROVE  /\ BreakerGaugeAgrees'
         /\ circuit'[b] = to
         /\ \A h \in Handlers :
              chaos[h].pc = "publish" /\ chaos[h].host \notin overtaken'
                => chaos[h].to = circuit'[chaos[h].host]
<1>1. circuit' = [circuit EXCEPT ![b] = to] /\ circuit'[b] = to
  BY DEF Enter, TypeOK
<1>2. CASE to = circuit[b]
  <2>1. UNCHANGED <<circuit, circuitGauge, overtaken>>
    BY <1>1, <1>2 DEF Enter, TypeOK
  <2> QED  BY <1>1, <2>1 DEF GaugeInv, BreakerGaugeAgrees
<1>3. CASE to # circuit[b]
  <2>1. /\ circuitGauge' = [circuitGauge EXCEPT ![b] = to]
        /\ overtaken' = IF Pending(b) THEN overtaken \cup {b} ELSE overtaken \ {b}
    BY <1>3 DEF Enter, OnStateChange
  <2>2. BreakerGaugeAgrees'
    BY <1>1, <2>1 DEF GaugeInv, BreakerGaugeAgrees, TypeOK
  <2>3. ASSUME NEW h \in Handlers, chaos[h].pc = "publish",
               chaos[h].host \notin overtaken'
        PROVE  chaos[h].to = circuit'[chaos[h].host]
    <3>1. chaos[h].host # b
      BY <2>1, <2>3 DEF Pending
    <3>2. chaos[h].host \notin overtaken /\ chaos[h].host \in Backends
      BY <2>1, <2>3, <3>1 DEF TypeOK
    <3> QED  BY <1>1, <2>3, <3>1, <3>2 DEF GaugeInv, TypeOK
  <2> QED  BY <1>1, <2>2, <2>3
<1> QED  BY <1>2, <1>3

LEMMA GaugeStep == TypeOK /\ GaugeInv /\ [Next]_vars => GaugeInv'
<1> SUFFICES ASSUME TypeOK, GaugeInv, [Next]_vars PROVE GaugeInv'
  OBVIOUS
<1> USE DEF breakers, gauges
<1>1. ASSUME NEW b \in Backends, Poll(b) PROVE GaugeInv'
  BY <1>1, EnterAgrees DEF Poll, GaugeInv
<1>2. ASSUME NEW h \in Handlers, NEW b \in Backends, NEW to, ChaosForce(h, b, to)
      PROVE  GaugeInv'
  <2>1. chaos' = [chaos EXCEPT ![h] = [pc |-> "publish", host |-> b, to |-> to]]
    BY <1>2 DEF ChaosForce
  <2>2. /\ BreakerGaugeAgrees' /\ circuit'[b] = to
        /\ \A g \in Handlers :
             chaos[g].pc = "publish" /\ chaos[g].host \notin overtaken'
               => chaos[g].to = circuit'[chaos[g].host]
    BY <1>2, EnterAgrees DEF ChaosForce
  <2>3. /\ chaos'[h].host = b /\ chaos'[h].to = to
        /\ \A g \in Handlers : g # h => chaos'[g] = chaos[g]
    BY <2>1 DEF TypeOK
  <2>4. \A g \in Handlers :
          chaos'[g].pc = "publish" /\ chaos'[g].host \notin overtaken'
            => chaos'[g].to = circuit'[chaos'[g].host]
    BY <2>2, <2>3
  <2> QED  BY <2>2, <2>4 DEF GaugeInv
<1>3. ASSUME NEW h \in Handlers, ChaosPublish(h) PROVE GaugeInv'
  <2>1. /\ chaos[h].pc = "publish" /\ chaos[h].host \in Backends
        /\ circuitGauge' = [circuitGauge EXCEPT ![chaos[h].host] = chaos[h].to]
        /\ UNCHANGED <<circuit, overtaken>>
    BY <1>3 DEF ChaosPublish, TypeOK
  <2>2. BreakerGaugeAgrees'
    BY <2>1 DEF GaugeInv, BreakerGaugeAgrees, TypeOK
  <2>3. /\ chaos'[h].pc = "done"
        /\ \A g \in Handlers : g # h => chaos'[g] = chaos[g]
    BY <1>3 DEF ChaosPublish, TypeOK
  <2> QED  BY <2>1, <2>2, <2>3 DEF GaugeInv
<1>4. ASSUME NEW r \in Requests, NEW success, Do(r, success) PROVE GaugeInv'
  <2>1. req[r].be \in Backends
    BY <1>4, HasBackend DEF Do
  <2> QED  BY <1>4, <2>1, EnterAgrees DEF Do, GaugeInv
<1>5. CASE UNCHANGED <<circuit, circuitGauge, overtaken, chaos>>
  BY <1>5 DEF GaugeInv, BreakerGaugeAgrees
<1>6. ASSUME NEW r \in Requests, Serve(r), ~ \E success \in BOOLEAN : Do(r, success)
      PROVE  UNCHANGED <<circuit, circuitGauge, overtaken, chaos>>
  BY <1>6 DEF Serve, AllowSelected, AllowAlternative, RefuseAlternative, RefuseSelected,
    Unavailable, CountConn, ReadConns, SetBackendActive, GetActiveConnections, SetActive,
    Step, Lookup, BeginStore, EndStore
<1>7. (\E r \in Requests, b \in Backends \cup {None} : Select(r, b))
      \/ (\E r \in Requests : Abort(r)) \/ UNCHANGED vars
        => UNCHANGED <<circuit, circuitGauge, overtaken, chaos>>
  BY DEF Select, Abort, vars
<1> QED  BY <1>1, <1>2, <1>3, <1>4, <1>5, <1>6, <1>7 DEF Next

LEMMA WarmStep == TypeOK /\ Warm /\ [Next]_vars => Warm' /\ aborted' = aborted
<1> SUFFICES ASSUME TypeOK, Warm, [Next]_vars PROVE Warm' /\ aborted' = aborted
  OBVIOUS
<1> USE DEF breakers, gauges
<1>1. ASSUME NEW r \in Requests, NEW pc, NEW be, NEW delta, NEW k, Moved(r, pc, be, delta, k),
             pc \notin {"missed", "writing"}, UNCHANGED <<clients, aborted>>
      PROVE  Warm' /\ aborted' = aborted
  BY <1>1 DEF Warm, Moved
<1>2. ASSUME NEW r \in Requests, NEW b \in Backends \cup {None}, Select(r, b)
      PROVE  Warm' /\ aborted' = aborted
  BY <1>1, <1>2, SelectMoves DEF Select
<1>3. ASSUME NEW r \in Requests, AllowSelected(r) PROVE Warm' /\ aborted' = aborted
  BY <1>1, <1>3, AdmitMoves, HasBackend DEF AllowSelected
<1>4. ASSUME NEW r \in Requests, AllowAlternative(r) PROVE Warm' /\ aborted' = aborted
  <2>1. Min(req[r].list) \in Backends
    BY <1>4, CallTypes, LeastBackend DEF AllowAlternative
  <2> QED  BY <1>1, <1>4, <2>1, AdmitMoves DEF AllowAlternative
<1>5. ASSUME NEW r \in Requests, NEW list \in SUBSET Backends,
             RefuseSelected(r, list) \/ RefuseAlternative(r)
      PROVE  Warm' /\ aborted' = aborted
  BY <1>1, <1>5, RefuseMoves DEF Advances, RefuseSelected, RefuseAlternative
<1>6. ASSUME NEW r \in Requests, Unavailable(r) PROVE Warm' /\ aborted' = aborted
  <2>1. Moved(r, "idle", None, 1, req[r].records + 1) /\ UNCHANGED <<clients, aborted>>
    BY <1>6, UnavailableMoves DEF Unavailable
  <2> QED  BY <1>1, <2>1
<1>7. ASSUME NEW r \in Requests,
             CountConn(r) \/ ReadConns(r) \/ SetBackendActive(r) \/ GetActiveConnections(r)
      PROVE  Warm' /\ aborted' = aborted
  BY <1>1, <1>7, GaugeMoves
  DEF Advances, CountConn, ReadConns, SetBackendActive, GetActiveConnections, Step
<1>8. ASSUME NEW r \in Requests, SetActive(r) PROVE Warm' /\ aborted' = aborted
  BY <1>1, <1>8, GaugeMoves DEF Advances, SetActive
<1>9. ASSUME NEW r \in Requests, Lookup(r) PROVE Warm' /\ aborted' = aborted
  <2>1. Hit(r)
    BY <1>9, HasBackend DEF Lookup, Hit, Warm
  <2>2. /\ Moved(r, "send", req[r].be, req[r].delta, req[r].records)
        /\ UNCHANGED <<clients, aborted>>
    BY <1>9, <2>1, ClientMoves DEF Advances, Lookup
  <2> QED  BY <1>1, <2>2
<1>10. ASSUME NEW r \in Requests, NEW success, Do(r, success) PROVE Warm' /\ aborted' = aborted
  <2>1. /\ Moved(r, "count", req[r].be, -1, req[r].records + 1)
        /\ UNCHANGED <<clients, aborted>>
    BY <1>10, DoMoves DEF Do
  <2> QED  BY <1>1, <2>1
<1>11. \A r \in Requests : ~BeginStore(r) /\ ~EndStore(r) /\ ~Abort(r)
  BY DEF Warm, BeginStore, EndStore, Abort
<1>12. CASE UNCHANGED <<req, clients, aborted>>
  BY <1>12 DEF Warm
<1>13. (\E b \in Backends : Poll(b))
       \/ (\E h \in Handlers, b \in Backends, to \in {"open", "closed"} : ChaosForce(h, b, to))
       \/ (\E h \in Handlers : ChaosPublish(h)) \/ UNCHANGED vars
         => UNCHANGED <<req, clients, aborted>>
  BY DEF Poll, ChaosForce, ChaosPublish, vars
<1> QED
  BY <1>2, <1>3, <1>4, <1>5, <1>6, <1>7, <1>8, <1>9, <1>10, <1>11, <1>12, <1>13
  DEF Next, Serve

----------------------------------------------------------------------------
(* The connection gauges                                                   *)

\* Between the first and the last access to the gauges.
Writing(q) == q.pc \in {"conns", "gauge", "active", "store"}

\* The request is part of the count of b, and of the global gauge.
InConns(q, b) ==
  q.be = b /\ IF q.delta = 1 THEN q.pc \in Forwarding \/ Writing(q) ELSE q.pc = "count"

InActive(q) == q.delta = -1 \/ q.pc \in Forwarding

\* The count is behind no gauge but that of a backend whose gauge is due.
Due(b) == \E r \in Requests : req[r].be = b /\ req[r].pc \in {"conns", "gauge"}

(***************************************************************************)
(* GaugesExact speaks of the moments at which nobody writes.  In between,  *)
(* without overlap, one request at most has begun to write, those that     *)
(* have arrived since have done nothing yet, and what the writer has read  *)
(* is still true.  The counts themselves are exact all the time.           *)
(***************************************************************************)
OneWriter ==
  /\ \A r, q \in Requests : Writing(req[r]) /\ Writing(req[q]) => r = q
  /\ active = Cardinality({r \in Requests : InActive(req[r])})
  /\ \A r \in Requests : req[r].pc = "store" => req[r].n = active
  /\ \A r \in Requests : req[r].pc = "gauge" => req[r].n = conns[req[r].be]
  /\ \A b \in Backends : connsGauge[b] = conns[b] \/ Due(b)

Gauges ==
  /\ \A b \in Backends : conns[b] = Cardinality({r \in Requests : InConns(req[r], b)})
  /\ ~overlapped => OneWriter

\* How the number of requests with a property changes when one request moves.
LEMMA OneMoves ==
  ASSUME NEW S, NEW T, NEW r \in Requests, S \subseteq Requests, T \subseteq Requests,
         \A q \in Requests \ {r} : q \in T <=> q \in S
  PROVE  /\ Cardinality(S) \in Nat
         /\ (r \in T <=> r \in S) => Cardinality(T) = Cardinality(S)
         /\ r \in T /\ r \notin S => Cardinality(T) = Cardinality(S) + 1
         /\ r \notin T /\ r \in S => Cardinality(T) = Cardinality(S) - 1
<1>1. IsFiniteSet(S) /\ Cardinality(S) \in Nat
  BY FastProxyAssumption, FS_Subset, FS_CardinalityType
<1>2. (r \in T <=> r \in S) => T = S
  OBVIOUS
<1>3. ASSUME r \in T, r \notin S PROVE Cardinality(T) = Cardinality(S) + 1
  <2>1. T = S \cup {r}
    BY <1>3
  <2>2. Cardinality(S \cup {r}) = Cardinality(S) + 1
    BY <1>1, <1>3, FS_AddElement
  <2> QED  BY <2>1, <2>2
<1>4. ASSUME r \notin T, r \in S PROVE Cardinality(T) = Cardinality(S) - 1
  <2>1. T = S \ {r}
    BY <1>4
  <2>2. Cardinality(S \ {r}) = Cardinality(S) - 1
    BY <1>1, <1>4, FS_RemoveElement
  <2> QED  BY <2>1, <2>2
<1> QED  BY <1>1, <1>2, <1>3, <1>4

LEMMA ConnsMove ==
  ASSUME NEW r \in Requests, \A q \in Requests \ {r} : req'[q] = req[q], NEW b
  PROVE  LET N == Cardinality({q \in Requests : InConns(req[q], b)})
             M == Cardinality({q \in Requests : InConns(req'[q], b)})
         IN  /\ N \in Nat
             /\ (InConns(req'[r], b) <=> InConns(req[r], b)) => M = N
             /\ InConns(req'[r], b) /\ ~InConns(req[r], b) => M = N + 1
             /\ ~InConns(req'[r], b) /\ InConns(req[r], b) => M = N - 1
<1> DEFINE S == {q \in Requests : InConns(req[q], b)}
           T == {q \in Requests : InConns(req'[q], b)}
<1>1. /\ S \subseteq Requests /\ T \subseteq Requests
      /\ \A q \in Requests \ {r} : q \in T <=> q \in S
      /\ r \in S <=> InConns(req[r], b)
      /\ r \in T <=> InConns(req'[r], b)
  OBVIOUS
<1> HIDE DEF S, T
<1>2. /\ Cardinality(S) \in Nat
      /\ (r \in T <=> r \in S) => Cardinality(T) = Cardinality(S)
      /\ r \in T /\ r \notin S => Cardinality(T) = Cardinality(S) + 1
      /\ r \notin T /\ r \in S => Cardinality(T) = Cardinality(S) - 1
  BY <1>1, OneMoves
<1> QED  BY <1>1, <1>2 DEF S, T

LEMMA ActiveMove ==
  ASSUME NEW r \in Requests, \A q \in Requests \ {r} : req'[q] = req[q]
  PROVE  LET N == Cardinality({q \in Requests : InActive(req[q])})
             M == Cardinality({q \in Requests : InActive(req'[q])})
         IN  /\ N \in Nat
             /\ (InActive(req'[r]) <=> InActive(req[r])) => M = N
             /\ InActive(req'[r]) /\ ~InActive(req[r]) => M = N + 1
             /\ ~InActive(req'[r]) /\ InActive(req[r]) => M = N - 1
<1> DEFINE S == {q \in Requests : InActive(req[q])}
           T == {q \in Requests : InActive(req'[q])}
<1>1. /\ S \subseteq Requests /\ T \subseteq Requests
      /\ \A q \in Requests \ {r} : q \in T <=> q \in S
      /\ r \in S <=> InActive(req[r])
      /\ r \in T <=> InActive(req'[r])
  OBVIOUS
<1> HIDE DEF S, T
<1>2. /\ Cardinality(S) \in Nat
      /\ (r \in T <=> r \in S) => Cardinality(T) = Cardinality(S)
      /\ r \in T /\ r \notin S => Cardinality(T) = Cardinality(S) + 1
      /\ r \notin T /\ r \in S => Cardinality(T) = Cardinality(S) - 1
  BY <1>1, OneMoves
<1> QED  BY <1>1, <1>2 DEF S, T

\* The invariant in the next state, in terms of what a proof has at hand.
LEMMA GaugesPrimed ==
  ASSUME \A b \in Backends : conns'[b] = Cardinality({r \in Requests : InConns(req'[r], b)}),
         ~overlapped' =>
           /\ \A r, q \in Requests : Writing(req'[r]) /\ Writing(req'[q]) => r = q
           /\ active' = Cardinality({r \in Requests : InActive(req'[r])})
           /\ \A r \in Requests : req'[r].pc = "store" => req'[r].n = active'
           /\ \A r \in Requests : req'[r].pc = "gauge" => req'[r].n = conns'[req'[r].be]
           /\ \A b \in Backends :
                \/ connsGauge'[b] = conns'[b]
                \/ \E r \in Requests : req'[r].be = b /\ req'[r].pc \in {"conns", "gauge"}
  PROVE  Gauges'
BY DEF Gauges, OneWriter, InConns, InActive, Writing, Due

\* A step of a request that is not among the writers.
LEMMA GaugesAside ==
  ASSUME TypeOK, Gauges, NEW r \in Requests, NEW pc, NEW be, NEW delta, NEW k,
         Moved(r, pc, be, delta, k), ~Writing(req[r]), ~Writing(req'[r]), UNCHANGED gauges,
         \A b \in Backends : InConns(req'[r], b) <=> InConns(req[r], b),
         InActive(req'[r]) <=> InActive(req[r])
  PROVE  Gauges'
<1>1. \A q \in Requests \ {r} : req'[q] = req[q]
  BY DEF Moved
<1>2. conns' = conns /\ connsGauge' = connsGauge /\ active' = active /\ overlapped' = overlapped
  BY DEF gauges
<1>3. \A b \in Backends : conns'[b] = Cardinality({q \in Requests : InConns(req'[q], b)})
  BY <1>1, <1>2, ConnsMove DEF Gauges
<1>4. ASSUME ~overlapped
      PROVE  /\ \A p, q \in Requests : Writing(req'[p]) /\ Writing(req'[q]) => p = q
             /\ active' = Cardinality({q \in Requests : InActive(req'[q])})
             /\ \A q \in Requests : req'[q].pc = "store" => req'[q].n = active'
             /\ \A q \in Requests : req'[q].pc = "gauge" => req'[q].n = conns'[req'[q].be]
             /\ \A b \in Backends :
                  \/ connsGauge'[b] = conns'[b]
                  \/ \E q \in Requests : req'[q].be = b /\ req'[q].pc \in {"conns", "gauge"}
  <2>0. OneWriter
    BY <1>4 DEF Gauges
  <2>1. active' = Cardinality({q \in Requests : InActive(req'[q])})
    BY <1>1, <1>2, <2>0, ActiveMove DEF OneWriter
  <2>2. /\ req[r].pc \notin {"conns", "gauge", "active", "store"}
        /\ req'[r].pc \notin {"conns", "gauge", "active", "store"}
    BY DEF Writing
  <2>3. \A p, q \in Requests : Writing(req'[p]) /\ Writing(req'[q]) => p = q
    BY <1>1, <2>0 DEF OneWriter
  <2>4. /\ \A q \in Requests : req'[q].pc = "store" => req'[q].n = active'
        /\ \A q \in Requests : req'[q].pc = "gauge" => req'[q].n = conns'[req'[q].be]
    BY <1>1, <1>2, <2>0, <2>2 DEF OneWriter
  <2>5. ASSUME NEW b \in Backends, connsGauge'[b] # conns'[b]
        PROVE  \E q \in Requests : req'[q].be = b /\ req'[q].pc \in {"conns", "gauge"}
    <3>1. PICK q \in Requests : req[q].be = b /\ req[q].pc \in {"conns", "gauge"}
      BY <1>2, <2>0, <2>5 DEF OneWriter, Due
    <3>2. q # r
      BY <2>2, <3>1
    <3> QED  BY <1>1, <3>1, <3>2
  <2> QED  BY <2>1, <2>3, <2>4, <2>5
<1> QED  BY <1>2, <1>3, <1>4, GaugesPrimed

\* A step of a writer: without overlap it is the only one at the gauges.
LEMMA Alone ==
  ASSUME TypeOK, Gauges, NEW r \in Requests, NEW pc, NEW be, NEW delta, NEW k,
         Moved(r, pc, be, delta, k),
         overlapped' = (overlapped \/ \E q \in Requests \ {r} : InGauges(q)), ~overlapped'
  PROVE  /\ OneWriter
         /\ \A q \in Requests \ {r} : /\ req'[q] = req[q] /\ ~Writing(req[q])
                                      /\ req[q].pc # "count"
<1>1. ~overlapped /\ \A q \in Requests \ {r} : ~InGauges(q)
  OBVIOUS
<1> QED  BY <1>1 DEF Gauges, Moved, InGauges, Writing

LEMMA StepValue ==
  ASSUME TypeOK, NEW r \in Requests, NEW pc, NEW n, Step(r, pc, n)
  PROVE  req'[r].n = n
<1>1. req' = [req EXCEPT ![r].pc = pc, ![r].n = n] /\ req[r] \in Calls
  BY CallTypes DEF Step, TypeOK
<1> QED  BY <1>1, CallTypes DEF Calls

LEMMA CountConnGauges ==
  ASSUME TypeOK, Account, Gauges, NEW r \in Requests, CountConn(r)
  PROVE  Gauges'
<1> DEFINE b == req[r].be
           d == req[r].delta
<1>0. b \in Backends /\ d \in {1, -1} /\ req[r].pc = "count" /\ conns \in [Backends -> Int]
  BY HasBackend, CallTypes DEF CountConn, TypeOK
<1>1. Advances(r, "conns")
  BY GaugeMoves
<1>2. /\ \A q \in Requests \ {r} : req'[q] = req[q]
      /\ req'[r].pc = "conns" /\ req'[r].be = b /\ req'[r].delta = d
  BY <1>1 DEF Advances, Moved
<1>3. /\ conns' = [conns EXCEPT ![b] = @ + d] /\ connsGauge' = connsGauge /\ active' = active
      /\ overlapped' = (overlapped \/ \E q \in Requests \ {r} : InGauges(q))
  BY DEF CountConn, Counted, Step
<1>4. /\ \A c \in Backends \ {b} : InConns(req'[r], c) <=> InConns(req[r], c)
      /\ d = 1 => InConns(req'[r], b) /\ ~InConns(req[r], b)
      /\ d = -1 => ~InConns(req'[r], b) /\ InConns(req[r], b)
      /\ InActive(req'[r]) <=> InActive(req[r])
  BY <1>0, <1>2 DEF InConns, InActive, Writing, Forwarding
<1> HIDE DEF b, d
<1>5. ASSUME NEW c \in Backends
      PROVE  conns'[c] = Cardinality({q \in Requests : InConns(req'[q], c)})
  <2>1. conns[c] = Cardinality({q \in Requests : InConns(req[q], c)})
    BY DEF Gauges
  <2>2. CASE c = b
    <3>1. conns'[c] = conns[c] + d
      BY <1>0, <1>3, <2>2
    <3>2. CASE d = 1
      <4>1. InConns(req'[r], c) /\ ~InConns(req[r], c)
        BY <1>4, <2>2, <3>2
      <4>2. Cardinality({q \in Requests : InConns(req'[q], c)}) = conns[c] + 1
        BY <1>2, <2>1, <4>1, ConnsMove
      <4> QED  BY <3>1, <3>2, <4>2
    <3>3. CASE d = -1
      <4>1. ~InConns(req'[r], c) /\ InConns(req[r], c)
        BY <1>4, <2>2, <3>3
      <4>2. /\ conns[c] \in Nat
            /\ Cardinality({q \in Requests : InConns(req'[q], c)}) = conns[c] - 1
        BY <1>2, <2>1, <4>1, ConnsMove
      <4>3. conns'[c] = conns[c] - 1
        BY <3>1, <3>3, <4>2
      <4> QED  BY <4>2, <4>3
    <3> QED  BY <1>0, <3>2, <3>3
  <2>3. CASE c # b
    <3>1. conns'[c] = conns[c]
      BY <1>0, <1>3, <2>3
    <3> QED  BY <1>2, <1>4, <2>1, <2>3, <3>1, ConnsMove
  <2> QED  BY <2>2, <2>3
<1>6. ASSUME ~overlapped'
      PROVE  /\ \A p, q \in Requests : Writing(req'[p]) /\ Writing(req'[q]) => p = q
             /\ active' = Cardinality({q \in Requests : InActive(req'[q])})
             /\ \A q \in Requests : req'[q].pc = "store" => req'[q].n = active'
             /\ \A q \in Requests : req'[q].pc = "gauge" => req'[q].n = conns'[req'[q].be]
             /\ \A c \in Backends :
                  \/ connsGauge'[c] = conns'[c]
                  \/ \E q \in Requests : req'[q].be = c /\ req'[q].pc \in {"conns", "gauge"}
  <2>1. /\ OneWriter
        /\ \A q \in Requests \ {r} : req'[q] = req[q] /\ ~Writing(req[q])
    BY <1>1, <1>3, <1>6, Alone DEF Advances
  <2>2. active' = Cardinality({q \in Requests : InActive(req'[q])})
    BY <1>2, <1>3, <1>4, <2>1, ActiveMove DEF OneWriter
  <2>3. \A q \in Requests : req'[q].pc \notin {"gauge", "store"}
    BY <1>2, <2>1 DEF Writing
  <2>4. ASSUME NEW c \in Backends
        PROVE  \/ connsGauge'[c] = conns'[c]
               \/ \E q \in Requests : req'[q].be = c /\ req'[q].pc \in {"conns", "gauge"}
    <3>1. CASE c = b
      BY <1>2, <3>1
    <3>2. CASE c # b
      <4>1. conns'[c] = conns[c]
        BY <1>0, <1>3, <3>2
      <4>2. ~Due(c)
        BY <1>0, <2>1 DEF Due, Writing
      <4> QED  BY <1>3, <2>1, <4>1, <4>2 DEF OneWriter
    <3> QED  BY <3>1, <3>2
  <2> QED  BY <2>1, <2>2, <2>3, <2>4
<1> QED  BY <1>5, <1>6, GaugesPrimed

LEMMA ReadConnsGauges ==
  ASSUME TypeOK, Account, Gauges, NEW r \in Requests, ReadConns(r)
  PROVE  Gauges'
<1> DEFINE b == req[r].be
           d == req[r].delta
<1>0. b \in Backends /\ d \in {1, -1} /\ req[r].pc = "conns"
  BY HasBackend, CallTypes DEF ReadConns
<1>1. Advances(r, "gauge")
  BY GaugeMoves
<1>2. /\ \A q \in Requests \ {r} : req'[q] = req[q]
      /\ req'[r].pc = "gauge" /\ req'[r].be = b /\ req'[r].delta = d
  BY <1>1 DEF Advances, Moved
<1>3. /\ conns' = conns /\ connsGauge' = connsGauge /\ active' = active
      /\ overlapped' = (overlapped \/ \E q \in Requests \ {r} : InGauges(q))
  BY DEF ReadConns, Step
<1>4. req'[r].n = conns[b]
  BY StepValue DEF ReadConns
<1>5. /\ \A c \in Backends : InConns(req'[r], c) <=> InConns(req[r], c)
      /\ InActive(req'[r]) <=> InActive(req[r])
  BY <1>0, <1>2 DEF InConns, InActive, Writing, Forwarding
<1> HIDE DEF b, d
<1>6. \A c \in Backends : conns'[c] = Cardinality({q \in Requests : InConns(req'[q], c)})
  BY <1>2, <1>3, <1>5, ConnsMove DEF Gauges
<1>7. ASSUME ~overlapped'
      PROVE  /\ \A p, q \in Requests : Writing(req'[p]) /\ Writing(req'[q]) => p = q
             /\ active' = Cardinality({q \in Requests : InActive(req'[q])})
             /\ \A q \in Requests : req'[q].pc = "store" => req'[q].n = active'
             /\ \A q \in Requests : req'[q].pc = "gauge" => req'[q].n = conns'[req'[q].be]
             /\ \A c \in Backends :
                  \/ connsGauge'[c] = conns'[c]
                  \/ \E q \in Requests : req'[q].be = c /\ req'[q].pc \in {"conns", "gauge"}
  <2>1. /\ OneWriter
        /\ \A q \in Requests \ {r} : req'[q] = req[q] /\ ~Writing(req[q])
    BY <1>1, <1>3, <1>7, Alone DEF Advances
  <2>2. active' = Cardinality({q \in Requests : InActive(req'[q])})
    BY <1>2, <1>3, <1>5, <2>1, ActiveMove DEF OneWriter
  <2>3. /\ \A q \in Requests : req'[q].pc # "store"
        /\ \A q \in Requests : req'[q].pc = "gauge" => q = r
    BY <1>2, <2>1 DEF Writing
  <2>4. ASSUME NEW c \in Backends
        PROVE  \/ connsGauge'[c] = conns'[c]
               \/ \E q \in Requests : req'[q].be = c /\ req'[q].pc \in {"conns", "gauge"}
    <3>1. CASE c = b
      BY <1>2, <3>1
    <3>2. CASE c # b
      <4>1. ~Due(c)
        BY <3>2, <2>1 DEF Due, Writing, b
      <4> QED  BY <1>3, <2>1, <4>1 DEF OneWriter
    <3> QED  BY <3>1, <3>2
  <2> QED  BY <1>2, <1>3, <1>4, <2>1, <2>2, <2>3, <2>4
<1> QED  BY <1>6, <1>7, GaugesPrimed

LEMMA SetBackendActiveGauges ==
  ASSUME TypeOK, Account, Gauges, NEW r \in Requests, SetBackendActive(r)
  PROVE  Gauges'
<1> DEFINE b == req[r].be
           d == req[r].delta
<1>0. b \in Backends /\ d \in {1, -1} /\ req[r].pc = "gauge" /\ connsGauge \in [Backends -> Int]
  BY HasBackend, CallTypes DEF SetBackendActive, TypeOK
<1>1. Advances(r, "active")
  BY GaugeMoves
<1>2. /\ \A q \in Requests \ {r} : req'[q] = req[q]
      /\ req'[r].pc = "active" /\ req'[r].be = b /\ req'[r].delta = d
  BY <1>1 DEF Advances, Moved
<1>3. /\ conns' = conns /\ connsGauge' = [connsGauge EXCEPT ![b] = req[r].n] /\ active' = active
      /\ overlapped' = (overlapped \/ \E q \in Requests \ {r} : InGauges(q))
  BY DEF SetBackendActive, Step
<1>5. /\ \A c \in Backends : InConns(req'[r], c) <=> InConns(req[r], c)
      /\ InActive(req'[r]) <=> InActive(req[r])
  BY <1>0, <1>2 DEF InConns, InActive, Writing, Forwarding
<1> HIDE DEF d
<1>6. \A c \in Backends : conns'[c] = Cardinality({q \in Requests : InConns(req'[q], c)})
  BY <1>2, <1>3, <1>5, ConnsMove DEF Gauges
<1>7. ASSUME ~overlapped'
      PROVE  /\ \A p, q \in Requests : Writing(req'[p]) /\ Writing(req'[q]) => p = q
             /\ active' = Cardinality({q \in Requests : InActive(req'[q])})
             /\ \A q \in Requests : req'[q].pc = "store" => req'[q].n = active'
             /\ \A q \in Requests : req'[q].pc = "gauge" => req'[q].n = conns'[req'[q].be]
             /\ \A c \in Backends :
                  \/ connsGauge'[c] = conns'[c]
                  \/ \E q \in Requests : req'[q].be = c /\ req'[q].pc \in {"conns", "gauge"}
  <2>1. /\ OneWriter
        /\ \A q \in Requests \ {r} : req'[q] = req[q] /\ ~Writing(req[q])
    BY <1>1, <1>3, <1>7, Alone DEF Advances
  <2>2. active' = Cardinality({q \in Requests : InActive(req'[q])})
    BY <1>2, <1>3, <1>5, <2>1, ActiveMove DEF OneWriter
  <2>3. \A q \in Requests : req'[q].pc \notin {"store", "gauge"}
    BY <1>2, <2>1 DEF Writing
  <2>4. req[r].n = conns[b]
    BY <1>0, <2>1 DEF OneWriter
  <2>5. ASSUME NEW c \in Backends PROVE connsGauge'[c] = conns'[c]
    <3>1. CASE c = b
      BY <1>0, <1>3, <2>4, <3>1
    <3>2. CASE c # b
      <4>1. ~Due(c)
        BY <3>2, <2>1 DEF Due, Writing
      <4>2. connsGauge'[c] = connsGauge[c]
        BY <1>0, <1>3, <3>2
      <4> QED  BY <1>3, <2>1, <4>1, <4>2 DEF OneWriter
    <3> QED  BY <3>1, <3>2
  <2> QED  BY <2>1, <2>2, <2>3, <2>5
<1> QED  BY <1>6, <1>7, GaugesPrimed

LEMMA GetActiveGauges ==
  ASSUME TypeOK, Account, Gauges, NEW r \in Requests, GetActiveConnections(r)
  PROVE  Gauges'
<1> DEFINE d == req[r].delta
<1>0. d \in {1, -1} /\ req[r].pc = "active"
  BY CallTypes DEF GetActiveConnections
<1>1. Advances(r, "store")
  BY GaugeMoves
<1>2. /\ \A q \in Requests \ {r} : req'[q] = req[q]
      /\ req'[r].pc = "store" /\ req'[r].be = req[r].be /\ req'[r].delta = d
  BY <1>1 DEF Advances, Moved
<1>3. /\ conns' = conns /\ connsGauge' = connsGauge /\ active' = active
      /\ overlapped' = (overlapped \/ \E q \in Requests \ {r} : InGauges(q))
  BY DEF GetActiveConnections, Step
<1>4. req'[r].n = active
  BY StepValue DEF GetActiveConnections
<1>5. /\ \A c \in Backends : InConns(req'[r], c) <=> InConns(req[r], c)
      /\ InActive(req'[r]) <=> InActive(req[r])
  BY <1>0, <1>2 DEF InConns, InActive, Writing, Forwarding
<1> HIDE DEF d
<1>6. \A c \in Backends : conns'[c] = Cardinality({q \in Requests : InConns(req'[q], c)})
  BY <1>2, <1>3, <1>5, ConnsMove DEF Gauges
<1>7. ASSUME ~overlapped'
      PROVE  /\ \A p, q \in Requests : Writing(req'[p]) /\ Writing(req'[q]) => p = q
             /\ active' = Cardinality({q \in Requests : InActive(req'[q])})
             /\ \A q \in Requests : req'[q].pc = "store" => req'[q].n = active'
             /\ \A q \in Requests : req'[q].pc = "gauge" => req'[q].n = conns'[req'[q].be]
             /\ \A c \in Backends :
                  \/ connsGauge'[c] = conns'[c]
                  \/ \E q \in Requests : req'[q].be = c /\ req'[q].pc \in {"conns", "gauge"}
  <2>1. /\ OneWriter
        /\ \A q \in Requests \ {r} : req'[q] = req[q] /\ ~Writing(req[q])
    BY <1>1, <1>3, <1>7, Alone DEF Advances
  <2>2. active' = Cardinality({q \in Requests : InActive(req'[q])})
    BY <1>2, <1>3, <1>5, <2>1, ActiveMove DEF OneWriter
  <2>3. /\ \A q \in Requests : req'[q].pc # "gauge"
        /\ \A q \in Requests : req'[q].pc = "store" => q = r
        /\ \A c \in Backends : ~Due(c)
    BY <1>0, <1>2, <2>1 DEF Writing, Due
  <2> QED  BY <1>3, <1>4, <2>1, <2>2, <2>3 DEF OneWriter
<1> QED  BY <1>6, <1>7, GaugesPrimed

LEMMA SetActiveGauges ==
  ASSUME TypeOK, Account, Gauges, NEW r \in Requests, SetActive(r)
  PROVE  Gauges'
<1> DEFINE d == req[r].delta
<1>0. /\ d \in {1, -1} /\ req[r].pc = "store" /\ req[r].be \in Backends
      /\ req[r].n \in Int
  BY HasBackend, CallTypes DEF SetActive
<1>1. PICK pc, be, delta, k :
        /\ Moved(r, pc, be, delta, k) /\ delta = 1
        /\ IF d = 1 THEN pc = "lookup" /\ be = req[r].be ELSE pc = "idle"
  BY GaugeMoves DEF Advances
<1>2. /\ \A q \in Requests \ {r} : req'[q] = req[q]
      /\ req'[r].delta = 1
      /\ IF d = 1 THEN req'[r].pc = "lookup" /\ req'[r].be = req[r].be ELSE req'[r].pc = "idle"
  BY <1>1 DEF Moved
<1>3. /\ conns' = conns /\ connsGauge' = connsGauge /\ active' = req[r].n + d
      /\ overlapped' = (overlapped \/ \E q \in Requests \ {r} : InGauges(q))
  BY DEF SetActive, NewActive
<1>4. /\ \A c \in Backends : InConns(req'[r], c) <=> InConns(req[r], c)
      /\ d = 1 => InActive(req'[r]) /\ ~InActive(req[r])
      /\ d = -1 => ~InActive(req'[r]) /\ InActive(req[r])
      /\ ~Writing(req'[r])
  BY <1>0, <1>2 DEF InConns, InActive, Writing, Forwarding
<1> HIDE DEF d
<1>5. \A c \in Backends : conns'[c] = Cardinality({q \in Requests : InConns(req'[q], c)})
  BY <1>2, <1>3, <1>4, ConnsMove DEF Gauges
<1>6. ASSUME ~overlapped'
      PROVE  /\ \A p, q \in Requests : Writing(req'[p]) /\ Writing(req'[q]) => p = q
             /\ active' = Cardinality({q \in Requests : InActive(req'[q])})
             /\ \A q \in Requests : req'[q].pc = "store" => req'[q].n = active'
             /\ \A q \in Requests : req'[q].pc = "gauge" => req'[q].n = conns'[req'[q].be]
             /\ \A c \in Backends :
                  \/ connsGauge'[c] = conns'[c]
                  \/ \E q \in Requests : req'[q].be = c /\ req'[q].pc \in {"conns", "gauge"}
  <2>1. /\ OneWriter
        /\ \A q \in Requests \ {r} : req'[q] = req[q] /\ ~Writing(req[q])
    BY <1>1, <1>3, <1>6, Alone
  <2>2. active' = Cardinality({q \in Requests : InActive(req'[q])})
    <3>1. active' = active + d /\ active = Cardinality({q \in Requests : InActive(req[q])})
      BY <1>0, <1>3, <2>1 DEF OneWriter
    <3>2. CASE d = 1
      BY <1>2, <1>4, <3>1, <3>2, ActiveMove
    <3>3. CASE d = -1
      <4>1. /\ active \in Nat
            /\ Cardinality({q \in Requests : InActive(req'[q])}) = active - 1
        BY <1>2, <1>4, <3>1, <3>3, ActiveMove
      <4>2. active' = active - 1
        BY <3>1, <3>3, <4>1
      <4> QED  BY <4>1, <4>2
    <3> QED  BY <1>0, <3>2, <3>3
  <2>3. /\ \A q \in Requests : ~Writing(req'[q])
        /\ \A c \in Backends : ~Due(c)
    BY <1>0, <1>4, <2>1 DEF Writing, Due
  <2>4. \A q \in Requests : req'[q].pc \notin {"gauge", "store"}
    BY <2>3 DEF Writing
  <2> QED  BY <1>3, <2>1, <2>2, <2>3, <2>4 DEF OneWriter
<1> QED  BY <1>5, <1>6, GaugesPrimed

LEMMA ConnGaugeStep == TypeOK /\ Account /\ Gauges /\ [Next]_vars => Gauges'
<1> SUFFICES ASSUME TypeOK, Account, Gauges, [Next]_vars PROVE Gauges'  OBVIOUS
<1>0. \A r \in Requests : InOrder(req[r])
  BY DEF Account
<1>1. CASE UNCHANGED <<req, gauges>>
  BY <1>1 DEF gauges, Gauges, OneWriter, InConns, InActive, Writing, Due
<1>2. ASSUME NEW r \in Requests, NEW b \in Backends \cup {None}, Select(r, b) PROVE Gauges'
  <2>1. Moved(r, IF b = None THEN "alternatives" ELSE "allow", b, 1, 0)
    BY <1>2, SelectMoves
  <2>2. req[r].pc = "idle" /\ req[r].delta = 1 /\ UNCHANGED gauges
    BY <1>0, <1>2 DEF Select, InOrder
  <2>3. /\ ~Writing(req[r]) /\ ~Writing(req'[r]) /\ ~InActive(req[r]) /\ ~InActive(req'[r])
        /\ \A c \in Backends : ~InConns(req'[r], c) /\ ~InConns(req[r], c)
    BY <2>1, <2>2 DEF Moved, Writing, InActive, InConns, Forwarding
  <2> QED  BY <2>1, <2>2, <2>3, GaugesAside
<1>3. ASSUME NEW r \in Requests, NEW pc, NEW be, NEW delta, NEW k, Moved(r, pc, be, delta, k),
             req[r].pc \in {"allow", "alternatives"}, UNCHANGED gauges,
             pc \in {"idle", "alternatives", "count"}, delta = 1
      PROVE  Gauges'
  <2>1. req[r].delta = 1
    BY <1>0, <1>3 DEF InOrder
  <2>2. /\ ~Writing(req[r]) /\ ~Writing(req'[r]) /\ ~InActive(req[r]) /\ ~InActive(req'[r])
        /\ \A c \in Backends : ~InConns(req'[r], c) /\ ~InConns(req[r], c)
    BY <1>3, <2>1 DEF Moved, Writing, InActive, InConns, Forwarding
  <2> QED  BY <1>3, <2>2, GaugesAside
<1>4. \A r \in Requests : req[r].pc \in {"allow", "alternatives"} => req[r].delta = 1
  BY <1>0 DEF InOrder
<1>5. ASSUME NEW r \in Requests, AllowSelected(r) PROVE Gauges'
  <2>1. req[r].be \in Backends /\ req[r].pc = "allow" /\ UNCHANGED gauges /\ Admit(r, req[r].be)
    BY <1>5, HasBackend DEF AllowSelected
  <2>2. Moved(r, "count", req[r].be, req[r].delta, req[r].records)
    BY <2>1, AdmitMoves
  <2> QED  BY <1>3, <1>4, <2>1, <2>2
<1>6. ASSUME NEW r \in Requests, AllowAlternative(r) PROVE Gauges'
  <2>1. Min(req[r].list) \in Backends
    BY <1>6, CallTypes, LeastBackend DEF AllowAlternative
  <2>2. Moved(r, "count", Min(req[r].list), req[r].delta, req[r].records)
    BY <1>6, <2>1, AdmitMoves DEF AllowAlternative
  <2>3. req[r].pc = "alternatives" /\ UNCHANGED gauges
    BY <1>6 DEF AllowAlternative
  <2> QED  BY <1>3, <1>4, <2>2, <2>3
<1>7. ASSUME NEW r \in Requests, NEW list \in SUBSET Backends,
             RefuseSelected(r, list) \/ RefuseAlternative(r)
      PROVE  Gauges'
  <2>1. Moved(r, "alternatives", req[r].be, req[r].delta, req[r].records)
    BY <1>7, RefuseMoves DEF Advances
  <2>2. req[r].pc \in {"allow", "alternatives"} /\ UNCHANGED gauges
    BY <1>7 DEF RefuseSelected, RefuseAlternative
  <2> QED  BY <1>3, <1>4, <2>1, <2>2
<1>8. ASSUME NEW r \in Requests, Unavailable(r) PROVE Gauges'
  <2>1. Moved(r, "idle", None, 1, req[r].records + 1)
    BY <1>8, UnavailableMoves
  <2>2. req[r].pc = "alternatives" /\ UNCHANGED gauges
    BY <1>8 DEF Unavailable
  <2> QED  BY <1>3, <2>1, <2>2
<1>9. ASSUME NEW r \in Requests, Lookup(r) \/ BeginStore(r) \/ EndStore(r) PROVE Gauges'
  <2>1. req[r].pc \in {"lookup", "missed", "writing"} /\ UNCHANGED gauges
    BY <1>9 DEF Lookup, BeginStore, EndStore
  <2>2. req[r].delta = 1
    BY <1>0, <2>1 DEF InOrder
  <2>3. PICK pc \in {"missed", "writing", "send"} :
          Moved(r, pc, req[r].be, req[r].delta, req[r].records)
    BY <1>9, ClientMoves DEF Advances
  <2>4. /\ ~Writing(req[r]) /\ ~Writing(req'[r]) /\ InActive(req[r]) /\ InActive(req'[r])
        /\ \A c \in Backends : InConns(req'[r], c) <=> InConns(req[r], c)
    BY <2>1, <2>2, <2>3 DEF Moved, Writing, InActive, InConns, Forwarding
  <2> QED  BY <2>1, <2>3, <2>4, GaugesAside
<1>10. ASSUME NEW r \in Requests, NEW success, Do(r, success) PROVE Gauges'
  <2>1. Moved(r, "count", req[r].be, -1, req[r].records + 1)
    BY <1>10, DoMoves
  <2>2. req[r].pc = "send" /\ req[r].delta = 1 /\ UNCHANGED gauges
    BY <1>0, <1>10 DEF Do, InOrder
  <2>3. /\ ~Writing(req[r]) /\ ~Writing(req'[r]) /\ InActive(req[r]) /\ InActive(req'[r])
        /\ \A c \in Backends : InConns(req'[r], c) <=> InConns(req[r], c)
    BY <2>1, <2>2 DEF Moved, Writing, InActive, InConns, Forwarding
  <2> QED  BY <2>1, <2>2, <2>3, GaugesAside
<1>11. (\E b \in Backends : Poll(b))
       \/ (\E h \in Handlers, b \in Backends, to \in {"open", "closed"} : ChaosForce(h, b, to))
       \/ (\E h \in Handlers : ChaosPublish(h))
       \/ (\E r \in Requests : Abort(r)) \/ UNCHANGED vars => UNCHANGED <<req, gauges>>
  BY DEF Poll, ChaosForce, ChaosPublish, Abort, vars
<1> QED
  BY <1>1, <1>2, <1>5, <1>6, <1>7, <1>8, <1>9, <1>10, <1>11, CountConnGauges, ReadConnsGauges,
     SetBackendActiveGauges, GetActiveGauges, SetActiveGauges
  DEF Next, Serve

----------------------------------------------------------------------------
(* Theorems                                                                *)

IInv == TypeOK /\ Account /\ GaugeInv /\ Gauges

LEMMA Invariant == Spec => []IInv
<1>1. Init => IInv
  <2> SUFFICES ASSUME Init PROVE IInv  OBVIOUS
  <2>1. \A r \in Requests : req[r] = Blank(1)
    BY DEF Init
  <2>2. \A r \in Requests : req[r].pc = "idle" /\ req[r].delta = 1 /\ req[r].records = 1
    BY <2>1, BlankFields
  <2>3. \A b \in Backends : Admitted(b) = {} /\ owed[b] = 0
    BY <2>2 DEF Admitted, Init
  <2>4. Account
    BY <2>2, <2>3, FS_EmptySet DEF Account, InOrder
  <2>5. GaugeInv
    BY DEF GaugeInv, BreakerGaugeAgrees, Init
  <2>6. \A r \in Requests :
          /\ ~Writing(req[r]) /\ ~InActive(req[r]) /\ \A b \in Backends : ~InConns(req[r], b)
    BY <2>2 DEF Writing, InActive, InConns, Forwarding
  <2>7. /\ {r \in Requests : InActive(req[r])} = {}
        /\ \A b \in Backends : {r \in Requests : InConns(req[r], b)} = {}
    BY <2>6
  <2>8. Gauges
    BY <2>2, <2>6, <2>7, FS_EmptySet DEF Gauges, OneWriter, Init
  <2> QED  BY <2>4, <2>5, <2>8, InitType DEF IInv
<1>2. IInv /\ [Next]_vars => IInv'
  BY TypeStep, AccountStep, GaugeStep, ConnGaugeStep DEF IInv
<1> QED  BY <1>1, <1>2, PTL DEF Spec

(***************************************************************************)
(* The variables of the engine and of the chaos handlers keep their types, *)
(* and getClient, the gauges and cbDone always have a backend to work on.  *)
(***************************************************************************)
THEOREM TypeCorrect == Spec => []TypeOK
<1>1. IInv => TypeOK
  BY DEF IInv
<1> QED  BY <1>1, Invariant, PTL

(***************************************************************************)
(* FastProxy.Handler: for any number of requests and backends, every       *)
(* admission of a breaker is owed exactly one report, and every request is *)
(* recorded exactly once, on all paths.                                    *)
(***************************************************************************)
THEOREM Accounted == Spec => []AccountedOnce
<1>1. IInv => AccountedOnce
  BY DEF IInv, Account, InOrder, AccountedOnce
<1> QED  BY <1>1, Invariant, PTL

(***************************************************************************)
(* The breaker gauge, which NewFastProxy's callback writes under the lock  *)
(* of the breaker and the chaos handlers write without it, shows the state *)
(* of every breaker whose last change of state did not come between the    *)
(* two writes of a handler, for any number of requests and handlers.       *)
(***************************************************************************)
THEOREM GaugeIsBreaker == Spec => []BreakerGaugeAgrees
<1>1. IInv => BreakerGaugeAgrees
  BY DEF IInv, GaugeInv
<1> QED  BY <1>1, Invariant, PTL

(***************************************************************************)
(* getClient: once every backend has a client the map is never written     *)
(* again and its missing lock can no longer abort the process, whatever    *)
(* number of requests is under way.                                        *)
(***************************************************************************)
THEOREM WarmIsSafe == Spec => SafeOnceWarm
<1>1. IInv /\ [Next]_vars => [Warm => Warm' /\ aborted' = aborted]_vars
  BY WarmStep DEF IInv
<1> QED  BY <1>1, Invariant, PTL DEF Spec, SafeOnceWarm

(***************************************************************************)
(* FastProxy.Handler, for any number of requests and backends: the counts  *)
(* of connections are exact, and so are the gauges (fastproxy.go:130-138)  *)
(* as long as no two updates overlap: nothing else loses one.              *)
(***************************************************************************)
THEOREM GaugesExactAlone == Spec => []GaugesExact
<1>1. IInv => GaugesExact
  <2> SUFFICES ASSUME IInv PROVE GaugesExact  OBVIOUS
  <2>1. ASSUME NEW b \in Backends PROVE conns[b] = Cardinality(Connected(b))
    <3>1. Connected(b) = {r \in Requests : InConns(req[r], b)}
      BY DEF Connected, InConns, Writing
    <3> QED  BY <3>1 DEF IInv, Gauges
  <2>2. ASSUME ~overlapped, \A r \in Requests : ~InGauges(r)
        PROVE  /\ \A b \in Backends : connsGauge[b] = conns[b]
               /\ active = Cardinality({r \in Requests : req[r].pc \in Forwarding})
    <3>1. \A r \in Requests : /\ req[r].pc \notin {"count", "conns", "gauge", "active", "store"}
                              /\ req[r].delta = 1
      BY <2>2 DEF InGauges, IInv, Account, InOrder
    <3>2. \A r \in Requests : InActive(req[r]) <=> req[r].pc \in Forwarding
      BY <3>1 DEF InActive
    <3>3. {r \in Requests : InActive(req[r])} = {r \in Requests : req[r].pc \in Forwarding}
      BY <3>2
    <3>4. \A b \in Backends : ~Due(b)
      BY <3>1 DEF Due
    <3> QED  BY <2>2, <3>3, <3>4 DEF IInv, Gauges, OneWriter
  <2> QED  BY <2>1, <2>2 DEF GaugesExact
<1> QED  BY <1>1, Invariant, PTL

=============================================================================
