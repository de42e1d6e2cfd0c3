--------------------------- MODULE FrontendProofs ---------------------------
(***************************************************************************)
(* The rate limiter's bound, what reaches the proxy and how long responses *)
(* are, for every configuration, burst, window and number of requests.     *)
(***************************************************************************)
EXTENDS Frontend, TLAPS

----------------------------------------------------------------------------
(* The chains                                                              *)

LEMMA NetPositions ==
  /\ DOMAIN NetOrder = 1 .. 8 /\ Len(NetOrder) = 8
  /\ NetOrder[1] = "Recovery" /\ NetOrder[2] = "Logging"
  /\ NetOrder[3] = "SizeLimit" /\ NetOrder[4] = "IPFilter"
  /\ NetOrder[5] = "Security" /\ NetOrder[6] = "RateLimit"
  /\ NetOrder[7] = "RequestID" /\ NetOrder[8] = "Proxy"
BY DEF NetOrder

LEMMA FastPositions ==
  /\ DOMAIN FastOrder = 1 .. 5 /\ Len(FastOrder) = 5
  /\ FastOrder[1] = "RateLimit" /\ FastOrder[2] = "Recovery"
  /\ FastOrder[3] = "Logging" /\ FastOrder[4] = "RequestID"
  /\ FastOrder[5] = "Proxy"
BY DEF FastOrder

\* The rate limiter stands between the filters and the proxy, and the handler
\* that bounds the response, if there is one, outside of them all.
Ordered ==
  /\ DOMAIN Chain = 1 .. Len(Chain) /\ Len(Chain) \in Nat
  /\ \A i, j \in DOMAIN Chain :
       /\ Chain[i] = "RateLimit" /\ Chain[j] = "RateLimit" => i = j
       /\ Chain[i] \in {"IPFilter", "Security"} /\ Chain[j] = "RateLimit" => i < j
       /\ Chain[i] = "RateLimit" /\ Chain[j] = "Proxy" => i < j
       /\ Chain[i] = "SizeLimit" /\ Chain[j] \in {"IPFilter", "Security", "RateLimit", "Proxy"}
            => i < j
  /\ \E i \in DOMAIN Chain : Chain[i] = "RateLimit"
  /\ ~cfg.fasthttp => \E i \in DOMAIN Chain : Chain[i] = "SizeLimit"

LEMMA ChainOrdered == Ordered
<1>1. CASE cfg.fasthttp
  <2>1. Chain = FastOrder  BY <1>1 DEF Chain
  <2>2. \A i \in DOMAIN Chain : i \in {1, 2, 3, 4, 5}  BY <2>1, FastPositions
  <2> QED  BY <1>1, <2>1, <2>2, FastPositions DEF Ordered
<1>2. CASE ~cfg.fasthttp
  <2>1. Chain = NetOrder  BY <1>2 DEF Chain
  <2>2. \A i \in DOMAIN Chain : i \in {1, 2, 3, 4, 5, 6, 7, 8}  BY <2>1, NetPositions
  <2> QED  BY <1>2, <2>1, <2>2, NetPositions DEF Ordered
<1> QED  BY <1>1, <1>2

----------------------------------------------------------------------------
(* One request                                                             *)

\* The request is at the handler m of the chain.
At(q, m) == q.at \in DOMAIN Chain /\ Chain[q.at] = m /\ Installed(m)

\* A handler that may answer in place of those behind it.
Filter(i) == Chain[i] \in {"IPFilter", "Security"} /\ Installed(Chain[i])

(***************************************************************************)
(* ProxyGuarded and ResponseBounded say nothing of a request that is still *)
(* on its way down.  What carries them is where it stands: it has paid if  *)
(* and only if it is past the rate limiter, no filter stops it if it came  *)
(* as far as that, and it has written nothing before it is answered.       *)
(***************************************************************************)
Sound(q) ==
  /\ q.pc # "idle" => q.peer \in IPs
  /\ \A i \in q.filters : Filter(i)
  /\ q.pc \notin {"copy", "panic", "done", "lost"} => q.status = 0 /\ q.body = 0 /\ ~q.cut
  /\ q.pc = "down" => IF q.paid THEN At(q, "RateLimit") ELSE q.at = 0
  /\ q.pc \in {"IPFilter", "Security"} => At(q, q.pc) /\ ~q.paid
  /\ q.pc \in {"RateLimit", "allow"} => At(q, "RateLimit") /\ ~q.paid
  /\ q.pc \in {"Proxy", "copy", "panic"} => At(q, "Proxy") /\ q.paid = cfg.limited
  /\ q.pc \in {"copy", "panic"} => q.status = 200 /\ q.body <= MaxBody
  /\ q.pc = "copy" => ~q.cut
  /\ q.pc = "panic" => q.cut
  /\ q.paid \/ q.pc \in {"RateLimit", "allow", "Proxy", "copy", "panic"} => q.filters = {}

Bounded(q) ==
  cfg.max > 0 /\ ~cfg.fasthttp =>
    q.body <= cfg.max + (IF q.cut /\ q.pc # "panic" THEN Text ELSE 0)

Fine(q) == q \in Calls /\ Sound(q) /\ Bounded(q)

ReqInv == cfg \in Configs /\ req \in [Requests -> Calls] /\ \A r \in Requests : Fine(req[r])

LEMMA OneRequest ==
  ASSUME ReqInv, NEW r \in Requests, NEW q, Fine(q), Becomes(r, q), cfg' = cfg
  PROVE  ReqInv'
<1>1. Chain' = Chain /\ \A m : Installed(m)' = Installed(m)
  BY DEF Chain, Installed
<1>2. Calls' = Calls
  BY <1>1 DEF Calls
<1>3. req' \in [Requests -> Calls]
  BY DEF ReqInv, Becomes, Fine
<1>4. \A u \in Requests : Fine(req'[u])
  BY DEF ReqInv, Becomes
<1>5. \A u \in Requests : Fine(req[u])'
  <2> SUFFICES ASSUME NEW u \in Requests PROVE Fine(req[u])'  OBVIOUS
  <2>1. Fine(req'[u])  BY <1>4
  <2>2. Sound(req[u])'
    BY <1>1, <2>1 DEF Fine, Sound, At, Filter
  <2>3. Bounded(req[u])'
    BY <2>1 DEF Fine, Bounded
  <2> QED  BY <1>2, <2>1, <2>2, <2>3 DEF Fine
<1> QED  BY <1>2, <1>3, <1>5 DEF ReqInv

\* Beyond the handler that bounds the response, every write is bounded.
LEMMA InsideLimit ==
  ASSUME NEW q, NEW m \in {"IPFilter", "Security", "RateLimit", "Proxy"}, At(q, m),
         cfg.max > 0, ~cfg.fasthttp
  PROVE  Inside(q, "SizeLimit")
<1>1. PICK i \in DOMAIN Chain : Chain[i] = "SizeLimit"
  BY ChainOrdered DEF Ordered
<1>2. i < q.at /\ i \in Nat \ {0} /\ q.at \in Nat
  BY <1>1, ChainOrdered DEF Ordered, At
<1> QED  BY <1>1, <1>2 DEF Inside, Installed

LEMMA ConfigTypes ==
  ASSUME cfg \in Configs
  PROVE  /\ cfg.max \in Nat /\ cfg.limited \in BOOLEAN /\ cfg.fasthttp \in BOOLEAN
         /\ Text \in Nat /\ MaxBody \in Nat /\ Burst \in Nat /\ MaxAge \in Nat
BY FrontendAssumption

LEMMA CallTypes ==
  ASSUME NEW q \in Calls
  PROVE  /\ q.pc \in Places /\ q.at \in 0 .. Len(Chain) /\ q.paid \in BOOLEAN
         /\ q.status \in Statuses /\ q.body \in 0 .. MaxBody + Text /\ q.cut \in BOOLEAN
         /\ q.filters \subseteq DOMAIN Chain
BY DEF Calls

(***************************************************************************)
(* The ways in which a handler changes a request.  The sets in the type of *)
(* a request do not matter for this, and are hidden.                       *)
(***************************************************************************)
Same(q, e) == e.peer = q.peer /\ e.filters = q.filters

LEMMA GotoCall ==
  ASSUME NEW q \in Calls, NEW p \in Places
  PROVE  /\ Goto(q, p) \in Calls /\ Same(q, Goto(q, p))
         /\ Goto(q, p).pc = p /\ Goto(q, p).at = q.at /\ Goto(q, p).paid = q.paid
         /\ Goto(q, p).status = q.status /\ Goto(q, p).body = q.body
         /\ Goto(q, p).cut = q.cut
<1>1. PICK P, A, R, F, D, S, B, C :
        /\ Calls = [pc : P, at : A, peer : R, filters : F, paid : D, status : S,
                    body : B, cut : C]
        /\ p \in P
  BY Zenon DEF Calls
<1>2. q \in [pc : P, at : A, peer : R, filters : F, paid : D, status : S,
             body : B, cut : C]
  BY <1>1
<1> QED  BY ONLY <1>1, <1>2 DEF Goto, Same

LEMMA ReachCall ==
  ASSUME NEW q \in Calls, NEW i \in 0 .. Len(Chain), Chain[i] \in Places
  PROVE  /\ Reach(q, i) \in Calls /\ Same(q, Reach(q, i))
         /\ Reach(q, i).pc = Chain[i] /\ Reach(q, i).at = i /\ Reach(q, i).paid = q.paid
         /\ Reach(q, i).status = q.status /\ Reach(q, i).body = q.body
         /\ Reach(q, i).cut = q.cut
<1>1. PICK P, A, R, F, D, S, B, C :
        /\ Calls = [pc : P, at : A, peer : R, filters : F, paid : D, status : S,
                    body : B, cut : C]
        /\ i \in A /\ Chain[i] \in P
  BY Zenon DEF Calls
<1>2. q \in [pc : P, at : A, peer : R, filters : F, paid : D, status : S,
             body : B, cut : C]
  BY <1>1
<1> QED  BY ONLY <1>1, <1>2 DEF Reach, Same

LEMMA ReplyCall ==
  ASSUME NEW q \in Calls, NEW p \in Places, NEW s \in Statuses,
         NEW b \in 0 .. MaxBody + Text
  PROVE  /\ Reply(q, p, s, b) \in Calls /\ Same(q, Reply(q, p, s, b))
         /\ Reply(q, p, s, b).pc = p /\ Reply(q, p, s, b).at = q.at
         /\ Reply(q, p, s, b).paid = q.paid /\ Reply(q, p, s, b).status = s
         /\ Reply(q, p, s, b).body = b /\ Reply(q, p, s, b).cut = q.cut
<1>1. PICK P, A, R, F, D, S, B, C :
        /\ Calls = [pc : P, at : A, peer : R, filters : F, paid : D, status : S,
                    body : B, cut : C]
        /\ p \in P /\ s \in S /\ b \in B
  BY Zenon DEF Calls
<1>2. q \in [pc : P, at : A, peer : R, filters : F, paid : D, status : S,
             body : B, cut : C]
  BY <1>1
<1> QED  BY ONLY <1>1, <1>2 DEF Reply, Same

LEMMA PayCall ==
  ASSUME NEW q \in Calls
  PROVE  /\ Pay(q) \in Calls /\ Same(q, Pay(q))
         /\ Pay(q).pc = "down" /\ Pay(q).at = q.at /\ Pay(q).paid = TRUE
         /\ Pay(q).status = q.status /\ Pay(q).body = q.body /\ Pay(q).cut = q.cut
<1>0. "down" \in Places /\ TRUE \in BOOLEAN  BY DEF Places
<1>1. PICK P, A, R, F, D, S, B, C :
        /\ Calls = [pc : P, at : A, peer : R, filters : F, paid : D, status : S,
                    body : B, cut : C]
        /\ "down" \in P /\ TRUE \in D
  BY <1>0, Zenon DEF Calls
<1>2. q \in [pc : P, at : A, peer : R, filters : F, paid : D, status : S,
             body : B, cut : C]
  BY <1>1
<1> QED  BY ONLY <1>1, <1>2 DEF Pay, Same

LEMMA PanicCall ==
  ASSUME NEW q \in Calls
  PROVE  /\ Panic(q) \in Calls /\ Same(q, Panic(q))
         /\ Panic(q).pc = "panic" /\ Panic(q).at = q.at /\ Panic(q).paid = q.paid
         /\ Panic(q).status = q.status /\ Panic(q).body = q.body /\ Panic(q).cut = TRUE
<1>0. "panic" \in Places /\ TRUE \in BOOLEAN  BY DEF Places
<1>1. PICK P, A, R, F, D, S, B, C :
        /\ Calls = [pc : P, at : A, peer : R, filters : F, paid : D, status : S,
                    body : B, cut : C]
        /\ "panic" \in P /\ TRUE \in C
  BY <1>0, Zenon DEF Calls
<1>2. q \in [pc : P, at : A, peer : R, filters : F, paid : D, status : S,
             body : B, cut : C]
  BY <1>1
<1> QED  BY ONLY <1>1, <1>2 DEF Panic, Same

----------------------------------------------------------------------------
(* The actions leave a request sound                                       *)

LEMMA Literals ==
  /\ {"idle", "down", "IPFilter", "Security", "RateLimit", "allow", "Proxy", "copy",
      "panic", "done", "lost"} \subseteq Places
  /\ {0, 200, 204, 403, 429, 500, 502} \subseteq Statuses
BY DEF Places, Statuses

LEMMA BlankFine ==
  ASSUME cfg \in Configs, NEW place \in {"idle", "down"},
         NEW peer \in IPs \cup {NoHeader}, place = "down" => peer \in IPs,
         NEW filters \in SUBSET DOMAIN Chain,
         \A i \in filters : Filter(i)
  PROVE  Fine(Blank(place, peer, filters))
<1> DEFINE e == Blank(place, peer, filters)
<1>1. e \in Calls
  BY Literals, ChainOrdered, ConfigTypes DEF Blank, Calls, Ordered
<1>2. /\ e.pc = place /\ e.at = 0 /\ e.peer = peer /\ e.filters = filters
      /\ e.paid = FALSE /\ e.status = 0 /\ e.body = 0 /\ e.cut = FALSE
  BY DEF Blank
<1> HIDE DEF e
<1>3. Sound(e) /\ Bounded(e)
  BY <1>2, ConfigTypes DEF Sound, Bounded
<1> QED  BY <1>1, <1>3 DEF Fine, e

\* The next stop of a request on its way down: a filter or the rate limiter
\* if it has not paid, and the proxy if it has or need not.
LEMMA ReachFine ==
  ASSUME cfg \in Configs, NEW q, Fine(q), q.pc = "down", NEW i \in Stops(q),
         \A j \in Stops(q) : i <= j
  PROVE  Fine(Reach(q, i))
<1>1. /\ q \in Calls /\ q.status = 0 /\ q.body = 0 /\ q.cut = FALSE /\ q.peer \in IPs
      /\ \A k \in q.filters : Filter(k)
      /\ IF q.paid THEN At(q, "RateLimit") ELSE q.at = 0
      /\ q.paid \in BOOLEAN /\ q.filters \subseteq DOMAIN Chain
      /\ q.paid => q.filters = {}
  BY CallTypes DEF Fine, Sound
<1>2. /\ i \in DOMAIN Chain /\ i > q.at /\ Installed(Chain[i])
      /\ Chain[i] \in {"IPFilter", "Security", "RateLimit", "Proxy"}
  BY <1>1 DEF Stops, Filter
<1>3. i \in 0 .. Len(Chain) /\ i \in Nat
  BY <1>2, ChainOrdered DEF Ordered
<1>4. Chain[i] \in {"IPFilter", "Security", "RateLimit"} => ~q.paid
  BY <1>1, <1>2, <1>3, ChainOrdered DEF Ordered, At
<1>5. Chain[i] = "Proxy" => q.paid = cfg.limited
  <2> SUFFICES ASSUME Chain[i] = "Proxy" PROVE q.paid = cfg.limited
    OBVIOUS
  <2>1. CASE q.paid
    <3>1. cfg.limited  BY <1>1, <2>1 DEF At, Installed
    <3> QED  BY <2>1, <3>1, <1>1, ConfigTypes
  <2>2. CASE ~q.paid /\ cfg.limited
    <3>1. PICK k \in DOMAIN Chain : Chain[k] = "RateLimit"
      BY ChainOrdered DEF Ordered
    <3>2. k < i /\ k > 0 /\ k \in Nat
      BY <1>2, <3>1, ChainOrdered DEF Ordered
    <3>3. Installed("RateLimit")
      BY <2>2 DEF Installed
    <3>4. k \in Stops(q)
      BY <1>1, <2>2, <3>1, <3>2, <3>3 DEF Stops
    <3> QED  BY <1>3, <3>2, <3>4
  <2>3. CASE ~q.paid /\ ~cfg.limited
    BY <1>1, <2>3, ConfigTypes
  <2> QED  BY <2>1, <2>2, <2>3
<1>9. Chain[i] \in {"RateLimit", "Proxy"} => q.filters = {}
  <2> SUFFICES ASSUME Chain[i] \in {"RateLimit", "Proxy"}, ~q.paid, NEW k \in q.filters
               PROVE  FALSE
    BY <1>1
  <2>1. k \in DOMAIN Chain /\ k \in Nat \ {0} /\ Filter(k)
    BY <1>1, ChainOrdered DEF Ordered
  <2>2. i <= k
    BY <1>1, <2>1 DEF Stops, Filter
  <2>3. PICK l \in DOMAIN Chain : Chain[l] = "RateLimit"
    BY ChainOrdered DEF Ordered
  <2>4. k < l /\ (l < i \/ l = i) /\ l \in Nat
    BY <1>2, <2>1, <2>3, ChainOrdered DEF Ordered, Filter
  <2> QED  BY <1>3, <2>1, <2>2, <2>4
<1> DEFINE e == Reach(q, i)
<1>6. /\ e \in Calls /\ Same(q, e) /\ e.pc = Chain[i] /\ e.at = i /\ e.paid = q.paid
      /\ e.status = 0 /\ e.body = 0 /\ e.cut = FALSE
  BY <1>1, <1>2, <1>3, ReachCall, Literals
<1> HIDE DEF e
<1>7. Sound(e)
  BY <1>1, <1>2, <1>4, <1>5, <1>6, <1>9 DEF Sound, Same, At
<1>8. Bounded(e)
  BY <1>6, ConfigTypes DEF Bounded
<1> QED  BY <1>6, <1>7, <1>8 DEF Fine, e

\* An answer of a handler that is the first to write.
LEMMA FirstReply ==
  ASSUME cfg \in Configs, NEW q, Fine(q), NEW code \in {200, 204, 403, 429, 502},
         NEW p \in {"done", "copy"}, NEW b \in 0 .. MaxBody + Text,
         q.pc \in {"IPFilter", "Security", "allow", "Proxy"},
         p = "copy" => q.pc = "Proxy" /\ code = 200 /\ b = 0,
         cfg.max > 0 /\ ~cfg.fasthttp => b <= cfg.max
  PROVE  Fine(Reply(q, p, code, b))
<1>1. /\ q \in Calls /\ q.cut = FALSE /\ q.peer \in IPs
      /\ \A k \in q.filters : Filter(k)
      /\ q.pc = "Proxy" => At(q, "Proxy") /\ q.paid = cfg.limited /\ q.filters = {}
      /\ q.paid => q.filters = {}
  BY CallTypes DEF Fine, Sound
<1> DEFINE e == Reply(q, p, code, b)
<1>2. /\ e \in Calls /\ Same(q, e) /\ e.pc = p /\ e.at = q.at /\ e.paid = q.paid
      /\ e.status = code /\ e.body = b /\ e.cut = FALSE
  <2>1. p \in Places /\ code \in Statuses  BY DEF Places, Statuses
  <2> QED  BY <1>1, <2>1, ReplyCall
<1> HIDE DEF e
<1>3. Sound(e)
  BY <1>1, <1>2, ConfigTypes DEF Sound, Same, At
<1>4. Bounded(e)
  BY <1>2, ConfigTypes DEF Bounded
<1> QED  BY <1>2, <1>3, <1>4 DEF Fine, e

LEMMA ErrorFine ==
  ASSUME cfg \in Configs, NEW q, Fine(q), NEW code \in {403, 429, 502},
         q.pc \in {"IPFilter", "allow", "Proxy"}
  PROVE  Fine(Error(q, code))
<1>1. q.status = 0 /\ q.body = 0
  BY DEF Fine, Sound
<1> DEFINE b == IF TooLarge(q, Text) THEN q.body ELSE q.body + Text
<1>2. b \in 0 .. MaxBody + Text
  BY <1>1, ConfigTypes
<1>3. cfg.max > 0 /\ ~cfg.fasthttp => b <= cfg.max
  <2> SUFFICES ASSUME cfg.max > 0, ~cfg.fasthttp PROVE b <= cfg.max  OBVIOUS
  <2>1. Inside(q, "SizeLimit")
    BY InsideLimit DEF Fine, Sound
  <2> QED  BY <1>1, <2>1, ConfigTypes DEF TooLarge
<1>4. Error(q, code) = Reply(q, "done", code, b)
  BY <1>1 DEF Error, Status
<1> HIDE DEF b
<1> QED  BY <1>2, <1>3, <1>4, FirstReply

LEMMA PayFine ==
  ASSUME cfg \in Configs, NEW q, Fine(q), q.pc \in {"RateLimit", "allow"}
  PROVE  Fine(Goto(q, "allow")) /\ Fine(Pay(q))
<1>1. /\ q \in Calls /\ q.status = 0 /\ q.body = 0 /\ q.cut = FALSE /\ q.peer \in IPs
      /\ \A k \in q.filters : Filter(k)
      /\ At(q, "RateLimit") /\ q.paid = FALSE /\ q.filters = {}
  BY CallTypes DEF Fine, Sound
<1> DEFINE e == Goto(q, "allow")
           p == Pay(q)
<1>2. /\ e \in Calls /\ Same(q, e) /\ e.pc = "allow" /\ e.at = q.at /\ e.paid = FALSE
      /\ e.status = 0 /\ e.body = 0 /\ e.cut = FALSE
  <2>1. "allow" \in Places  BY DEF Places
  <2> QED  BY <1>1, <2>1, GotoCall
<1>3. /\ p \in Calls /\ Same(q, p) /\ p.pc = "down" /\ p.at = q.at /\ p.paid = TRUE
      /\ p.status = 0 /\ p.body = 0 /\ p.cut = FALSE
  BY <1>1, PayCall
<1> HIDE DEF e, p
<1>4. Sound(e) /\ Bounded(e)
  BY <1>1, <1>2, ConfigTypes DEF Sound, Same, At, Bounded
<1>5. Sound(p) /\ Bounded(p)
  BY <1>1, <1>3, ConfigTypes DEF Sound, Same, At, Bounded
<1> QED  BY <1>2, <1>3, <1>4, <1>5 DEF Fine, e, p

\* While the response is copied.
LEMMA CopyFine ==
  ASSUME cfg \in Configs, NEW q, Fine(q), q.pc = "copy"
  PROVE  /\ Fine(Panic(q)) /\ Fine(Goto(q, "done"))
         /\ \A n \in 1 .. MaxBody : q.body + n <= MaxBody /\ ~TooLarge(q, n)
              => Fine(Reply(q, "copy", 200, q.body + n))
<1>1. /\ q \in Calls /\ q.status = 200 /\ q.cut = FALSE /\ q.peer \in IPs
      /\ \A k \in q.filters : Filter(k)
      /\ At(q, "Proxy") /\ q.paid = cfg.limited /\ q.filters = {}
      /\ q.body \in Nat /\ q.body <= MaxBody
      /\ cfg.max > 0 /\ ~cfg.fasthttp => q.body <= cfg.max
  BY CallTypes, ConfigTypes DEF Fine, Sound, Bounded
<1>2. Fine(Panic(q))
  <2> DEFINE e == Panic(q)
  <2>1. /\ e \in Calls /\ Same(q, e) /\ e.pc = "panic" /\ e.at = q.at /\ e.paid = q.paid
        /\ e.status = 200 /\ e.body = q.body /\ e.cut = TRUE
    BY <1>1, PanicCall
  <2> HIDE DEF e
  <2>2. Sound(e) /\ Bounded(e)
    BY <1>1, <2>1, ConfigTypes DEF Sound, Same, At, Bounded
  <2> QED  BY <2>1, <2>2 DEF Fine, e
<1>3. Fine(Goto(q, "done"))
  <2> DEFINE e == Goto(q, "done")
  <2>1. /\ e \in Calls /\ Same(q, e) /\ e.pc = "done" /\ e.at = q.at /\ e.paid = q.paid
        /\ e.status = 200 /\ e.body = q.body /\ e.cut = FALSE
    <3>1. "done" \in Places  BY DEF Places
    <3> QED  BY <1>1, <3>1, GotoCall
  <2> HIDE DEF e
  <2>2. Sound(e) /\ Bounded(e)
    BY <1>1, <2>1, ConfigTypes DEF Sound, Same, At, Bounded
  <2> QED  BY <2>1, <2>2 DEF Fine, e
<1>4. ASSUME NEW n \in 1 .. MaxBody, q.body + n <= MaxBody, ~TooLarge(q, n)
      PROVE  Fine(Reply(q, "copy", 200, q.body + n))
  <2> DEFINE b == q.body + n
             e == Reply(q, "copy", 200, b)
  <2>1. b \in 0 .. MaxBody + Text /\ b <= MaxBody
    BY <1>1, <1>4, ConfigTypes
  <2>2. cfg.max > 0 /\ ~cfg.fasthttp => b <= cfg.max
    <3> SUFFICES ASSUME cfg.max > 0, ~cfg.fasthttp PROVE b <= cfg.max  OBVIOUS
    <3>1. Inside(q, "SizeLimit")
      BY <1>1, InsideLimit
    <3> QED  BY <1>1, <1>4, <3>1, ConfigTypes DEF TooLarge
  <2> HIDE DEF b
  <2>3. /\ e \in Calls /\ Same(q, e) /\ e.pc = "copy" /\ e.at = q.at /\ e.paid = q.paid
        /\ e.status = 200 /\ e.body = b /\ e.cut = FALSE
    <3>1. "copy" \in Places /\ 200 \in Statuses  BY DEF Places, Statuses
    <3> QED  BY <1>1, <2>1, <3>1, ReplyCall
  <2> HIDE DEF e
  <2>4. Sound(e) /\ Bounded(e)
    BY <1>1, <2>1, <2>2, <2>3, ConfigTypes DEF Sound, Same, At, Bounded
  <2> QED  BY <2>3, <2>4 DEF Fine, e, b
<1> QED  BY <1>2, <1>3, <1>4

\* The text of Recovery comes on top of the bound.
LEMMA RecoveryFine ==
  ASSUME cfg \in Configs, NEW q, Fine(q), q.pc = "panic"
  PROVE  /\ Fine(Reply(q, "done", Status(q, 500), q.body + Text))
         /\ Fine(Goto(q, "lost"))
<1>1. /\ q \in Calls /\ q.status = 200 /\ q.cut = TRUE /\ q.peer \in IPs
      /\ \A k \in q.filters : Filter(k)
      /\ q.body \in Nat /\ q.body <= MaxBody /\ q.paid \in BOOLEAN /\ q.filters = {}
      /\ cfg.max > 0 /\ ~cfg.fasthttp => q.body <= cfg.max
  BY CallTypes, ConfigTypes DEF Fine, Sound, Bounded
<1>2. Status(q, 500) = 200
  BY <1>1 DEF Status
<1>3. Fine(Goto(q, "lost"))
  <2> DEFINE e == Goto(q, "lost")
  <2>1. /\ e \in Calls /\ Same(q, e) /\ e.pc = "lost" /\ e.paid = q.paid
        /\ e.status = 200 /\ e.body = q.body /\ e.cut = TRUE
    <3>1. "lost" \in Places  BY DEF Places
    <3> QED  BY <1>1, <3>1, GotoCall
  <2> HIDE DEF e
  <2>2. Sound(e) /\ Bounded(e)
    BY <1>1, <2>1, ConfigTypes DEF Sound, Same, Bounded
  <2> QED  BY <2>1, <2>2 DEF Fine, e
<1>4. Fine(Reply(q, "done", 200, q.body + Text))
  <2> DEFINE b == q.body + Text
             e == Reply(q, "done", 200, b)
  <2>1. b \in 0 .. MaxBody + Text /\ b = q.body + Text
    BY <1>1, ConfigTypes
  <2> HIDE DEF b
  <2>2. /\ e \in Calls /\ Same(q, e) /\ e.pc = "done" /\ e.paid = q.paid
        /\ e.status = 200 /\ e.body = b /\ e.cut = TRUE
    <3>1. "done" \in Places /\ 200 \in Statuses  BY DEF Places, Statuses
    <3> QED  BY <1>1, <2>1, <3>1, ReplyCall
  <2> HIDE DEF e
  <2>3. Sound(e) /\ Bounded(e)
    BY <1>1, <2>1, <2>2, ConfigTypes DEF Sound, Same, Bounded
  <2> QED  BY <2>2, <2>3 DEF Fine, e, b
<1> QED  BY <1>2, <1>3, <1>4

----------------------------------------------------------------------------
(* The limiters                                                            *)

(***************************************************************************)
(* The argument for RateBound: what an address was let through in a window *)
(* and what is left in its bucket grow together by at most one a tick, and *)
(* an address without a limiter was not let through at all.                *)
(***************************************************************************)
RateInv ==
  /\ DOMAIN tokens \subseteq IPs /\ tokens \in [DOMAIN tokens -> 0 .. Burst]
  /\ win \in [IPs -> Nat] /\ age \in 0 .. MaxAge
  /\ \A i \in DOMAIN tokens : win[i] + tokens[i] <= Burst + age
  /\ \A i \in IPs \ DOMAIN tokens : win[i] = 0
  /\ \A r \in Requests : req[r].pc = "allow" => req[r].peer \in DOMAIN tokens

IInv == ReqInv /\ RateInv

\* The steps of a request that leave the limiters alone.
LEMMA RateKept ==
  ASSUME IInv, NEW r \in Requests, NEW q, Becomes(r, q), q.pc # "allow",
         UNCHANGED <<tokens, win, age>>
  PROVE  RateInv'
<1>1. \A u \in Requests : req'[u] = IF u = r THEN q ELSE req[u]
  BY DEF IInv, ReqInv, Becomes
<1>2. \A u \in Requests : req'[u].pc = "allow" => req'[u].peer \in DOMAIN tokens
  BY <1>1 DEF IInv, RateInv
<1> QED  BY <1>2 DEF IInv, RateInv

LEMMA Kept ==
  ASSUME IInv, NEW r \in Requests, NEW q, Fine(q), Becomes(r, q), q.pc # "allow",
         UNCHANGED <<cfg, tokens, win, age>>
  PROVE  IInv'
<1>1. ReqInv'  BY OneRequest DEF IInv
<1>2. RateInv'  BY RateKept
<1> QED  BY <1>1, <1>2 DEF IInv

LEMMA GetLimiterKeeps ==
  ASSUME IInv, NEW r \in Requests, getLimiter(r)
  PROVE  IInv'
<1> DEFINE q == req[r]
           e == Goto(q, "allow")
<1>1. cfg \in Configs /\ q \in Calls /\ Fine(q) /\ q.pc = "RateLimit" /\ q.peer \in IPs
  BY DEF IInv, ReqInv, Fine, Sound, getLimiter
<1>2. Fine(e) /\ Becomes(r, e) /\ UNCHANGED <<cfg, win, age>>
  BY <1>1, PayFine DEF getLimiter
<1>3. ReqInv'
  BY <1>2, OneRequest DEF IInv
<1>4. e.pc = "allow" /\ e.peer = q.peer
  <2>1. "allow" \in Places  BY DEF Places
  <2> QED  BY <1>1, <2>1, GotoCall DEF Same
<1>5. \A u \in Requests : req'[u] = IF u = r THEN e ELSE req[u]
  BY <1>2 DEF IInv, ReqInv, Becomes
<1>6. /\ DOMAIN tokens' = DOMAIN tokens \cup {q.peer}
      /\ \A i \in DOMAIN tokens' : tokens'[i] = IF i \in DOMAIN tokens THEN tokens[i] ELSE Burst
      /\ tokens' = [i \in DOMAIN tokens' |-> tokens'[i]]
  BY DEF getLimiter, LimiterKey, NewLimiter
<1> HIDE DEF q, e
<1>7. DOMAIN tokens' \subseteq IPs /\ tokens' \in [DOMAIN tokens' -> 0 .. Burst]
  BY <1>1, <1>6, ConfigTypes DEF IInv, RateInv
<1>8. \A i \in DOMAIN tokens' : win'[i] + tokens'[i] <= Burst + age'
  BY <1>1, <1>2, <1>6, ConfigTypes DEF IInv, RateInv
<1>9. \A i \in IPs \ DOMAIN tokens' : win'[i] = 0
  BY <1>2, <1>6 DEF IInv, RateInv
<1>10. \A u \in Requests : req'[u].pc = "allow" => req'[u].peer \in DOMAIN tokens'
  BY <1>4, <1>5, <1>6 DEF IInv, RateInv
<1>11. win' \in [IPs -> Nat] /\ age' \in 0 .. MaxAge
  BY <1>2 DEF IInv, RateInv
<1>12. RateInv'
  BY <1>7, <1>8, <1>9, <1>10, <1>11 DEF RateInv
<1> QED  BY <1>3, <1>12 DEF IInv

LEMMA AllowKeeps ==
  ASSUME IInv, NEW r \in Requests, Allow(r)
  PROVE  IInv'
<1> DEFINE q == req[r]
           e == Pay(q)
<1>1. cfg \in Configs /\ q \in Calls /\ Fine(q) /\ q.pc = "allow" /\ q.peer \in DOMAIN tokens
  BY DEF IInv, ReqInv, RateInv, Fine, Allow
<1>2. Fine(e) /\ Becomes(r, e) /\ UNCHANGED <<cfg, age>>
  BY <1>1, PayFine DEF Allow
<1>3. ReqInv'
  BY <1>2, OneRequest DEF IInv
<1>4. e.pc = "down"
  BY <1>1, PayCall
<1>5. \A u \in Requests : req'[u] = IF u = r THEN e ELSE req[u]
  BY <1>2 DEF IInv, ReqInv, Becomes
<1>6. /\ tokens[q.peer] > 0
      /\ tokens' = [tokens EXCEPT ![q.peer] = @ - 1]
      /\ win' = [win EXCEPT ![q.peer] = @ + 1]
  BY DEF Allow, LimiterKey
<1> HIDE DEF q, e
<1>7. DOMAIN tokens' = DOMAIN tokens /\ tokens' \in [DOMAIN tokens -> 0 .. Burst]
  BY <1>1, <1>6, ConfigTypes DEF IInv, RateInv
<1>8. \A i \in DOMAIN tokens' : win'[i] + tokens'[i] <= Burst + age'
  BY <1>1, <1>2, <1>6, <1>7, ConfigTypes DEF IInv, RateInv
<1>9. \A i \in IPs \ DOMAIN tokens' : win'[i] = 0
  BY <1>1, <1>6, <1>7 DEF IInv, RateInv
<1>10. \A u \in Requests : req'[u].pc = "allow" => req'[u].peer \in DOMAIN tokens'
  BY <1>4, <1>5, <1>7 DEF IInv, RateInv
<1>11. win' \in [IPs -> Nat] /\ age' \in 0 .. MaxAge
  BY <1>1, <1>2, <1>6 DEF IInv, RateInv
<1>12. RateInv'
  BY <1>7, <1>8, <1>9, <1>10, <1>11 DEF IInv, RateInv
<1> QED  BY <1>3, <1>12 DEF IInv

\* What leaves the requests alone leaves ReqInv alone.
LEMMA RequestsKept ==
  ASSUME ReqInv, UNCHANGED <<cfg, req>>
  PROVE  ReqInv'
<1>1. Chain' = Chain /\ (\A m : Installed(m)' = Installed(m))
  BY DEF Chain, Installed
<1>2. Calls' = Calls
  BY <1>1 DEF Calls
<1>3. ASSUME NEW u \in Requests PROVE Fine(req[u])'
  BY <1>1, <1>2 DEF ReqInv, Fine, Sound, At, Filter, Bounded
<1> QED  BY <1>2, <1>3 DEF ReqInv

LEMMA StartWindowKeeps ==
  ASSUME IInv, StartWindow
  PROVE  IInv'
<1>1. ReqInv'
  BY RequestsKept DEF IInv, StartWindow
<1>2. win' \in [IPs -> Nat] /\ (\A i \in IPs : win'[i] = 0) /\ age' = 0
  BY DEF StartWindow
<1>3. \A i \in DOMAIN tokens : tokens[i] \in 0 .. Burst
  BY DEF IInv, RateInv
<1>4. RateInv'
  BY <1>2, <1>3, ConfigTypes DEF IInv, ReqInv, RateInv, StartWindow
<1> QED  BY <1>1, <1>4 DEF IInv

LEMMA ClockKeeps ==
  ASSUME IInv, Clock
  PROVE  IInv'
<1>1. ReqInv'
  BY RequestsKept DEF IInv, Clock
<1>2. cfg \in Configs
  BY DEF IInv, ReqInv
<1>3. /\ DOMAIN tokens' = DOMAIN tokens /\ tokens' \in [DOMAIN tokens -> 0 .. Burst]
      /\ \A i \in DOMAIN tokens : tokens[i] \in 0 .. Burst /\ tokens'[i] <= tokens[i] + 1
  BY <1>2, ConfigTypes DEF IInv, RateInv, Clock, Refill
<1>4. \A u \in Requests : req'[u].pc = "allow" => req'[u].peer \in DOMAIN tokens'
  BY <1>3 DEF IInv, RateInv, Clock
<1>5. CASE age < MaxAge
  <2>1. age' = age + 1 /\ win' = win
    BY <1>5 DEF Clock
  <2>2. \A i \in DOMAIN tokens : win[i] \in Nat
    BY DEF IInv, RateInv
  <2>3. RateInv'
    BY <1>2, <1>3, <1>4, <1>5, <2>1, <2>2, ConfigTypes DEF IInv, RateInv
  <2> QED  BY <1>1, <2>3 DEF IInv
<1>6. CASE ~(age < MaxAge)
  <2>1. age' = 0 /\ win' \in [IPs -> Nat] /\ \A i \in IPs : win'[i] = 0
    BY <1>6 DEF Clock
  <2>2. \A i \in DOMAIN tokens' : tokens'[i] \in 0 .. Burst
    BY <1>3
  <2>3. RateInv'
    BY <1>2, <1>3, <1>4, <2>1, <2>2, ConfigTypes DEF IInv, RateInv
  <2> QED  BY <1>1, <2>3 DEF IInv
<1> QED  BY <1>5, <1>6

----------------------------------------------------------------------------
(* The invariant is inductive                                              *)

LEMMA IdleFine ==
  ASSUME cfg \in Configs
  PROVE  Fine(Idle) /\ Idle \in Calls /\ Idle.pc = "idle"
<1>1. Fine(Idle)
  BY BlankFine DEF Idle
<1> QED  BY <1>1 DEF Fine, Idle, Blank

LEMMA InitInv == Init => IInv
<1> SUFFICES ASSUME Init PROVE IInv  OBVIOUS
<1>1. cfg \in Configs /\ req = [r \in Requests |-> Idle]
  BY DEF Init
<1>2. ReqInv
  BY <1>1, IdleFine DEF ReqInv
<1>3. \A r \in Requests : req[r].pc # "allow"
  BY <1>1, IdleFine
<1>4. DOMAIN tokens = {} /\ tokens \in [{} -> 0 .. Burst]
  BY DEF Init
<1>5. RateInv
  BY <1>1, <1>3, <1>4, ConfigTypes DEF RateInv, Init
<1> QED  BY <1>2, <1>5 DEF IInv

LEMMA DoneReply ==
  ASSUME NEW q, NEW p, NEW s, NEW b, Fine(Reply(q, p, s, b)), q \in Calls
  PROVE  Reply(q, p, s, b).pc = p
<1>1. PICK P, A, R, F, D, S, B, C :
        Calls = [pc : P, at : A, peer : R, filters : F, paid : D, status : S,
                 body : B, cut : C]
  BY Zenon DEF Calls
<1>2. q \in [pc : P, at : A, peer : R, filters : F, paid : D, status : S,
             body : B, cut : C]
  BY <1>1
<1> QED  BY ONLY <1>2 DEF Reply

LEMMA ServeKeeps ==
  ASSUME IInv, NEW r \in Requests, Serve(r)
  PROVE  IInv'
<1> DEFINE q == req[r]
<1>0. cfg \in Configs /\ q \in Calls /\ Fine(q)
  BY DEF IInv, ReqInv
<1>1. ASSUME NEW i \in DOMAIN Chain, Down(r, i) PROVE IInv'
  <2>1. Fine(Reach(q, i))
    BY <1>0, <1>1, ReachFine DEF Down
  <2>2. Chain[i] # "allow" /\ Chain[i] \in Places /\ i \in 0 .. Len(Chain)
    <3>1. \A k \in q.filters : Filter(k)
      BY <1>0 DEF Fine, Sound
    <3>2. Chain[i] \in {"IPFilter", "Security", "RateLimit", "Proxy"}
      BY <1>1, <3>1 DEF Down, Stops, Filter
    <3> QED  BY <3>2, ChainOrdered DEF Ordered, Places
  <2>3. Reach(q, i).pc # "allow"
    BY <1>0, <2>2, ReachCall
  <2> HIDE DEF q
  <2> QED  BY <1>1, <2>1, <2>3, Kept DEF Down, q
<1>2. ASSUME NEW code \in {403, 429, 502}, Becomes(r, Error(q, code)),
             q.pc \in {"IPFilter", "allow", "Proxy"},
             UNCHANGED <<cfg, tokens, win, age>>
      PROVE  IInv'
  <2>1. Fine(Error(q, code))
    BY <1>0, <1>2, ErrorFine
  <2>2. Error(q, code).pc # "allow"
    BY <1>0, <2>1, DoneReply DEF Error
  <2> HIDE DEF q
  <2> QED  BY <1>2, <2>1, <2>2, Kept
<1>3. ASSUME NEW p, p # "allow", NEW s, NEW b, Fine(Reply(q, p, s, b)),
             Becomes(r, Reply(q, p, s, b)), UNCHANGED <<cfg, tokens, win, age>>
      PROVE  IInv'
  <2>1. Reply(q, p, s, b).pc # "allow"
    BY <1>0, <1>3, DoneReply
  <2> HIDE DEF q
  <2> QED  BY <1>3, <2>1, Kept
<1>4. ASSUME NEW p \in Places, p # "allow", Fine(Goto(q, p)), Becomes(r, Goto(q, p)),
             UNCHANGED <<cfg, tokens, win, age>>
      PROVE  IInv'
  <2>1. Goto(q, p).pc # "allow"
    BY <1>0, <1>4, GotoCall
  <2> HIDE DEF q
  <2> QED  BY <1>4, <2>1, Kept
<1>5. ASSUME q.pc = "copy", Becomes(r, Panic(q)), UNCHANGED <<cfg, tokens, win, age>>
      PROVE  IInv'
  <2>1. Fine(Panic(q))
    BY <1>0, <1>5, CopyFine
  <2>2. Panic(q).pc # "allow"
    BY <1>0, PanicCall
  <2> HIDE DEF q
  <2> QED  BY <1>5, <2>1, <2>2, Kept
<1>6. CASE IPFilter(r)
  BY <1>2, <1>6 DEF IPFilter
<1>7. CASE Security(r)
  <2>1. Fine(Reply(q, "done", 204, 0))
    BY <1>0, <1>7, FirstReply, ConfigTypes DEF Security
  <2> QED  BY <1>3, <1>7, <2>1 DEF Security
<1>8. CASE getLimiter(r)
  BY <1>8, GetLimiterKeeps
<1>9. CASE Allow(r)
  BY <1>9, AllowKeeps
<1>10. CASE TooMany(r)
  BY <1>2, <1>10 DEF TooMany
<1>11. CASE ProxyError(r)
  BY <1>2, <1>11 DEF ProxyError
<1>12. ASSUME NEW n \in {0, MaxBody}, FastAnswer(r, n) PROVE IInv'
  <2>1. n \in 0 .. MaxBody + Text
    BY <1>0, ConfigTypes
  <2>2. Fine(Reply(q, "done", 200, n))
    BY <1>0, <1>12, <2>1, FirstReply DEF FastAnswer
  <2> QED  BY <1>3, <1>12, <2>2 DEF FastAnswer
<1>13. CASE Header(r)
  <2>1. Fine(Reply(q, "copy", 200, 0))
    BY <1>0, <1>13, FirstReply, ConfigTypes DEF Header
  <2> QED  BY <1>3, <1>13, <2>1 DEF Header
<1>14. CASE CopyFails(r)
  BY <1>5, <1>14 DEF CopyFails
<1>15. CASE CopyEnds(r)
  <2>1. Fine(Goto(q, "done")) /\ "done" \in Places
    BY <1>0, <1>15, CopyFine DEF CopyEnds, Places
  <2> QED  BY <1>4, <1>15, <2>1 DEF CopyEnds
<1>16. ASSUME NEW n \in 1 .. MaxBody, Copy(r, n) PROVE IInv'
  <2>1. CASE TooLarge(q, n)
    BY <1>5, <1>16, <2>1 DEF Copy
  <2>2. CASE ~TooLarge(q, n)
    <3>1. Fine(Reply(q, "copy", 200, q.body + n))
      BY <1>0, <1>16, <2>2, CopyFine DEF Copy
    <3> QED  BY <1>3, <1>16, <2>2, <3>1 DEF Copy
  <2> QED  BY <2>1, <2>2
<1>17. CASE Recovery(r)
  <2>1. /\ Fine(Reply(q, "done", Status(q, 500), q.body + Text))
        /\ Fine(Goto(q, "lost")) /\ "lost" \in Places
    BY <1>0, <1>17, RecoveryFine DEF Recovery, Places
  <2>2. CASE Inside(q, "Recovery")
    BY <1>3, <1>17, <2>1, <2>2 DEF Recovery
  <2>3. CASE ~Inside(q, "Recovery")
    BY <1>4, <1>17, <2>1, <2>3 DEF Recovery
  <2> QED  BY <2>2, <2>3
<1>18. CASE Leave(r)
  BY <1>0, <1>18, IdleFine, Kept DEF Leave
<1> QED
  BY <1>1, <1>6, <1>7, <1>8, <1>9, <1>10, <1>11, <1>12, <1>13, <1>14, <1>15, <1>16,
     <1>17, <1>18 DEF Serve

LEMMA ArriveKeeps ==
  ASSUME IInv, NEW r \in Requests, NEW peer \in IPs, NEW client, NEW options,
         Arrive(r, peer, client, options)
  PROVE  IInv'
<1>1. cfg \in Configs
  BY DEF IInv, ReqInv
<1> DEFINE f == Filters(client, options)
           e == Blank("down", peer, f)
<1>2. f \in SUBSET DOMAIN Chain /\ \A i \in f : Filter(i)
  BY DEF Filters, Filter
<1> HIDE DEF f
<1>3. Fine(e)
  BY <1>1, <1>2, BlankFine
<1>4. e.pc # "allow"
  BY DEF Blank
<1>5. Becomes(r, e) /\ UNCHANGED <<cfg, tokens, win, age>>
  BY DEF Arrive, f
<1> HIDE DEF e
<1> QED  BY <1>3, <1>4, <1>5, Kept

LEMMA StepInv == IInv /\ [Next]_vars => IInv'
<1> SUFFICES ASSUME IInv, [Next]_vars PROVE IInv'  OBVIOUS
<1>1. CASE Clock
  BY <1>1, ClockKeeps
<1>2. CASE StartWindow
  BY <1>2, StartWindowKeeps
<1>3. ASSUME NEW r \in Requests, Serve(r) PROVE IInv'
  BY <1>3, ServeKeeps
<1>4. ASSUME NEW r \in Requests, NEW peer \in IPs, NEW client, NEW options \in BOOLEAN,
             Arrive(r, peer, client, options)
      PROVE  IInv'
  BY <1>4, ArriveKeeps
<1>5. CASE UNCHANGED vars
  <2>1. UNCHANGED <<cfg, req>> /\ UNCHANGED <<tokens, win, age>>
    BY <1>5 DEF vars
  <2>2. ReqInv'
    BY <2>1, RequestsKept DEF IInv
  <2>3. RateInv'
    BY <2>1 DEF IInv, RateInv
  <2> QED  BY <2>2, <2>3 DEF IInv
<1> QED  BY <1>1, <1>2, <1>3, <1>4, <1>5 DEF Next

LEMMA Invariant == Spec => []IInv
BY InitInv, StepInv, PTL DEF Spec

----------------------------------------------------------------------------
(* Theorems                                                                *)

(***************************************************************************)
(* Every variable of the chain keeps its type, and no bucket ever holds    *)
(* more than Burst tokens (rate.NewLimiter).                               *)
(***************************************************************************)
THEOREM TypeCorrect == Spec => []TypeOK
<1>1. IInv => TypeOK
  BY DEF IInv, ReqInv, RateInv, TypeOK
<1> QED  BY <1>1, Invariant, PTL

(***************************************************************************)
(* RateLimiter: for any number of requests, addresses and handlers at      *)
(* work, in any window of at most MaxAge ticks, no more requests of an     *)
(* address pass Limiter.Allow than the burst and one for each tick.        *)
(***************************************************************************)
THEOREM RateBounded == Spec => []RateBound
<1>1. IInv => RateBound
  <2> SUFFICES ASSUME IInv, NEW i \in IPs PROVE win[i] <= Burst + age
    BY DEF RateBound
  <2>1. Burst \in Nat /\ age \in Nat /\ win[i] \in Nat
    BY ConfigTypes DEF IInv, ReqInv, RateInv
  <2>2. CASE i \in DOMAIN tokens
    <3>1. tokens[i] \in Nat /\ win[i] + tokens[i] <= Burst + age
      BY <2>2 DEF IInv, RateInv
    <3> QED  BY <2>1, <3>1
  <2>3. CASE i \notin DOMAIN tokens
    BY <2>1, <2>3 DEF IInv, RateInv
  <2> QED  BY <2>2, <2>3
<1> QED  BY <1>1, Invariant, PTL

(***************************************************************************)
(* runNetHttp and runFasthttp: in every configuration, the proxy sees no   *)
(* request that the IP filter or CORS has to answer, and with rate         *)
(* limiting only requests that Limiter.Allow gave a token.                 *)
(***************************************************************************)
THEOREM Guarded == Spec => []ProxyGuarded
<1>1. IInv => ProxyGuarded
  BY DEF IInv, ReqInv, Fine, Sound, ProxyGuarded
<1> QED  BY <1>1, Invariant, PTL

(***************************************************************************)
(* limitedResponseWriter: under net/http and for every limit, whatever     *)
(* handler writes it, a response stays within max_response_size, and       *)
(* exceeds it only by the text that Recovery adds after the copying was    *)
(* cut short.                                                              *)
(***************************************************************************)
THEOREM ResponsesBounded == Spec => []ResponseBounded
<1>1. IInv => ResponseBounded
  <2> SUFFICES ASSUME IInv, cfg.max > 0, ~cfg.fasthttp, NEW r \in Requests
               PROVE  req[r].body <= cfg.max + (IF req[r].cut THEN Text ELSE 0)
    BY DEF ResponseBounded
  <2>1. cfg \in Configs /\ req[r] \in Calls /\ Bounded(req[r])
    BY DEF IInv, ReqInv, Fine
  <2>2. req[r].body \in Nat /\ cfg.max \in Nat /\ Text \in Nat
    BY <2>1, CallTypes, ConfigTypes
  <2> QED  BY <2>1, <2>2 DEF Bounded
<1> QED  BY <1>1, Invariant, PTL

=============================================================================
