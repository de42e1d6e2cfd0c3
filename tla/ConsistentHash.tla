--------------------------- MODULE ConsistentHash ---------------------------
(***************************************************************************)
(* internal/balancer/consistent_hash.go: the ring of virtual nodes that    *)
(* maps client keys to backends, shared by every request and rebuilt by    *)
(* whichever request finds that the healthy backends have changed.         *)
(*                                                                         *)
(* A call reads the alive flags one by one, compares the fingerprint of    *)
(* what it saw with that of the ring, rebuilds the ring if they differ,    *)
(* and looks its key up.  Each critical section of ch.mu is one step; the  *)
(* lock is not held in between.                                            *)
(*                                                                         *)
(* Hashes are given as positions.  A backend is its index in the pool.     *)
(***************************************************************************)
EXTENDS Naturals, FiniteSets, FiniteSetsExt

CONSTANTS
  NumBackends,   \* the length of the pool's slice of backends
  Positions,     \* the values of hashString
  Points,        \* for each backend, the positions of its virtual nodes
  KeyHashes,     \* the positions of the keys of clients
  Threads,       \* the goroutines that serve requests
  Flapping       \* bound: the backends whose alive flag changes

Backends == 1 .. NumBackends

(***************************************************************************)
(* NewConsistentHash gives every backend at least one virtual node.  Two   *)
(* backends may share a position.                                          *)
(***************************************************************************)
ASSUME RingAssumption ==
  /\ NumBackends \in Nat
  /\ Positions \subseteq Nat
  /\ Points \in [Backends -> (SUBSET Positions) \ {{}}]
  /\ KeyHashes \subseteq Positions
  /\ Flapping \subseteq Backends

VARIABLES
  alive,    \* the backends whose alive flag is set
  nodes,    \* the backends of the ring; lastNodesHash is its fingerprint
  ring,     \* nodeMap, whose domain is the elements of the sorted hashRing
  call,     \* the local state of each goroutine
  own,      \* history: the backends alive at some time of the call
  window    \* history: those alive since the start of the call, or of a call
            \* that was under way when it started

vars == <<alive, nodes, ring, call, own, window>>

None == 0
NoKey == [empty |-> TRUE, hash |-> 0]
Key(h) == [empty |-> FALSE, hash |-> h]

\* The keys that a caller may pass, the empty string included.
ClientKeys == {NoKey} \cup {Key(h) : h \in KeyHashes}

Places == {"scan", "ensure", "build", "get", "done"}

InCall == {t \in Threads : call[t].pc # "done"}

----------------------------------------------------------------------------
(* The ring                                                                *)

PointsOf(S) == UNION {Points[b] : b \in S}

\* Mutant of BuildRing: virtual nodes are named after the index in the list
\* of healthy backends instead of the URL.
BuildRingByIndex(S) ==
  LET Index(b) == Cardinality({c \in S : c <= b})
  IN  [p \in PointsOf({Index(b) : b \in S}) |->
         Max({b \in S : p \in Points[Index(b)]})]

\* The loop over nodes: a later backend takes a position from an earlier one.
BuildRing(S) == [p \in PointsOf(S) |-> Max({b \in S : p \in Points[b]})]

\* sort.Search on the sorted positions, with the step back to index 0.
Search(P, h) ==
  LET above == {p \in P : p >= h}
  IN  Min(IF above # {} THEN above ELSE P)

\* The backend that ring r gives to hash h.
Lookup(r, h) == r[Search(DOMAIN r, h)]

----------------------------------------------------------------------------
(* SelectKey and Select                                                    *)

Init ==
  /\ alive = Backends
  /\ nodes = {}
  /\ ring = BuildRing({})
  /\ call = [t \in Threads |->
               [pc |-> "done", next |-> 1, list |-> {}, key |-> NoKey, got |-> None]]
  /\ own = [t \in Threads |-> {}]
  /\ window = [t \in Threads |-> {}]

\* SelectKey(pool, key), where key may be the empty string.
SelectKey(t, key) ==
  /\ call[t].pc = "done"
  /\ call' = [call EXCEPT ![t] = [pc |-> "scan", next |-> 1, list |-> {},
                                  key |-> key, got |-> None]]
  /\ own' = [own EXCEPT ![t] = alive]
  /\ window' = [window EXCEPT ![t] = alive \cup UNION {own[u] : u \in InCall}]
  /\ UNCHANGED <<alive, nodes, ring>>

\* One iteration of HealthyBackends.
Scan(t) ==
  /\ call[t].pc = "scan"
  /\ call[t].next \in Backends
  /\ call' = [call EXCEPT ![t].next = @ + 1,
                          ![t].list = @ \cup ({call[t].next} \cap alive)]
  /\ UNCHANGED <<alive, nodes, ring, own, window>>

\* The end of HealthyBackends: without a healthy backend the result is nil.
Scanned(t) ==
  /\ call[t].pc = "scan"
  /\ call[t].next \notin Backends
  /\ call' = [call EXCEPT ![t].pc = IF call[t].list = {} THEN "done" ELSE "ensure"]
  /\ UNCHANGED <<alive, nodes, ring, own, window>>

\* Mutant of UpToDate: any ring will do.
AnyRing(S) == nodes # {}

\* Mutant of UpToDate: a ring without the backends that have joined will do.
NoneLeft(S) == nodes \subseteq S /\ nodes # {}

\* lastNodesHash == fp && len(hashRing) > 0; fingerprints of different lists
\* differ.
UpToDate(S) == nodes = S /\ nodes # {}

\* The first half of ensureRing, under the read lock.
EnsureRing(t) ==
  /\ call[t].pc = "ensure"
  /\ call' = [call EXCEPT ![t].pc = IF UpToDate(call[t].list) THEN "get" ELSE "build"]
  /\ UNCHANGED <<alive, nodes, ring, own, window>>

\* buildHashRing, under the write lock.
BuildHashRing(t) ==
  /\ call[t].pc = "build"
  /\ nodes' = call[t].list
  /\ ring' = BuildRing(call[t].list)
  /\ call' = [call EXCEPT ![t].pc = "get"]
  /\ UNCHANGED <<alive, own, window>>

\* The empty key: SelectKey calls Select, which starts over with the key
\* "req-<n>" for the next n.
Select(t, h) ==
  /\ call[t].pc = "get" /\ call[t].key.empty
  /\ call' = [call EXCEPT ![t].pc = "scan", ![t].next = 1, ![t].list = {},
                          ![t].key = Key(h)]
  /\ UNCHANGED <<alive, nodes, ring, own, window>>

\* Mutant of GetNode: no step back to index 0 after the last position.
GetNodeNoWrap(t) ==
  /\ call[t].pc = "get" /\ ~call[t].key.empty
  /\ call' = [call EXCEPT ![t].pc = "done",
                          ![t].got = IF \A p \in DOMAIN ring : p < call[t].key.hash
                                     THEN None
                                     ELSE Lookup(ring, call[t].key.hash)]
  /\ UNCHANGED <<alive, nodes, ring, own, window>>

\* GetNode(h), under the read lock.
GetNode(t) ==
  /\ call[t].pc = "get" /\ ~call[t].key.empty
  /\ call' = [call EXCEPT ![t].pc = "done",
                          ![t].got = IF DOMAIN ring = {} THEN None
                                     ELSE Lookup(ring, call[t].key.hash)]
  /\ UNCHANGED <<alive, nodes, ring, own, window>>

\* The health checker, or an operator, sets the flag of b.
SetAlive(b, v) ==
  /\ alive' = IF v THEN alive \cup {b} ELSE alive \ {b}
  /\ own' = [t \in Threads |-> IF t \in InCall THEN own[t] \cup alive' ELSE own[t]]
  /\ window' = [t \in Threads |->
                  IF t \in InCall THEN window[t] \cup alive' ELSE window[t]]
  /\ UNCHANGED <<nodes, ring, call>>

Next ==
  \/ \E t \in Threads, key \in ClientKeys : SelectKey(t, key)
  \/ \E t \in Threads : Scan(t)
  \/ \E t \in Threads : Scanned(t)
  \/ \E t \in Threads : EnsureRing(t)
  \/ \E t \in Threads : BuildHashRing(t)
  \/ \E t \in Threads, h \in KeyHashes : Select(t, h)
  \/ \E t \in Threads : GetNode(t)
  \/ \E b \in Flapping, v \in BOOLEAN : SetAlive(b, v)

Spec == Init /\ [][Next]_vars

\* The steps of a call, which a goroutine takes without waiting for anyone.
Step(t) ==
  \/ Scan(t) \/ Scanned(t) \/ EnsureRing(t) \/ BuildHashRing(t)
  \/ (\E h \in KeyHashes : Select(t, h)) \/ GetNode(t)

FairSpec == Spec /\ \A t \in Threads : WF_vars(Step(t))

----------------------------------------------------------------------------

Calls ==
  [pc : Places, next : 1 .. NumBackends + 1, list : SUBSET Backends,
   key : ClientKeys, got : Backends \cup {None}]

\* Every variable has its type, and the ring is that of its backends.
TypeOK ==
  /\ alive \in SUBSET Backends
  /\ nodes \in SUBSET Backends
  /\ ring = BuildRing(nodes)
  /\ call \in [Threads -> Calls]
  /\ own \in [Threads -> SUBSET Backends]
  /\ window \in [Threads -> SUBSET Backends]

(***************************************************************************)
(* A call returns a backend that was alive at some time since the oldest   *)
(* call it overlapped began (consistent_hash.go:49-62): although the ring  *)
(* may be replaced between ensureRing and GetNode, by a call whose view of *)
(* the pool is older, no request is sent to a backend that had been dead   *)
(* for longer.                                                             *)
(***************************************************************************)
RecentlyAlive ==
  \A t \in Threads :
    call[t].pc = "done" /\ call[t].got # None => call[t].got \in window[t]

(***************************************************************************)
(* A call that saw a healthy backend returns one (consistent_hash.go:116): *)
(* nil, which the proxy answers with 503, means that it saw none.          *)
(***************************************************************************)
NilOnlyIfNoneSeen ==
  \A t \in Threads :
    call[t].pc = "done" /\ call[t].list # {} => call[t].got # None

(***************************************************************************)
(* What holds between the steps of a call: it saw only backends that were  *)
(* alive in its course, every call under way is known to every other, and  *)
(* a ring that is about to be looked up in has only recent backends.       *)
(***************************************************************************)
CallsInv ==
  \A t \in InCall :
    /\ alive \cup call[t].list \subseteq own[t]
    /\ \A u \in InCall : own[u] \subseteq window[t]
    /\ call[t].got = None
    /\ call[t].pc # "scan" => call[t].list # {}
    /\ call[t].pc = "get" => nodes # {} /\ nodes \subseteq window[t]

IInv == TypeOK /\ CallsInv /\ RecentlyAlive /\ NilOnlyIfNoneSeen

(***************************************************************************)
(* Rebuilding the ring moves a key only away from a backend that has left  *)
(* or to one that has joined (consistent_hash.go:83-104), even when        *)
(* virtual nodes collide: "Consistent even during backend failures"        *)
(* (ARCHITECTURE.md:51).                                                   *)
(***************************************************************************)
MinimalDisruption ==
  [][ \A h \in KeyHashes :
        nodes # {} /\ nodes' # {} /\ Lookup(ring, h) # Lookup(ring', h)
        => Lookup(ring, h) \notin nodes' \/ Lookup(ring', h) \notin nodes ]_vars

(***************************************************************************)
(* "Session Affinity: Via consistent hashing" (ARCHITECTURE.md:240): once  *)
(* the alive flags stop changing, every call for a key ends up with the    *)
(* backend that the healthy ones assign to it, whatever rings are under    *)
(* construction at that time.                                              *)
(***************************************************************************)
Affinity ==
  \A S \in (SUBSET Backends) \ {{}} :
    <>[](alive = S) =>
      <>[][ \A t \in Threads :
              GetNode(t) =>
                call'[t].got = Lookup(BuildRing(S), call[t].key.hash) ]_vars
=============================================================================
