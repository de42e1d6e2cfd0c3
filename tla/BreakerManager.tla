--------------------------- MODULE BreakerManager ---------------------------
(***************************************************************************)
(* internal/circuitbreaker/manager.go: the map from backend hosts to       *)
(* breakers, shared by every request and guarded by a sync.RWMutex.        *)
(*                                                                         *)
(* GetBreaker looks under the read lock, releases it, and on a miss takes  *)
(* the write lock and looks again before it creates.  The steps between    *)
(* two lock operations touch the map under a lock and are one step.  As in *)
(* sync.RWMutex, a Lock that waits keeps new readers out.                  *)
(*                                                                         *)
(* The parts of the specification have names of their own, so that one     *)
(* module can extend this one and CircuitBreaker.                          *)
(***************************************************************************)
EXTENDS Naturals

CONSTANTS
  Threads,      \* the goroutines that serve requests
  Names,        \* the hosts of the backends
  MaxRemovals   \* bound: how often RemoveBreaker is called for a name

ASSUME ManagerAssumption == MaxRemovals \in Nat

VARIABLES
  breakers,     \* for each name: the serial number of its breaker, or Absent
  made,         \* serial number of the breaker created last
  readers,      \* the threads that hold the read lock
  writer,       \* the threads, at most one, that hold the write lock
  pc,           \* where each thread is
  name,         \* the name each thread asks for, or asked for last
  got,          \* the breaker its last call returned, or Absent
  epoch,        \* history: how often each name was removed
  gotEpoch      \* history: the epoch of the name when the call returned

managerVars == <<breakers, made, readers, writer, pc, name, got, epoch, gotEpoch>>

Absent == 0

Places == {"idle", "rlock", "read", "missed", "lock", "check", "unlock"}

ManagerInit ==
  /\ breakers = [n \in Names |-> Absent]
  /\ made = 0
  /\ readers = {}
  /\ writer = {}
  /\ pc = [t \in Threads |-> "idle"]
  /\ name \in [Threads -> Names]
  /\ got = [t \in Threads |-> Absent]
  /\ epoch = [n \in Names |-> 0]
  /\ gotEpoch = [t \in Threads |-> 0]

Goto(t, place) == pc' = [pc EXCEPT ![t] = place]

\* The call of thread t has found breaker b for its name.
Take(t, b) ==
  /\ got' = [got EXCEPT ![t] = b]
  /\ gotEpoch' = [gotEpoch EXCEPT ![t] = epoch[name[t]]]

GetBreaker(t, n) ==
  /\ pc[t] = "idle"
  /\ Goto(t, "rlock")
  /\ name' = [name EXCEPT ![t] = n]
  /\ got' = [got EXCEPT ![t] = Absent]
  /\ UNCHANGED <<breakers, made, readers, writer, epoch, gotEpoch>>

\* Mutant of RLock: readers overtake a writer that waits.
RLockBarging(t) ==
  /\ pc[t] = "rlock"
  /\ writer = {}
  /\ readers' = readers \cup {t}
  /\ Goto(t, "read")
  /\ UNCHANGED <<breakers, made, writer, name, got, epoch, gotEpoch>>

RLock(t) ==
  /\ pc[t] = "rlock"
  /\ writer = {}
  /\ \A u \in Threads : pc[u] # "lock"
  /\ readers' = readers \cup {t}
  /\ Goto(t, "read")
  /\ UNCHANGED <<breakers, made, writer, name, got, epoch, gotEpoch>>

\* The first look: return the breaker, or give up the read lock.
Look(t) ==
  /\ pc[t] = "read"
  /\ readers' = readers \ {t}
  /\ IF breakers[name[t]] # Absent
     THEN Goto(t, "idle") /\ Take(t, breakers[name[t]])
     ELSE Goto(t, "missed") /\ UNCHANGED <<got, gotEpoch>>
  /\ UNCHANGED <<breakers, made, writer, name, epoch>>

\* m.mu.Lock() announces the writer, and then waits.
CallLock(t) ==
  /\ pc[t] = "missed"
  /\ Goto(t, "lock")
  /\ UNCHANGED <<breakers, made, readers, writer, name, got, epoch, gotEpoch>>

\* Mutant of Lock: the readers inside are not waited for.
LockEarly(t) ==
  /\ pc[t] = "lock"
  /\ writer = {}
  /\ writer' = {t}
  /\ Goto(t, "check")
  /\ UNCHANGED <<breakers, made, readers, name, got, epoch, gotEpoch>>

Lock(t) ==
  /\ pc[t] = "lock"
  /\ writer = {} /\ readers = {}
  /\ writer' = {t}
  /\ Goto(t, "check")
  /\ UNCHANGED <<breakers, made, readers, name, got, epoch, gotEpoch>>

\* Mutant of Check: the map is not looked at again under the write lock.
CheckNever(t) ==
  /\ pc[t] = "check"
  /\ made' = made + 1
  /\ breakers' = [breakers EXCEPT ![name[t]] = made + 1]
  /\ Take(t, made + 1)
  /\ Goto(t, "unlock")
  /\ UNCHANGED <<readers, writer, name, epoch>>

\* The second look, and NewBreaker if the name is still absent.
Check(t) ==
  /\ pc[t] = "check"
  /\ IF breakers[name[t]] # Absent
     THEN Take(t, breakers[name[t]]) /\ UNCHANGED <<breakers, made>>
     ELSE /\ made' = made + 1
          /\ breakers' = [breakers EXCEPT ![name[t]] = made + 1]
          /\ Take(t, made + 1)
  /\ Goto(t, "unlock")
  /\ UNCHANGED <<readers, writer, name, epoch>>

Unlock(t) ==
  /\ pc[t] = "unlock"
  /\ writer' = {}
  /\ Goto(t, "idle")
  /\ UNCHANGED <<breakers, made, readers, name, got, epoch, gotEpoch>>

\* RemoveBreaker(n), called from outside: its critical section is one step.
RemoveBreaker(n) ==
  /\ writer = {} /\ readers = {}
  /\ epoch[n] < MaxRemovals
  /\ breakers' = [breakers EXCEPT ![n] = Absent]
  /\ epoch' = [epoch EXCEPT ![n] = @ + 1]
  /\ UNCHANGED <<made, readers, writer, pc, name, got, gotEpoch>>

ManagerNext ==
  \/ \E t \in Threads, n \in Names : GetBreaker(t, n)
  \/ \E t \in Threads : RLock(t)
  \/ \E t \in Threads : Look(t)
  \/ \E t \in Threads : CallLock(t)
  \/ \E t \in Threads : Lock(t)
  \/ \E t \in Threads : Check(t)
  \/ \E t \in Threads : Unlock(t)
  \/ \E n \in Names : RemoveBreaker(n)

ManagerSpec == ManagerInit /\ [][ManagerNext]_managerVars

(***************************************************************************)
(* Goroutines that can run do run; sync.RWMutex hands the lock over, so a  *)
(* waiting RLock or Lock is not passed over for ever.                      *)
(***************************************************************************)
ManagerFairness ==
  \A t \in Threads :
    /\ SF_managerVars(RLock(t)) /\ SF_managerVars(Lock(t))
    /\ WF_managerVars(Look(t)) /\ WF_managerVars(CallLock(t))
    /\ WF_managerVars(Check(t)) /\ WF_managerVars(Unlock(t))

FairManagerSpec == ManagerSpec /\ ManagerFairness

----------------------------------------------------------------------------

Serials == 0 .. made

\* The variables hold values of their kind, and serial numbers were issued.
ManagerTypeOK ==
  /\ made \in Nat
  /\ breakers \in [Names -> Serials]
  /\ readers \in SUBSET Threads
  /\ writer \in SUBSET Threads
  /\ pc \in [Threads -> Places]
  /\ name \in [Threads -> Names]
  /\ got \in [Threads -> Serials]
  /\ epoch \in [Names -> Nat]
  /\ gotEpoch \in [Threads -> Nat]

Holds(t) == got[t] # Absent

(***************************************************************************)
(* Requests to the same backend share one breaker (manager.go:34): two     *)
(* calls that returned between the same removals of a name returned the    *)
(* same breaker, so no failure is counted where nobody looks.              *)
(***************************************************************************)
OneBreaker ==
  \A t, u \in Threads :
    /\ Holds(t) /\ Holds(u)
    /\ name[t] = name[u] /\ gotEpoch[t] = gotEpoch[u]
    => got[t] = got[u]

(***************************************************************************)
(* The Go map is never written while another goroutine reads or writes it, *)
(* which would abort the process (manager.go:24, 31).                      *)
(***************************************************************************)
NoMapRace ==
  \A t, u \in Threads :
    pc[t] = "check" /\ t # u => pc[u] \notin {"read", "check"}

(***************************************************************************)
(* Every GetBreaker returns: releasing the read lock before asking for the *)
(* write lock (manager.go:29) leaves nobody waiting for itself.            *)
(***************************************************************************)
CallsReturn ==
  \A t \in Threads : pc[t] # "idle" ~> pc[t] = "idle"
=============================================================================
