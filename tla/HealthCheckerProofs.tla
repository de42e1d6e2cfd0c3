------------------------ MODULE HealthCheckerProofs ------------------------
(***************************************************************************)
(* Probes that end before the next one begins: the order of their verdicts *)
(* and the health gauge, for every interval, every shorter timeout and any *)
(* number of slots.                                                        *)
(***************************************************************************)
EXTENDS HealthChecker, TLAPS

Active(p) == probe[p].pc # "none"

\* The validator's rule, which it does not enforce (validator.go:96).
Shorter == timeout < ProbeInterval

(***************************************************************************)
(* The argument from time: a probe is as old as the ticker is far, and no  *)
(* older than the timeout, so that none is left when the ticker fires.     *)
(***************************************************************************)
OneAtATime ==
  Shorter =>
    /\ \A p \in Slots : Active(p) =>
         probe[p].age + timer = ProbeInterval /\ probe[p].age <= timeout
    /\ \A p, q \in Slots : Active(p) /\ Active(q) => p = q
    /\ \A p \in Slots : ~probe[p].overtaken

\* Between the flag and the gauge the verdict of the probe stands for the gauge.
GaugeFollows ==
  ~operator =>
    /\ chaos = "idle"
    /\ Shorter =>
         /\ \A p \in Slots : probe[p].pc \in {"flagged", "counted"} => alive = probe[p].verdict
         /\ (\A p \in Slots : probe[p].pc \notin {"flagged", "counted"}) /\ health # "unset"
              => (health = "up") = alive

IInv == TypeOK /\ OneAtATime /\ GaugeFollows

----------------------------------------------------------------------------

LEMMA NoProbeFields ==
  /\ NoProbe \in Probes /\ NoProbe.pc = "none" /\ NoProbe.age = 0
  /\ NoProbe.verdict = FALSE /\ NoProbe.lost = FALSE /\ NoProbe.overtaken = FALSE
BY HealthAssumption DEF NoProbe, Probes

LEMMA InitInv == Init => IInv
<1> SUFFICES ASSUME Init PROVE IInv  OBVIOUS
<1>1. \A p \in Slots : probe[p] = NoProbe
  BY DEF Init
<1>2. TypeOK
  BY <1>1, NoProbeFields, HealthAssumption DEF Init, TypeOK
<1>3. OneAtATime
  BY <1>1, NoProbeFields DEF OneAtATime, Active
<1>4. GaugeFollows
  BY <1>1, NoProbeFields DEF GaugeFollows, Init
<1> QED  BY <1>2, <1>3, <1>4 DEF IInv

LEMMA TypeStep == TypeOK /\ [Next]_vars => TypeOK'
<1> SUFFICES ASSUME TypeOK, [Next]_vars PROVE TypeOK'  OBVIOUS
<1> USE HealthAssumption, NoProbeFields DEF settings
<1>1. ASSUME NEW p \in Slots, StartProbe(p) PROVE TypeOK'
  <2> DEFINE l == server = "hung"
             e == [NoProbe EXCEPT !.pc = "waiting", !.lost = l]
  <2>1. l \in BOOLEAN  OBVIOUS
  <2>2. probe' = [probe EXCEPT ![p] = e]
    BY <1>1 DEF StartProbe
  <2> HIDE DEF l
  <2>3. e \in Probes
    BY <2>1 DEF Probes
  <2> HIDE DEF e
  <2>4. probe' \in [Slots -> Probes]
    BY <2>2, <2>3 DEF TypeOK
  <2> QED  BY <1>1, <2>4 DEF StartProbe, TypeOK
<1>2. ASSUME NEW p \in Slots, Answer(p) PROVE TypeOK'
  <2> DEFINE v == server = "up"
  <2>1. v \in BOOLEAN  OBVIOUS
  <2>2. probe' = [probe EXCEPT ![p].pc = "verdict", ![p].verdict = v]
    BY <1>2 DEF Answer, Judge
  <2> HIDE DEF v
  <2>3. probe' \in [Slots -> Probes]
    BY <2>1, <2>2 DEF TypeOK, Probes
  <2> QED  BY <1>2, <2>3 DEF Answer, TypeOK
<1>3. ASSUME NEW p \in Slots, Expire(p) PROVE TypeOK'
  BY <1>3 DEF Expire, Judge, TypeOK, Probes
<1>4. ASSUME NEW p \in Slots, SetFlag(p) PROVE TypeOK'
  <2>1. ASSUME NEW q \in Slots PROVE probe'[q] \in Probes
    <3>1. CASE q = p
      BY <1>4, <3>1 DEF SetFlag, TypeOK, Probes
    <3>2. CASE q # p
      <4> DEFINE o == probe[q].overtaken \/ Overtaken(p, probe[q])
      <4>1. o \in BOOLEAN  OBVIOUS
      <4>2. probe'[q] = [probe[q] EXCEPT !.overtaken = o]
        BY <1>4, <3>2 DEF SetFlag
      <4> HIDE DEF o
      <4> QED  BY <4>1, <4>2 DEF TypeOK, Probes
    <3> QED  BY <3>1, <3>2
  <2>2. probe' \in [Slots -> Probes]
    BY <1>4, <2>1 DEF SetFlag
  <2> QED  BY <1>4, <2>2 DEF SetFlag, SetAlive, TypeOK, Probes
<1>5. ASSUME NEW p \in Slots, Count(p) PROVE TypeOK'
  BY <1>5 DEF Count, Bump, TypeOK, Probes
<1>6. ASSUME NEW p \in Slots, Publish(p) PROVE TypeOK'
  BY <1>6 DEF Publish, SetBackendHealth, TypeOK
<1>7. CASE ChaosRead
  BY <1>7 DEF ChaosRead, TypeOK
<1>8. CASE ChaosSet
  BY <1>8 DEF ChaosSet, SetAlive, TypeOK
<1>9. CASE ChaosPublish
  BY <1>9 DEF ChaosPublish, SetBackendHealth, TypeOK
<1>10. ASSUME NEW ok \in BOOLEAN, RequestReports(ok) PROVE TypeOK'
  BY <1>10 DEF RequestReports, Bump, TypeOK
<1>11. ASSUME NEW s \in {"up", "down", "hung"}, ServerBecomes(s) PROVE TypeOK'
  BY <1>11 DEF ServerBecomes, TypeOK, Probes
<1>12. CASE Clock
  BY <1>12 DEF Clock, Patience, TypeOK, Probes
<1>13. CASE UNCHANGED vars
  BY <1>13 DEF vars, TypeOK
<1> QED
  BY <1>1, <1>2, <1>3, <1>4, <1>5, <1>6, <1>7, <1>8, <1>9, <1>10, <1>11, <1>12, <1>13
  DEF Next

----------------------------------------------------------------------------
(* One probe at a time                                                     *)

\* What the actions other than the ticker and the clock may do to a probe.
LEMMA OneKept ==
  ASSUME TypeOK, OneAtATime, timer' = timer, timeout' = timeout,
         \A p \in Slots : /\ Active(p)' => Active(p)
                          /\ probe'[p].age = probe[p].age \/ ~Active(p)'
                          /\ Shorter => ~probe'[p].overtaken
  PROVE  OneAtATime'
BY DEF OneAtATime, Active, Shorter

LEMMA OneStep == IInv /\ [Next]_vars => OneAtATime'
<1> SUFFICES ASSUME IInv, [Next]_vars PROVE OneAtATime'  OBVIOUS
<1> USE HealthAssumption, NoProbeFields DEF settings, IInv
<1>0. TypeOK /\ OneAtATime /\ \A p \in Slots : probe[p] \in Probes
  BY DEF TypeOK
<1>1. ASSUME NEW p \in Slots, StartProbe(p) PROVE OneAtATime'
  <2> SUFFICES ASSUME Shorter' PROVE OneAtATime'  BY DEF OneAtATime
  <2>1. timer = 0 /\ timer' = ProbeInterval /\ timeout' = timeout /\ Shorter
    BY <1>1 DEF StartProbe, Shorter
  <2>2. \A q \in Slots : ~Active(q)
    BY <1>0, <2>1 DEF OneAtATime, TypeOK, Probes, Shorter
  <2>3. probe'[p].age = 0 /\ probe'[p].overtaken = FALSE
    BY <1>0, <1>1 DEF StartProbe, NoProbe, TypeOK
  <2>4. \A q \in Slots : q # p => probe'[q] = probe[q]
    BY <1>0, <1>1 DEF StartProbe, TypeOK
  <2>5. \A q \in Slots : Active(q)' => q = p
    BY <2>2, <2>4 DEF Active
  <2> QED
    BY <1>0, <2>1, <2>3, <2>4, <2>5 DEF OneAtATime, Shorter, TypeOK
<1>2. ASSUME NEW p \in Slots, NEW v, Judge(p, v), probe[p].pc = "waiting",
             timer' = timer, timeout' = timeout
      PROVE  OneAtATime'
  <2>1. \A q \in Slots : /\ probe'[q].age = probe[q].age
                         /\ probe'[q].overtaken = probe[q].overtaken
                         /\ probe'[q].pc = IF q = p THEN "verdict" ELSE probe[q].pc
    BY <1>0, <1>2 DEF Judge, TypeOK, Probes
  <2> QED  BY <1>0, <1>2, <2>1, OneKept DEF Active, OneAtATime
<1>3. ASSUME NEW p \in Slots, SetFlag(p) PROVE OneAtATime'
  <2>1. Shorter => \A q \in Slots : q # p => probe[q].pc = "none"
    BY <1>0, <1>3 DEF SetFlag, OneAtATime, Active
  <2>2. \A q \in Slots : /\ probe'[q].age = probe[q].age
                         /\ probe'[q].pc = IF q = p THEN "flagged" ELSE probe[q].pc
    BY <1>0, <1>3 DEF SetFlag, TypeOK, Probes
  <2>3. probe'[p].overtaken = probe[p].overtaken
    BY <1>0, <1>3 DEF SetFlag, TypeOK, Probes
  <2>4. ASSUME Shorter, NEW q \in Slots, q # p PROVE ~probe'[q].overtaken
    <3>1. ~Overtaken(p, probe[q]) /\ ~probe[q].overtaken
      BY <1>0, <2>1, <2>4 DEF Overtaken, OneAtATime
    <3>2. probe'[q] = [probe[q] EXCEPT !.overtaken = @ \/ Overtaken(p, probe[q])]
      BY <1>3, <2>4 DEF SetFlag
    <3>3. probe'[q].overtaken = (probe[q].overtaken \/ Overtaken(p, probe[q]))
      BY <1>0, <3>2 DEF Probes
    <3> QED  BY <3>1, <3>3
  <2>5. timer' = timer /\ timeout' = timeout
    BY <1>3 DEF SetFlag
  <2> QED  BY <1>0, <1>3, <2>2, <2>3, <2>4, <2>5, OneKept DEF Active, OneAtATime, SetFlag
<1>4. ASSUME NEW p \in Slots, Count(p) PROVE OneAtATime'
  <2>1. \A q \in Slots : /\ probe'[q].age = probe[q].age
                         /\ probe'[q].overtaken = probe[q].overtaken
                         /\ probe'[q].pc = IF q = p THEN "counted" ELSE probe[q].pc
    BY <1>0, <1>4 DEF Count, TypeOK, Probes
  <2> QED  BY <1>0, <1>4, <2>1, OneKept DEF Active, OneAtATime, Count
<1>5. ASSUME NEW p \in Slots, Publish(p) PROVE OneAtATime'
  <2>1. \A q \in Slots : probe'[q] = IF q = p THEN NoProbe ELSE probe[q]
    BY <1>0, <1>5 DEF Publish, TypeOK
  <2> QED  BY <1>0, <1>5, <2>1, OneKept DEF Active, OneAtATime, Publish
<1>6. ASSUME NEW s, ServerBecomes(s) PROVE OneAtATime'
  <2>1. \A q \in Slots : /\ probe'[q].age = probe[q].age
                         /\ probe'[q].overtaken = probe[q].overtaken
                         /\ probe'[q].pc = probe[q].pc
    BY <1>0, <1>6 DEF ServerBecomes, TypeOK, Probes
  <2> QED  BY <1>0, <1>6, <2>1, OneKept DEF Active, OneAtATime, ServerBecomes
<1>7. CASE Clock
  <2>1. \A q \in Slots : /\ probe'[q].overtaken = probe[q].overtaken
                         /\ probe'[q].pc = probe[q].pc
                         /\ Active(q) => probe[q].pc = "waiting"
                         /\ Active(q) => probe'[q].age = probe[q].age + 1
                                         /\ probe[q].age < timeout
    BY <1>0, <1>7 DEF Clock, TypeOK, Probes, Patience, Active
  <2>2. timer' = timer - 1 /\ timeout' = timeout
    BY <1>7 DEF Clock
  <2>3. \A q \in Slots : probe[q].age \in Nat
    BY <1>0 DEF Probes
  <2> QED  BY <1>0, <2>1, <2>2, <2>3 DEF Active, OneAtATime, Shorter, TypeOK
<1>8. CASE UNCHANGED <<probe, timer, timeout>>
  BY <1>0, <1>8 DEF OneAtATime, Active, Shorter
<1>9. (\E p \in Slots : Answer(p) \/ Expire(p)) => OneAtATime'
  BY <1>2 DEF Answer, Expire
<1>10. ChaosRead \/ ChaosSet \/ ChaosPublish \/ (\E ok \in BOOLEAN : RequestReports(ok))
         \/ UNCHANGED vars => UNCHANGED <<probe, timer, timeout>>
  BY DEF ChaosRead, ChaosSet, ChaosPublish, RequestReports, vars
<1> QED
  BY <1>1, <1>3, <1>4, <1>5, <1>6, <1>7, <1>8, <1>9, <1>10 DEF Next

----------------------------------------------------------------------------
(* The gauge follows the flag                                              *)

Writing(p) == probe[p].pc \in {"flagged", "counted"}

\* What the actions that write neither the flag nor the gauge may do.
LEMMA FollowsKept ==
  ASSUME GaugeFollows, UNCHANGED <<operator, timeout, alive, health, chaos>>,
         \A p \in Slots : /\ Writing(p)' = Writing(p)
                          /\ probe'[p].verdict = probe[p].verdict \/ ~Writing(p)
  PROVE  GaugeFollows'
<1>1. Shorter' = Shorter
  BY DEF Shorter
<1> QED  BY <1>1 DEF GaugeFollows, Writing

LEMMA FollowsStep == IInv /\ [Next]_vars => GaugeFollows'
<1> SUFFICES ASSUME IInv, [Next]_vars PROVE GaugeFollows'  OBVIOUS
<1> USE HealthAssumption, NoProbeFields DEF settings
<1>0. TypeOK /\ OneAtATime /\ GaugeFollows /\ \A p \in Slots : probe[p] \in Probes
  BY DEF TypeOK, IInv
<1>1. ASSUME NEW p \in Slots, StartProbe(p) PROVE GaugeFollows'
  <2>1. probe'[p].pc = "waiting"
    BY <1>0, <1>1 DEF StartProbe, NoProbe, TypeOK
  <2>2. \A q \in Slots : q # p => probe'[q] = probe[q]
    BY <1>0, <1>1 DEF StartProbe, TypeOK
  <2>3. probe[p].pc = "none"
    BY <1>1 DEF StartProbe
  <2>4. UNCHANGED <<operator, timeout, alive, health, chaos>>
    BY <1>1 DEF StartProbe
  <2> QED  BY <1>0, <2>1, <2>2, <2>3, <2>4, FollowsKept DEF Writing
<1>2. ASSUME NEW p \in Slots, NEW v, Judge(p, v), probe[p].pc = "waiting",
             UNCHANGED <<operator, timeout, alive, health, chaos>>
      PROVE  GaugeFollows'
  <2>1. probe'[p].pc = "verdict"
    BY <1>0, <1>2 DEF Judge, TypeOK, Probes
  <2>2. \A q \in Slots : q # p => probe'[q] = probe[q]
    BY <1>0, <1>2 DEF Judge, TypeOK
  <2> QED  BY <1>0, <1>2, <2>1, <2>2, FollowsKept DEF Writing
<1>3. ASSUME NEW p \in Slots, SetFlag(p) PROVE GaugeFollows'
  <2> SUFFICES ASSUME ~operator, Shorter PROVE GaugeFollows'
    BY <1>0, <1>3 DEF GaugeFollows, SetFlag, Shorter
  <2>1. \A q \in Slots : q # p => probe[q].pc = "none"
    BY <1>0, <1>3 DEF SetFlag, OneAtATime, Active
  <2>2. \A q \in Slots : probe'[q].pc = IF q = p THEN "flagged" ELSE probe[q].pc
    BY <1>0, <1>3 DEF SetFlag, TypeOK, Probes
  <2>3. probe'[p].verdict = probe[p].verdict /\ alive' = probe[p].verdict
    BY <1>0, <1>3 DEF SetFlag, SetAlive, TypeOK, Probes
  <2> QED  BY <1>0, <1>3, <2>1, <2>2, <2>3 DEF GaugeFollows, SetFlag
<1>4. ASSUME NEW p \in Slots, Count(p) PROVE GaugeFollows'
  <2>1. \A q \in Slots : /\ probe'[q].verdict = probe[q].verdict
                         /\ probe'[q].pc = IF q = p THEN "counted" ELSE probe[q].pc
    BY <1>0, <1>4 DEF Count, TypeOK, Probes
  <2>2. probe[p].pc = "flagged" /\ UNCHANGED <<operator, timeout, alive, health, chaos>>
    BY <1>4 DEF Count
  <2> QED  BY <1>0, <2>1, <2>2, FollowsKept DEF Writing
<1>5. ASSUME NEW p \in Slots, Publish(p) PROVE GaugeFollows'
  <2> SUFFICES ASSUME ~operator, Shorter PROVE GaugeFollows'
    BY <1>0, <1>5 DEF GaugeFollows, Publish, Shorter
  <2>1. \A q \in Slots : q # p => probe[q].pc = "none"
    BY <1>0, <1>5 DEF Publish, OneAtATime, Active
  <2>2. \A q \in Slots : probe'[q].pc = "none"
    BY <1>0, <1>5, <2>1 DEF Publish, TypeOK
  <2>3. alive' = probe[p].verdict /\ chaos' = "idle"
    BY <1>0, <1>5 DEF Publish, GaugeFollows
  <2>4. health' = IF probe[p].verdict THEN "up" ELSE "down"
    BY <1>5 DEF Publish, SetBackendHealth
  <2>5. probe[p].verdict \in BOOLEAN
    BY <1>0 DEF Probes
  <2>6. (health' = "up") = alive'
    BY <2>3, <2>4, <2>5
  <2> QED  BY <2>2, <2>3, <2>6 DEF GaugeFollows
<1>6. ASSUME NEW s, ServerBecomes(s) PROVE GaugeFollows'
  <2>1. \A q \in Slots : /\ probe'[q].verdict = probe[q].verdict
                         /\ probe'[q].pc = probe[q].pc
    BY <1>0, <1>6 DEF ServerBecomes, TypeOK, Probes
  <2> QED  BY <1>0, <1>6, <2>1, FollowsKept DEF Writing, ServerBecomes
<1>7. CASE Clock
  <2>1. \A q \in Slots : /\ probe'[q].verdict = probe[q].verdict
                         /\ probe'[q].pc = probe[q].pc
    BY <1>0, <1>7 DEF Clock, TypeOK, Probes
  <2> QED  BY <1>0, <1>7, <2>1, FollowsKept DEF Writing, Clock
<1>8. CASE ChaosRead \/ ChaosSet \/ ChaosPublish
  <2>1. operator
    BY <1>0, <1>8 DEF ChaosRead, ChaosSet, ChaosPublish, GaugeFollows
  <2> QED  BY <1>8, <2>1 DEF ChaosRead, ChaosSet, ChaosPublish, GaugeFollows
<1>9. ASSUME NEW ok \in BOOLEAN, RequestReports(ok) PROVE GaugeFollows'
  BY <1>0, <1>9, FollowsKept DEF RequestReports, Writing
<1>10. CASE UNCHANGED vars
  BY <1>0, <1>10, FollowsKept DEF vars, Writing
<1>11. (\E p \in Slots : Answer(p) \/ Expire(p)) => GaugeFollows'
  BY <1>2 DEF Answer, Expire
<1> QED
  BY <1>1, <1>3, <1>4, <1>5, <1>6, <1>7, <1>8, <1>9, <1>10, <1>11 DEF Next

LEMMA Invariant == Spec => []IInv
<1>1. IInv /\ [Next]_vars => IInv'
  BY TypeStep, OneStep, FollowsStep DEF IInv
<1> QED  BY <1>1, InitInv, PTL DEF Spec

----------------------------------------------------------------------------
(* Theorems                                                                *)

(***************************************************************************)
(* The flag, the count, the gauges and the probes of the health checker    *)
(* keep their types.                                                       *)
(***************************************************************************)
THEOREM TypeCorrect == Spec => []TypeOK
<1>1. IInv => TypeOK
  BY DEF IInv
<1> QED  BY <1>1, Invariant, PTL

(***************************************************************************)
(* For every interval, every timeout below it and however the backend      *)
(* answers, gets stuck or recovers: once the goroutine of a probe has      *)
(* ended, proxy_backend_health shows the flag that routing uses, as long   *)
(* as nobody toggles it (Checker.setAlive).                                *)
(***************************************************************************)
THEOREM GaugeIsFlag == Spec => []GaugeAgrees
<1>1. IInv => GaugeAgrees
  BY DEF IInv, GaugeFollows, GaugeAgrees, Quiet, Shorter
<1> QED  BY <1>1, Invariant, PTL

(***************************************************************************)
(* With a timeout below the interval no probe ever sets the flag after one *)
(* that began later has set it (Checker.probe).                            *)
(***************************************************************************)
THEOREM InOrder == Spec => VerdictsInOrder
<1>1. IInv /\ [Next]_vars =>
        [ timeout < ProbeInterval =>
            \A p \in Slots : SetFlag(p) => ~probe[p].overtaken ]_vars
  BY DEF IInv, OneAtATime, Shorter
<1> QED  BY <1>1, Invariant, PTL DEF Spec, VerdictsInOrder

=============================================================================
