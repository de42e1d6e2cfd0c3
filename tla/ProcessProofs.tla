--------------------------- MODULE ProcessProofs ---------------------------
(***************************************************************************)
(* What is kept of the configuration file has been validated, and requests *)
(* are served only while backends are checked, for every set of            *)
(* configurations and any number of requests and edits.                    *)
(***************************************************************************)
EXTENDS Process, TLAPS

\* Only the end of main, or of Shutdown, cancels the context; there is no
\* handler to call Shutdown before main has started it.
CtxInv ==
  /\ ~ctx /\ main # "exited" => handler = "drained"
  /\ main \in {"load", "start"} => handler = "off"

(***************************************************************************)
(* ServedIsChecked is not inductive: nothing in it says that the context   *)
(* of a process that serves was cancelled by the signal handler, after     *)
(* which no listener is opened and no request accepted unless fasthttp     *)
(* forgot the Shutdown.                                                    *)
(***************************************************************************)
IInv == TypeOK /\ CtxInv /\ ServedIsChecked

\* A step of the file, of an editor or of the watcher leaves the servers alone.
LEMMA ServerUntouched ==
  ASSUME CtxInv, ServedIsChecked, UNCHANGED server
  PROVE  CtxInv' /\ ServedIsChecked'
BY DEF CtxInv, ServedIsChecked, Forgotten, server

LEMMA InitInv == Init => IInv
<1> SUFFICES ASSUME Init PROVE IInv  OBVIOUS
<1>1. TypeOK
  <2>1. {writing, watched, event, heard, tls, ctx, late} \subseteq BOOLEAN
    BY Zenon DEF Init
  <2>2. edits \in 0 .. MaxEdits
    BY ProcessAssumption DEF Init
  <2> QED  BY <2>1, <2>2 DEF Init, TypeOK
<1>2. CtxInv /\ ServedIsChecked
  BY DEF Init, CtxInv, ServedIsChecked
<1> QED  BY <1>1, <1>2 DEF IInv

LEMMA TypeStep ==
  ASSUME TypeOK, [Next]_vars
  PROVE  TypeOK'
<1> USE ProcessAssumption
<1>1. CASE Load  BY <1>1 DEF TypeOK, Load, disk
<1>2. CASE Start  BY <1>2 DEF TypeOK, Start, disk
<1>3. CASE Listen
  <2>1. tls' \in BOOLEAN
    BY <1>3 DEF TypeOK, Listen
  <2> QED  BY <1>3, <2>1 DEF TypeOK, Listen, disk, watch
<1>4. CASE ListenFails \/ ServeReturns \/ Exit
  BY <1>4 DEF TypeOK, ListenFails, ServeReturns, Exit, disk, watch
<1>5. ASSUME NEW r \in Requests, Accept(r) \/ Finish(r) PROVE TypeOK'
  BY <1>5 DEF TypeOK, Accept, Finish, disk, watch
<1>6. CASE Notify \/ Signal \/ Shutdown \/ Drained \/ DrainTimeout
  BY <1>6 DEF TypeOK, Notify, Signal, Shutdown, Drained, DrainTimeout, disk, watch
<1>7. CASE AddWatch \/ AddWatchFails \/ ReadFile \/ Reload \/ StopWatching
  BY <1>7 DEF TypeOK, AddWatch, AddWatchFails, ReadFile, Reload, StopWatching,
              disk, server
<1>8. ASSUME NEW c \in Contents, BeginWrite(c) \/ EndWrite(c) \/ Replace(c)
      PROVE  TypeOK'
  <2>1. {writing, watched, event, heard, tls, ctx, late}' \subseteq BOOLEAN
    BY <1>8, Zenon DEF TypeOK, BeginWrite, EndWrite, Replace, server
  <2>2. edits' \in 0 .. MaxEdits
    BY <1>8 DEF TypeOK, BeginWrite, EndWrite, Replace
  <2> QED  BY <1>8, <2>1, <2>2 DEF TypeOK, BeginWrite, EndWrite, Replace, watch, server
<1>9. CASE UNCHANGED vars
  BY <1>9 DEF TypeOK, vars, disk, watch, server
<1> QED  BY <1>1, <1>2, <1>3, <1>4, <1>5, <1>6, <1>7, <1>8, <1>9 DEF Next

LEMMA CheckedStep ==
  ASSUME IInv, [Next]_vars
  PROVE  CtxInv' /\ ServedIsChecked'
<1> USE DEF CtxInv, ServedIsChecked, Forgotten
<1>0. CtxInv /\ ServedIsChecked  BY DEF IInv
<1>1. CASE Next /\ (Load \/ Start \/ Listen \/ ListenFails \/ ServeReturns \/ Exit)
  BY <1>0, <1>1 DEF Next, Load, Start, Listen, ListenFails, ServeReturns, Exit
<1>2. ASSUME Next, NEW r \in Requests, Accept(r) \/ Finish(r)
      PROVE  CtxInv' /\ ServedIsChecked'
  BY <1>0, <1>2 DEF Next, Accept, Finish
<1>3. CASE Next /\ (Notify \/ Signal \/ Shutdown)
  BY <1>0, <1>3 DEF Next, Notify, Signal, Shutdown
<1>4. CASE Next /\ (Drained \/ DrainTimeout)
  BY <1>0, <1>4 DEF Next, Drained, DrainTimeout
<1>5. CASE AddWatch \/ AddWatchFails \/ ReadFile \/ Reload \/ StopWatching
  <2>1. UNCHANGED server
    BY <1>5 DEF AddWatch, AddWatchFails, ReadFile, Reload, StopWatching
  <2> QED  BY <1>0, <2>1, ServerUntouched
<1>6. ASSUME NEW c, BeginWrite(c) \/ EndWrite(c) \/ Replace(c)
      PROVE  CtxInv' /\ ServedIsChecked'
  <2>1. UNCHANGED server
    BY <1>6 DEF BeginWrite, EndWrite, Replace
  <2> QED  BY <1>0, <2>1, ServerUntouched
<1>7. CASE UNCHANGED vars
  BY <1>0, <1>7, ServerUntouched DEF vars
<1> QED  BY <1>1, <1>2, <1>3, <1>4, <1>5, <1>6, <1>7 DEF Next

LEMMA InvStep == IInv /\ [Next]_vars => IInv'
BY TypeStep, CheckedStep DEF IInv

LEMMA Invariance == Spec => []IInv
BY InitInv, InvStep, PTL DEF Spec

\* The variables keep their types, and what main and the manager hold has
\* passed the validator (config.go:98, validator.go:22).
THEOREM TypeCorrect == Spec => []TypeOK
<1>1. IInv => TypeOK  BY DEF IInv
<1> QED  BY <1>1, Invariance, PTL

\* The health checker's context (net.go:207) outlives the listener and the
\* requests, except after a drain that timed out or was forgotten.
THEOREM CheckedWhileServed == Spec => []ServedIsChecked
<1>1. IInv => ServedIsChecked  BY DEF IInv
<1> QED  BY <1>1, Invariance, PTL
============================================================================
