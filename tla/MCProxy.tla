------------------------------ MODULE MCProxy ------------------------------
(***************************************************************************)
(* Two instances of Proxy in one run, told apart by the initial state.     *)
(*                                                                         *)
(* "shared": two requests, one of which may be idempotent and disconnect,  *)
(* share the first backend and its breaker with an operator; the second    *)
(* backend is taken out of service by the first step.                      *)
(*                                                                         *)
(* "fallback": one request at a time falls back between two backends whose *)
(* flags change while it reads them and whose breakers its failures have   *)
(* opened.                                                                 *)
(***************************************************************************)
EXTENDS Proxy

CONSTANT Other   \* the request that only "shared" uses

VARIABLE instance

MCInit == Init /\ instance \in {"shared", "fallback"}

Shared ==
  /\ instance = "shared"
  /\ Next
  /\ alive' = {1} /\ cb'[2] = NewBreaker
  /\ \A r \in Requests : req'[r].be # 2
  /\ ~req'[Other].idempotent /\ ~req'[Other].gone
  /\ UNCHANGED instance

Fallback ==
  /\ instance = "fallback"
  /\ Next
  /\ req'[Other] = req[Other]
  /\ \A r \in Requests : ~req'[r].idempotent /\ ~req'[r].gone
  /\ \A b \in Backends : ~Trip(b) /\ ~Reset(b)
  /\ UNCHANGED instance

MCNext == Shared \/ Fallback

\* What the instances leave out are inputs and choices of the strategy: a
\* request that can go on in Proxy can go on here.
MCSpec ==
  /\ MCInit
  /\ [][MCNext]_<<vars, instance>>
  /\ \A r \in Requests : WF_vars(Progress(r))
=============================================================================
