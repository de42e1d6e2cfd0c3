---- MODULE MCFastProxy ----
(* FastProxy for TLC. *)
EXTENDS FastProxy, TLC

\* Requests are interchangeable, and so are the chaos handlers; no property
\* is about liveness.
MCSymmetry == Permutations(Requests) \cup Permutations(Handlers)
====
