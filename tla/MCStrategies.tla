---- MODULE MCStrategies ----
(* Strategies for TLC: the first backend has twice the weight of the others. *)
EXTENDS Strategies, TLC

MCWeight == [b \in Backends |-> IF b = 1 THEN 2 ELSE 1]

\* Threads are interchangeable, and no property is about liveness.
MCSymmetry == Permutations(Threads)
====
