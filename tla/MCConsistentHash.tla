-------------------------- MODULE MCConsistentHash --------------------------
(***************************************************************************)
(* ConsistentHash with the virtual nodes of small pools.                   *)
(***************************************************************************)
EXTENDS ConsistentHash

\* The first two backends share position 3.
MCPoints == [b \in Backends |-> CASE b = 1 -> {0, 3} [] b = 2 -> {1, 3}
                                 [] OTHER -> {4}]
=============================================================================
