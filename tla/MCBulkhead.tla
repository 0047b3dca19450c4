----------------------------- MODULE MCBulkhead -----------------------------
(* Instances of Bulkhead for TLC. *)
EXTENDS Bulkhead, TLC

\* Sound for the safety properties: no action treats two calls differently.
Symmetry == Permutations(Calls)
=============================================================================
