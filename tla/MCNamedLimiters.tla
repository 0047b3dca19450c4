-------------------------- MODULE MCNamedLimiters --------------------------
(* An instance of NamedLimiters for TLC: one permit per millisecond, bursts
   of two. *)
EXTENDS NamedLimiters, TLC

MCLimiters == 1..MaxCreated

\* Sound here: only safety is checked, and clients are treated alike.
Symmetry == Permutations(Clients)
=============================================================================
