------------------------------ MODULE MCCache ------------------------------
(* Instances of Cache for TLC. *)
EXTENDS Cache

(* Without is the library's filter. *)
ASSUME WithoutIsSelectSeq ==
    \A seq \in UNION {[1..n -> Keys] : n \in 0..4} : \A S \in SUBSET Keys :
        Without(seq, S) = SelectSeq(seq, LAMBDA k : k \notin S)
=============================================================================
