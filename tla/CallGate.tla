------------------------------ MODULE CallGate ------------------------------
(***************************************************************************)
(* What a bulkhead promises to the code it protects, and nothing about how *)
(* it keeps the promise: at most Limit blocks run at a time, every call    *)
(* runs its block at most once, and a call that was turned away never      *)
(* runs it.  Bulkhead implements this specification.                       *)
(***************************************************************************)
EXTENDS Naturals, FiniteSets

CONSTANTS Calls,   \* the calls, each one invocation of execute
          Limit    \* how many blocks may run at a time

VARIABLE phase     \* phase[c]: how far call c has come

Phases == {"outside", "running", "finished", "denied"}

In(p) == {c \in Calls : phase[c] = p}

Init == phase = [c \in Calls |-> "outside"]

Start(c) ==
    /\ phase[c] = "outside"
    /\ Cardinality(In("running")) < Limit
    /\ phase' = [phase EXCEPT ![c] = "running"]

Finish(c) ==
    /\ phase[c] = "running"
    /\ phase' = [phase EXCEPT ![c] = "finished"]

Deny(c) ==
    /\ phase[c] = "outside"
    /\ phase' = [phase EXCEPT ![c] = "denied"]

Next == \E c \in Calls : Start(c) \/ Finish(c) \/ Deny(c)

Spec == Init /\ [][Next]_phase
=============================================================================
