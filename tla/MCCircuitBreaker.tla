-------------------------- MODULE MCCircuitBreaker --------------------------
(***************************************************************************)
(* CircuitBreaker for TLC.  Whether anything but calls whose blocks return *)
(* or throw Exceptions will happen is chosen at the start: in a calm       *)
(* behaviour nobody resets or trips the breaker, and no block throws an    *)
(* Error.  What must happen in the end is asked of calm behaviours only.   *)
(***************************************************************************)
EXTENDS CircuitBreaker

VARIABLE calm

CalmInit == Init /\ calm \in BOOLEAN

CalmNext ==
    /\ \/ \E c \in Callers :
            \/ Execute(c)
            \/ ~calm /\ (BlockError(c) \/ Reset(c) \/ Trip(c))
       \/ Tick
    /\ UNCHANGED calm

CalmSpec == CalmInit /\ [][CalmNext]_<<vars, calm>> /\ Fairness

\* An open breaker that goes on being called is given a trial some time: it knows its
\* lastFailureTime, and neither rejected calls nor late results put the trial off for ever.
CalmOpenEnds == calm /\ state = "Open" ~> state # "Open"

\* A trial comes to a result: callers that were in blocks from before it take nothing
\* away from its successes, and one failure decides.
CalmHalfOpenEnds == calm /\ state = "HalfOpen" ~> state # "HalfOpen"
=============================================================================
