----------------------------- MODULE ExecuteRace -----------------------------
(***************************************************************************)
(* TimeLimiter.executeRace: every block in a coroutine of its own, a       *)
(* select over them, in a coroutineScope under one withTimeout.  The       *)
(* select has its answer with the first block that ends; the scope ends    *)
(* when all blocks have.  No counter is touched.                           *)
(***************************************************************************)
CONSTANTS
    Racers,  \* the blocks of the race
    None     \* no block

Reasons == {"none", "timeout", "exception", "foreign", "cancelled"}

ASSUME RaceAssumption ==
    /\ Racers # {}
    /\ None \notin Racers
    /\ (Racers \cup {None}) \cap (Reasons \cup {"pending"}) = {}

VARIABLES
    block,     \* how block b has ended, if it has
    selected,  \* the block the select has returned
    reason,    \* what has cancelled the scope; of several timeouts, the one thrown
    timers,    \* the timers that have fired: its own, or one around it
    result     \* the block whose value executeRace returns, or what it throws

raceVars == <<block, selected, reason, timers, result>>

RaceInit ==
    /\ block = [b \in Racers |-> "running"]
    /\ selected = None
    /\ reason = "none"
    /\ timers = {}
    /\ result = "pending"

EndsAs(b, how) ==
    /\ block[b] = "running"
    /\ block' = [block EXCEPT ![b] = how]

\* The first value is selected, unless the scope is already cancelled.
Returns(b) ==
    /\ EndsAs(b, "value")
    /\ selected' = IF selected = None /\ reason = "none" THEN b ELSE selected
    /\ UNCHANGED <<reason, timers, result>>

\* An exception cancels the scope, or is what is thrown if that was cancelled before.
Fails(b) ==
    /\ EndsAs(b, "exception")
    /\ reason' = "exception"
    /\ UNCHANGED <<selected, timers, result>>

\* A CancellationException of the block's own, such as that of a withTimeout in it,
\* cancels nothing by itself; as the first end it is thrown by the select.
Strays(b) ==
    /\ EndsAs(b, "foreign")
    /\ reason' = IF selected = None /\ reason = "none" THEN "foreign" ELSE reason
    /\ UNCHANGED <<selected, timers, result>>

\* A block whose coroutine was cancelled ends at its next suspension.
Stops(b) ==
    /\ reason # "none"
    /\ EndsAs(b, "cancelled")
    /\ UNCHANGED <<selected, reason, timers, result>>

CancelRace ==
    /\ result = "pending"
    /\ reason = "none"
    /\ reason' = "cancelled"
    /\ UNCHANGED <<block, selected, timers, result>>

\* A timer, its own or one around it, fires until all has ended, also after the other.
\* A scope that a timeout cancelled ends with the next one, if another comes.
Timeout(why) ==
    /\ result = "pending"
    /\ why \notin timers
    /\ timers' = timers \cup {why}
    /\ reason' = IF reason \in {"none", "timeout", "foreign"} THEN why ELSE reason
    /\ UNCHANGED <<block, selected, result>>

\* Faulty: executeRace returns with the select.
EndRace_WithSelect ==
    /\ result = "pending"
    /\ selected # None \/ reason # "none"
    /\ result' = IF reason = "none" THEN selected ELSE reason
    /\ UNCHANGED <<block, selected, reason, timers>>

EndRace ==
    /\ result = "pending"
    /\ \A b \in Racers : block[b] # "running"
    /\ result' = IF reason = "none" THEN selected ELSE reason
    /\ UNCHANGED <<block, selected, reason, timers>>

RaceNext ==
    \/ \E b \in Racers : Returns(b) \/ Fails(b) \/ Strays(b) \/ Stops(b)
    \/ \E why \in {"timeout", "foreign"} : Timeout(why)
    \/ CancelRace
    \/ EndRace

\* No block need end by itself.
RaceGoesOn == Timeout("timeout") \/ EndRace \/ \E b \in Racers : Stops(b)

RaceSpec == RaceInit /\ [][RaceNext]_raceVars /\ WF_raceVars(RaceGoesOn)

-----------------------------------------------------------------------------
(* Properties *)

\* No block runs on after executeRace has ended, and a value that is returned is that
\* of a block of the race that returned one, while no other block failed.
NoneRunsOn ==
    result # "pending" =>
        /\ \A b \in Racers : block[b] # "running"
        /\ result \in Racers \cup {None} =>
            /\ result \in Racers /\ block[result] = "value"
            /\ \A b \in Racers : block[b] # "exception"

\* executeRace is a scope over its blocks: it ends when all of them have, not with the
\* first, and returns only when one of them has answered and none has failed.
raceJob == [b \in Racers |->
    CASE block[b] = "running"   -> "pending"
      [] block[b] = "value"     -> "answered"
      [] block[b] = "exception" -> "failed"
      [] OTHER                  -> "stopped"]

raceState ==
    IF result = "pending" THEN "open"
    ELSE IF result \in Racers THEN "returned" ELSE "threw"

RaceScope == INSTANCE Scope
    WITH Jobs <- Racers, Enough <- (SUBSET Racers) \ {{}}, job <- raceJob, state <- raceState
RaceImplementsScope == RaceScope!Spec

\* "@throws TimeoutCancellationException if all operations time out".
TimeoutMeansNoneCompleted ==
    result = "timeout" => \A b \in Racers : block[b] # "value"
=============================================================================
