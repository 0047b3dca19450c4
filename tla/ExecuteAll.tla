----------------------------- MODULE ExecuteAll -----------------------------
(***************************************************************************)
(* TimeLimiter.executeAll: one coroutine per block, each with an           *)
(* executeOrNull of its own, in one coroutineScope, which awaits them in   *)
(* the order of the list.                                                  *)
(*                                                                         *)
(* The scope is that of kotlinx.coroutines: a coroutine in it that ends    *)
(* with an exception that is no cancellation cancels the others; so does   *)
(* the exception that an await throws; and it ends when all have ended.    *)
(***************************************************************************)
EXTENDS TimeLimiter, Sequences

CONSTANT Blocks  \* the list of blocks, each named by its call

Listed == {Blocks[i] : i \in DOMAIN Blocks}

ASSUME BlocksAssumption ==
    /\ Blocks \in Seq(Call)
    /\ \A i, j \in DOMAIN Blocks : Blocks[i] = Blocks[j] => i = j
    /\ \A c \in Listed : Outer[c] = {} /\ Inner(c) = {}

VARIABLES
    awaited,  \* how many results have been awaited
    failure,  \* what has cancelled the scope
    scope     \* "open", or how executeAll has ended

scopeVars == <<awaited, failure, scope>>
allVars   == <<vars, scopeVars>>

AllInit ==
    /\ Init
    /\ \A c \in Listed : op[c] = "executeOrNull"
    /\ awaited = 0
    /\ failure = "none"
    /\ scope = "open"

AllEnded == \A c \in Listed : pc[c] = "done"

\* The coroutines in the scope learn that an exception e cancelled it as a plain
\* cancellation, and a cancellation as what it is.
CancelScope(e) ==
    LET why == IF e \in {"exception", "error"} THEN "cancelled" ELSE e IN
    /\ failure = "none"
    /\ failure' = e
    /\ context' = [c \in Call |->
                    IF c \in Listed /\ context[c] = "none" /\ pc[c] # "done" THEN why ELSE context[c]]
    /\ Cancel({c \in Listed : context[c] = "none" /\ pc[c] = "block"}, why)
    /\ UNCHANGED <<pc, op, retries, thrown, outcome, counters, history, awaited, scope>>

\* A coroutine that is cancelled before it was dispatched does not begin.
Dispatch(c) ==
    /\ pc[c] = "idle"
    /\ \/ context[c] = "none" /\ Begin(c)
       \/ /\ context[c] # "none"
          /\ Finish(c, context[c])
          /\ UNCHANGED <<op, cause, second, thrown, context, counters, history>>
    /\ UNCHANGED scopeVars

\* The life of one executeOrNull, as in TimeLimiter.
Run(c) == (Enter(c) \/ Settle(c)) /\ UNCHANGED scopeVars

RunBlock(c) == (Leave(c) \/ Timer(c) \/ TimeOutAtOnce(c)) /\ UNCHANGED scopeVars

\* The exception of a coroutine reaches the scope.
Propagate(c) ==
    /\ pc[c] = "done"
    /\ outcome[c] \in {"exception", "error"}
    /\ CancelScope(outcome[c])

\* .map { it.await() }: executeOrNull rethrows a timeout that is not its own, and await
\* throws it again.
Await ==
    /\ scope = "open" /\ failure = "none" /\ awaited < Len(Blocks)
    /\ LET c == Blocks[awaited + 1] IN
        /\ pc[c] = "done"
        /\ \/ /\ outcome[c] \in {"value", "null"}
              /\ awaited' = awaited + 1
              /\ UNCHANGED <<vars, failure, scope>>
           \/ outcome[c] \in Timeouts \cup {"cancelled"} /\ CancelScope(outcome[c])

\* Faulty: executeAll throws as soon as it can.
End_AtOnce ==
    /\ scope = "open"
    /\ \/ /\ failure = "none" /\ awaited = Len(Blocks)
          /\ scope' = "returned"
       \/ /\ failure # "none"
          /\ scope' = "threw"
    /\ UNCHANGED <<vars, awaited, failure>>

EndScope ==
    /\ scope = "open"
    /\ \/ /\ failure = "none" /\ awaited = Len(Blocks)
          /\ scope' = "returned"
       \/ /\ failure # "none" /\ AllEnded
          /\ scope' = "threw"
    /\ UNCHANGED <<vars, awaited, failure>>

InterruptAll(why) == scope = "open" /\ CancelScope(why)

Coordinate ==
    \/ Await
    \/ EndScope
    \/ \E c \in Listed : Propagate(c)

AllNext ==
    \/ \E c \in Listed : Dispatch(c) \/ Run(c) \/ RunBlock(c)
    \/ Coordinate
    \/ \E why \in {"cancelled", "foreign"} : InterruptAll(why)

\* No block need end by itself.
AllGoesOn ==
    \/ \E c \in Listed :
        \/ Dispatch(c)
        \/ GoOn(c) /\ UNCHANGED scopeVars
    \/ Coordinate

AllSpec == AllInit /\ [][AllNext]_allVars /\ WF_allVars(AllGoesOn)

-----------------------------------------------------------------------------
(* Properties *)

\* executeAll leaves no coroutine behind, whether it returns or throws, and what it
\* returns is the list of all answers.
NoneLeftBehind ==
    /\ scope # "open" => AllEnded
    /\ scope = "returned" => \A c \in Listed : outcome[c] \in {"value", "null"}

\* executeAll is a scope over its blocks: it ends when all of them have, whichever of
\* them throws and whoever cancels it, and returns only over an answer of each that
\* was not cancelled.  A failed block is an answer here: the documentation has null
\* for it, and FailedIsNull is about that.
allJob == [c \in Listed |->
    IF pc[c] # "done" THEN "pending"
    ELSE IF outcome[c] \in Timeouts \cup {"cancelled"} THEN "stopped" ELSE "answered"]

AllScope == INSTANCE Scope WITH Jobs <- Listed, Enough <- {Listed}, job <- allJob, state <- scope
AllImplementsScope == AllScope!Spec

\* "Failed or timed-out operations are represented as null": a failed one does not
\* take the answers of the others with it.
FailedIsNull == scope = "threw" => failure # "exception"
=============================================================================
