-------------------------------- MODULE Saga --------------------------------
(***************************************************************************)
(* Saga.execute, by every saga of a ParallelSagaCoordinator.executeAll.    *)
(*                                                                         *)
(* A saga runs its steps one after the other and remembers them; when one  *)
(* fails it compensates those it remembers, the last one first.  The       *)
(* coordinator starts one coroutine per saga in a scope of its own and     *)
(* awaits them in the order of the list.  The scope is cancelled by its    *)
(* caller, by a saga that throws an Error, or by an await that throws.     *)
(*                                                                         *)
(* Actions and compensations are user code: what is modelled is how they   *)
(* end.  An action that is retried is one action.  An action that is cut   *)
(* short by a timeout or a cancellation may have taken effect, although    *)
(* the saga never learns of it.                                            *)
(***************************************************************************)
EXTENDS Integers, Sequences, FiniteSets

CONSTANTS
    NumSagas,            \* the length of the list given to executeAll
    NumSteps,            \* the number of steps of each saga
    Compensable,         \* the steps whose compensation is not null
    Continuing,          \* the sagas with config.continueOnCompensationFailure
    Errors,              \* may an action or a compensation throw an Error?
    CompensationCancels, \* may a compensation throw a CancellationException
                         \* of its own, as one with a timeout does?
    CallerCancels,       \* may the caller of executeAll be cancelled?
    MaxRounds            \* how often executeAll is called with these sagas

\* The require() of Saga.create, and the bounds of the model.
ASSUME SagaAssumption ==
    /\ NumSagas \in Nat \ {0}
    /\ NumSteps \in Nat \ {0}
    /\ Compensable \subseteq 1 .. NumSteps
    /\ Continuing \subseteq 1 .. NumSagas
    /\ Errors \in BOOLEAN
    /\ CompensationCancels \in BOOLEAN
    /\ CallerCancels \in BOOLEAN
    /\ MaxRounds \in Nat \ {0}

Sagas == 1 .. NumSagas
Steps == 1 .. NumSteps

VARIABLES
    place,         \* place[s]: where the coroutine of saga s is
    executedSteps, \* executedSteps[s], as the numbers of the steps
    at,            \* at[s]: the next step, or the next position to compensate
    errorSteps,    \* errorSteps[s]: the steps in compensationErrors
    compensated,   \* compensated[s]: compensatedCount
    effect,        \* history: what has become of each step
    scope,         \* where executeAll is
    awaited,       \* how many sagas it has awaited
    cancelled,     \* who has cancelled the scope
    round          \* how often executeAll has been called

local  == <<executedSteps, at, errorSteps, compensated>>
caller == <<scope, awaited, round>>
vars   == <<place, local, effect, cancelled, caller>>

Returned == {"success", "failure"}
Thrown   == {"cancelled", "error"}
Ended    == Returned \cup Thrown
Places   == {"idle", "launched", "forward", "undoing"} \cup Ended
Effects  == {"none", "done", "lost", "undone", "kept", "stuck"}

Goto(s, from, to) ==
    /\ place[s] = from
    /\ place' = [place EXCEPT ![s] = to]

Mark(s, i, e) == effect' = [effect EXCEPT ![s][i] = e]

NoEffect == [s \in Sagas |-> [i \in Steps |-> "none"]]

Init ==
    /\ place = [s \in Sagas |-> "idle"]
    /\ executedSteps = [s \in Sagas |-> <<>>]
    /\ at = [s \in Sagas |-> 0]
    /\ errorSteps = [s \in Sagas |-> {}]
    /\ compensated = [s \in Sagas |-> 0]
    /\ effect = NoEffect
    /\ scope = "idle"
    /\ awaited = 0
    /\ cancelled = "no"
    /\ round = 0

-----------------------------------------------------------------------------
(* Saga.execute: forward *)

\* Faulty: the list of the execution before is kept.
Begin_KeepsList(s) ==
    /\ Goto(s, "launched", "forward")
    /\ at' = [at EXCEPT ![s] = 1]
    /\ UNCHANGED <<executedSteps, errorSteps, compensated, effect, cancelled, caller>>

Begin(s) ==
    /\ Goto(s, "launched", "forward")
    /\ executedSteps' = [executedSteps EXCEPT ![s] = <<>>]
    /\ at' = [at EXCEPT ![s] = 1]
    /\ UNCHANGED <<errorSteps, compensated, effect, cancelled, caller>>

\* A coroutine that is cancelled before it was dispatched does not begin.
NeverBegin(s) ==
    /\ cancelled # "no"
    /\ Goto(s, "launched", "cancelled")
    /\ UNCHANGED <<local, effect, cancelled, caller>>

StepReturns(s) ==
    /\ place[s] = "forward"
    /\ at[s] <= NumSteps
    /\ executedSteps' = [executedSteps EXCEPT ![s] = Append(@, at[s])]
    /\ at' = [at EXCEPT ![s] = @ + 1]
    /\ Mark(s, at[s], "done")
    /\ UNCHANGED <<place, errorSteps, compensated, cancelled, caller>>

\* Faulty: one step too early.
Succeed_Early(s) ==
    /\ at[s] >= NumSteps
    /\ Goto(s, "forward", "success")
    /\ UNCHANGED <<local, effect, cancelled, caller>>

Succeed(s) ==
    /\ at[s] > NumSteps
    /\ Goto(s, "forward", "success")
    /\ UNCHANGED <<local, effect, cancelled, caller>>

\* Faulty: the failure of a step reaches the scope as well.
StepFails_Escapes(s) ==
    /\ at[s] <= NumSteps
    /\ Goto(s, "forward", "undoing")
    /\ at' = [at EXCEPT ![s] = Len(executedSteps[s])]
    /\ errorSteps' = [errorSteps EXCEPT ![s] = {}]
    /\ compensated' = [compensated EXCEPT ![s] = 0]
    /\ cancelled' = IF cancelled = "no" THEN "byChild" ELSE cancelled
    /\ UNCHANGED effect \/ Mark(s, at[s], "lost")
    /\ UNCHANGED <<executedSteps, caller>>

\* The action throws an Exception, or a CancellationException: a timeout's,
\* or the scope's.  Compensation starts with the last step executed.
StepFails(s) ==
    /\ at[s] <= NumSteps
    /\ Goto(s, "forward", "undoing")
    /\ at' = [at EXCEPT ![s] = Len(executedSteps[s])]
    /\ errorSteps' = [errorSteps EXCEPT ![s] = {}]
    /\ compensated' = [compensated EXCEPT ![s] = 0]
    /\ UNCHANGED effect \/ Mark(s, at[s], "lost")
    /\ UNCHANGED <<executedSteps, cancelled, caller>>

\* An Error is not caught, here or in a compensation: it ends the coroutine,
\* which cancels the scope and with it the other sagas.
ThrowError(s) ==
    /\ Errors
    /\ \/ Goto(s, "forward", "error") /\ at[s] <= NumSteps
       \/ Goto(s, "undoing", "error") /\ at[s] > 0 /\ executedSteps[s][at[s]] \in Compensable
    /\ cancelled' = IF cancelled = "no" THEN "byChild" ELSE cancelled
    /\ UNCHANGED <<local, effect, caller>>

-----------------------------------------------------------------------------
(* Saga.execute: compensate, one step of the loop at a time *)

\* The step whose turn it is.
Compensating(s, i) ==
    /\ place[s] = "undoing"
    /\ at[s] > 0
    /\ executedSteps[s][at[s]] = i

Skip(s, i) ==
    /\ Compensating(s, i)
    /\ i \notin Compensable
    /\ at' = [at EXCEPT ![s] = @ - 1]
    /\ Mark(s, i, "kept")
    /\ UNCHANGED <<place, executedSteps, errorSteps, compensated, cancelled, caller>>

CompensationReturns(s, i) ==
    /\ Compensating(s, i)
    /\ i \in Compensable
    /\ at' = [at EXCEPT ![s] = @ - 1]
    /\ compensated' = [compensated EXCEPT ![s] = @ + 1]
    /\ Mark(s, i, "undone")
    /\ UNCHANGED <<place, executedSteps, errorSteps, cancelled, caller>>

\* Faulty: the first failure ends the loop, whatever the configuration.
CompensationFails_Stops(s, i) ==
    /\ Compensating(s, i)
    /\ i \in Compensable
    /\ at' = [at EXCEPT ![s] = 0]
    /\ errorSteps' = [errorSteps EXCEPT ![s] = @ \cup {i}]
    /\ Mark(s, i, "stuck")
    /\ UNCHANGED <<place, executedSteps, compensated, cancelled, caller>>

CompensationFails(s, i) ==
    /\ Compensating(s, i)
    /\ i \in Compensable
    /\ at' = [at EXCEPT ![s] = IF s \in Continuing THEN @ - 1 ELSE 0]
    /\ errorSteps' = [errorSteps EXCEPT ![s] = @ \cup {i}]
    /\ Mark(s, i, "stuck")
    /\ UNCHANGED <<place, executedSteps, compensated, cancelled, caller>>

\* A CancellationException of the compensation leaves compensate at once.
CompensationCancelled(s, i) ==
    /\ Compensating(s, i)
    /\ i \in Compensable
    /\ cancelled # "no" \/ CompensationCancels
    /\ Goto(s, "undoing", "cancelled")
    /\ UNCHANGED <<local, effect, cancelled, caller>>

Fail(s) ==
    /\ at[s] = 0
    /\ Goto(s, "undoing", "failure")
    /\ UNCHANGED <<local, effect, cancelled, caller>>

Execute(s) ==
    \/ Begin(s) \/ NeverBegin(s)
    \/ StepReturns(s) \/ StepFails(s) \/ ThrowError(s) \/ Succeed(s) \/ Fail(s)
    \/ \E i \in Steps :
          \/ Skip(s, i) \/ CompensationReturns(s, i)
          \/ CompensationFails(s, i) \/ CompensationCancelled(s, i)

-----------------------------------------------------------------------------
(* ParallelSagaCoordinator.executeAll *)

Launch ==
    /\ scope \in {"idle", "returned", "threw"}
    /\ round < MaxRounds
    /\ place' = [s \in Sagas |-> "launched"]
    /\ effect' = NoEffect
    /\ scope' = "awaiting"
    /\ awaited' = 0
    /\ cancelled' = "no"
    /\ round' = round + 1
    /\ UNCHANGED local

Await ==
    /\ scope = "awaiting"
    /\ awaited < NumSagas
    /\ place[awaited + 1] \in Returned
    /\ awaited' = awaited + 1
    /\ UNCHANGED <<place, local, effect, cancelled, scope, round>>

\* Faulty: a coroutine that was cancelled does not fail its await().
AwaitThrows_ScopeOnly ==
    /\ scope = "awaiting"
    /\ cancelled # "no"
    /\ scope' = "joining"
    /\ UNCHANGED <<place, local, effect, awaited, cancelled, round>>

\* await(), or the end of the scope, throws: the scope is cancelled, or the
\* coroutine awaited was.
AwaitThrows ==
    /\ scope = "awaiting"
    /\ \/ cancelled # "no"
       \/ awaited < NumSagas /\ place[awaited + 1] \in Thrown
    /\ scope' = "joining"
    /\ cancelled' = IF cancelled = "no" THEN "byChild" ELSE cancelled
    /\ UNCHANGED <<place, local, effect, awaited, round>>

Return ==
    /\ scope = "awaiting"
    /\ awaited = NumSagas
    /\ cancelled = "no"
    /\ scope' = "returned"
    /\ UNCHANGED <<place, local, effect, cancelled, awaited, round>>

\* Faulty: the scope does not wait for its coroutines.
Throw_Leaks ==
    /\ scope = "joining"
    /\ scope' = "threw"
    /\ UNCHANGED <<place, local, effect, cancelled, awaited, round>>

\* coroutineScope waits for its coroutines before it throws.
Throw ==
    /\ scope = "joining"
    /\ \A s \in Sagas : place[s] \in Ended
    /\ scope' = "threw"
    /\ UNCHANGED <<place, local, effect, cancelled, awaited, round>>

CallerCancel ==
    /\ CallerCancels
    /\ scope = "awaiting"
    /\ cancelled = "no"
    /\ cancelled' = "byCaller"
    /\ UNCHANGED <<place, local, effect, caller>>

Coordinate == Await \/ AwaitThrows \/ Return \/ Throw

Next ==
    \/ \E s \in Sagas : Execute(s)
    \/ Launch \/ Coordinate \/ CallerCancel

Spec == Init /\ [][Next]_vars

\* The dispatcher runs every coroutine, and actions and compensations end.
Fairness == WF_vars(Coordinate) /\ \A s \in Sagas : WF_vars(Execute(s))

FairSpec == Spec /\ Fairness

-----------------------------------------------------------------------------
(* Properties *)

TypeOK ==
    /\ place \in [Sagas -> Places]
    /\ executedSteps \in [Sagas -> Seq(Steps)]
    /\ at \in [Sagas -> 0 .. (NumSteps + 1)]
    /\ errorSteps \in [Sagas -> SUBSET Steps]
    /\ compensated \in [Sagas -> 0 .. NumSteps]
    /\ effect \in [Sagas -> [Steps -> Effects]]
    /\ scope \in {"idle", "awaiting", "joining", "returned", "threw"}
    /\ awaited \in 0 .. NumSagas
    /\ cancelled \in {"no", "byCaller", "byChild"}
    /\ round \in 0 .. MaxRounds

\* A SagaResult.Failure tells the truth about every step: its count and its
\* errors are those of the compensations that ran, and a step that still
\* stands without either is there only where the configuration stops at the
\* first error.
FailureTellsAll ==
    \A s \in Sagas : place[s] = "failure" =>
        /\ compensated[s] = Cardinality({i \in Steps : effect[s][i] = "undone"})
        /\ errorSteps[s] = {i \in Steps : effect[s][i] = "stuck"}
        /\ (\E i \in Steps : effect[s][i] = "done")
               => s \notin Continuing /\ errorSteps[s] # {}

\* A saga that fails and is compensated does not disturb the others: their
\* scope is cancelled only by a caller, or when a saga throws.
FailureIsContained ==
    cancelled = "byChild" => \E s \in Sagas : place[s] \in Thrown

\* executeAll leaves no saga running behind it, and returns only if every
\* saga has a result.
NoneLeftRunning ==
    /\ scope = "threw" => \A s \in Sagas : place[s] \in Ended
    /\ scope = "returned" => \A s \in Sagas : place[s] \in Returned

\* executeAll comes to an end, however its sagas do.
AllEnd == scope = "awaiting" ~> scope \in {"returned", "threw"}

\* Every saga does all its steps or takes them back in reverse order.
verdict == [s \in Sagas |->
    CASE place[s] = "success"  -> "committed"
      [] place[s] = "failure"  -> "aborted"
      [] place[s] \in Thrown   -> "abandoned"
      [] OTHER                 -> "open"]

Outcome == INSTANCE Backout
ImplementsBackout == Outcome!Spec

\* executeAll is a scope over its sagas: it ends when all of them have, whoever
\* cancelled it, and returns only when each of them has a result.
job == [s \in Sagas |->
    CASE place[s] \in Returned  -> "answered"
      [] place[s] = "error"     -> "failed"
      [] place[s] = "cancelled" -> "stopped"
      [] OTHER                  -> "pending"]

state ==
    CASE scope = "idle" -> "none"
      [] scope \in {"awaiting", "joining"} -> "open"
      [] OTHER -> scope

SagaScope == INSTANCE Scope WITH Jobs <- Sagas, Enough <- {Sagas}
ImplementsScope == SagaScope!Spec

-----------------------------------------------------------------------------
(* What the documentation says of a saga, and the code does not do *)

\* "If true, continues compensating remaining steps even if one fails" (of
\* continueOnCompensationFailure): as long as the scope is not cancelled, a
\* saga that has ended has at most the one step left to compensate whose
\* compensation failed.
CompensatesRemaining ==
    \A s \in Continuing : place[s] = "cancelled" /\ cancelled = "no" =>
        Cardinality({i \in Compensable : effect[s][i] = "done"}) <= 1
=============================================================================
