--------------------------- MODULE CircuitBreaker ---------------------------
(***************************************************************************)
(* CircuitBreaker: execute by any number of callers, reset and trip, over  *)
(* the four transactional variables of the breaker.                        *)
(*                                                                         *)
(* Every transaction is an action; what execute remembers between two of   *)
(* them is the caller's place, and the lastFailureTime it read.  In that   *)
(* gap other callers act: this is where the breaker's surprises are.       *)
(*                                                                         *)
(* Time is modelled by ages: the code only asks whether at least           *)
(* resetTimeout has passed since a time it remembered, so a remembered     *)
(* time is the number of ticks since then, up to ResetTimeout.  The clock  *)
(* is taken to be monotonic.                                               *)
(***************************************************************************)
EXTENDS Integers, FiniteSets

CONSTANTS
    Callers,           \* coroutines that use the breaker, each again and again
    FailureThreshold,  \* config.failureThreshold
    SuccessThreshold,  \* config.halfOpenSuccessThreshold
    ResetTimeout,      \* config.resetTimeout, in ticks
    CountCap,          \* larger counts are not told apart
    ManualReset,       \* may callers call reset()?
    ManualTrip,        \* may callers call trip()?
    BlockErrors        \* may a block throw an Error (not an Exception)?

\* The require() calls of CircuitBreakerConfig, and the bound of the model.
ASSUME ConfigAssumption ==
    /\ FailureThreshold \in Nat \ {0}
    /\ SuccessThreshold \in Nat \ {0}
    /\ ResetTimeout \in Nat \ {0}
    /\ CountCap \in Nat
    /\ FailureThreshold <= CountCap
    /\ SuccessThreshold <= CountCap
    /\ ManualReset \in BOOLEAN
    /\ ManualTrip \in BOOLEAN
    /\ BlockErrors \in BOOLEAN

VARIABLES
    pc,            \* pc[c]: where caller c is
    snapshot,      \* snapshot[c]: age of the lastFailureTime that c read, or Never
    state,         \* state
    failureCount,  \* failureCount
    successCount,  \* successCount
    lastFailure,   \* age of lastFailureTime, or Never
    heard,         \* newState of the last onStateChange a listener received
    openedBy,      \* history: age of the failure that the Open period dates from
    overlapped     \* history: have two callers been under way at the same time?

breaker   == <<state, failureCount, successCount, lastFailure>>
observers == <<heard, openedBy, overlapped>>
vars      == <<pc, snapshot, breaker, observers>>

States == {"Closed", "Open", "HalfOpen"}

Never == -1                      \* lastFailureTime is null
Ages  == 0 .. ResetTimeout

\* A caller about to tell the listeners of the state it has just written.
Telling == {"tellClosed", "tellOpen", "tellHalfOpen"}

Places == {"idle", "check", "read", "closedBlock", "halfOpenBlock",
           "opening", "closing"} \cup Telling

Goto(c, from, to) ==
    /\ pc[c] = from
    /\ pc' = [pc EXCEPT ![c] = to]

\* c begins a call of execute, reset or trip; the history of who overlapped.
Begins(c) ==
    /\ pc[c] = "idle"
    /\ overlapped' = (overlapped \/ \E d \in Callers : pc[d] # "idle")

\* The code compares counts with the thresholds only.
Increment(n) == IF n < CountCap THEN n + 1 ELSE n

Init ==
    /\ pc = [c \in Callers |-> "idle"]
    /\ snapshot = [c \in Callers |-> Never]
    /\ state = "Closed"
    /\ failureCount = 0
    /\ successCount = 0
    /\ lastFailure = Never
    /\ heard = "Closed"
    /\ openedBy = Never
    /\ overlapped = FALSE

-----------------------------------------------------------------------------
(* checkAndUpdateState *)

\* The first transaction: execute begins.
Check(c) ==
    /\ IF state = "Open" /\ lastFailure # Never
       THEN /\ Goto(c, "idle", "check")
            /\ snapshot' = [snapshot EXCEPT ![c] = lastFailure]
       ELSE /\ Goto(c, "idle", "read")
            /\ UNCHANGED snapshot
    /\ Begins(c)
    /\ UNCHANGED <<breaker, heard, openedBy>>

TooEarly(c) ==
    /\ snapshot[c] < ResetTimeout
    /\ Goto(c, "check", "read")
    /\ snapshot' = [snapshot EXCEPT ![c] = Never]
    /\ UNCHANGED <<breaker, observers>>

\* Faulty: the timeout is not waited for.
ToHalfOpen_AtOnce(c) ==
    /\ state = "Open"
    /\ Goto(c, "check", "tellHalfOpen")
    /\ snapshot' = [snapshot EXCEPT ![c] = Never]
    /\ state' = "HalfOpen"
    /\ successCount' = 0
    /\ openedBy' = Never
    /\ UNCHANGED <<failureCount, lastFailure, heard, overlapped>>

\* The second transaction, once resetTimeout has passed.
ToHalfOpen(c) ==
    /\ snapshot[c] = ResetTimeout
    /\ snapshot' = [snapshot EXCEPT ![c] = Never]
    /\ IF state = "Open"
       THEN /\ Goto(c, "check", "tellHalfOpen")
            /\ state' = "HalfOpen"
            /\ successCount' = 0
            /\ openedBy' = Never
            /\ UNCHANGED <<failureCount, lastFailure>>
       ELSE /\ Goto(c, "check", "read")
            /\ UNCHANGED <<breaker, openedBy>>
    /\ UNCHANGED <<heard, overlapped>>

-----------------------------------------------------------------------------
(* execute: the state is read again, and decides *)

\* Faulty: a rejected call counts as a failure of the service.
Reject_Refreshes(c) ==
    /\ state = "Open"
    /\ Goto(c, "read", "idle")
    /\ lastFailure' = 0
    /\ UNCHANGED <<snapshot, state, failureCount, successCount, observers>>

\* CircuitBreakerOpenException
Reject(c) ==
    /\ state = "Open"
    /\ Goto(c, "read", "idle")
    /\ UNCHANGED <<snapshot, breaker, observers>>

Enter(c) ==
    /\ \/ state = "Closed"   /\ Goto(c, "read", "closedBlock")
       \/ state = "HalfOpen" /\ Goto(c, "read", "halfOpenBlock")
    /\ UNCHANGED <<snapshot, breaker, observers>>

\* The block throws an Error: catch (e: Exception) does not see it.
BlockError(c) ==
    /\ BlockErrors
    /\ Goto(c, "closedBlock", "idle") \/ Goto(c, "halfOpenBlock", "idle")
    /\ UNCHANGED <<snapshot, breaker, observers>>

-----------------------------------------------------------------------------
(* A block that was entered in state Closed *)

\* Faulty: one success takes back one failure.
OnSuccess_Decrements(c) ==
    /\ Goto(c, "closedBlock", "idle")
    /\ failureCount' = failureCount - 1
    /\ UNCHANGED <<snapshot, state, successCount, lastFailure, observers>>

OnSuccess(c) ==
    /\ Goto(c, "closedBlock", "idle")
    /\ failureCount' = 0
    /\ UNCHANGED <<snapshot, state, successCount, lastFailure, observers>>

\* onFailure, first transaction; cancellation of the block comes here too.
OnFailure(c) ==
    /\ failureCount' = Increment(failureCount)
    /\ lastFailure' = 0
    /\ IF failureCount' >= FailureThreshold
       THEN Goto(c, "closedBlock", "opening")
       ELSE Goto(c, "closedBlock", "idle")
    /\ UNCHANGED <<snapshot, state, successCount, observers>>

\* onFailure, second transaction
ToOpen(c) ==
    /\ IF state = "Closed"
       THEN /\ Goto(c, "opening", "tellOpen")
            /\ state' = "Open"
            /\ openedBy' = lastFailure
       ELSE /\ Goto(c, "opening", "idle")
            /\ UNCHANGED <<state, openedBy>>
    /\ UNCHANGED <<snapshot, failureCount, successCount, lastFailure, heard, overlapped>>

-----------------------------------------------------------------------------
(* A block that was entered in state HalfOpen *)

\* Faulty: a success of the trial is handled like one in state Closed.
OnSuccessInHalfOpen_AsClosed(c) ==
    /\ Goto(c, "halfOpenBlock", "idle")
    /\ failureCount' = 0
    /\ UNCHANGED <<snapshot, state, successCount, lastFailure, observers>>

\* onSuccessInHalfOpen, first transaction
OnSuccessInHalfOpen(c) ==
    /\ successCount' = Increment(successCount)
    /\ IF successCount' >= SuccessThreshold
       THEN Goto(c, "halfOpenBlock", "closing")
       ELSE Goto(c, "halfOpenBlock", "idle")
    /\ UNCHANGED <<snapshot, state, failureCount, lastFailure, observers>>

\* Faulty: the state is written without being read again.
ToClosed_Unchecked(c) ==
    /\ Goto(c, "closing", "tellClosed")
    /\ state' = "Closed"
    /\ failureCount' = 0
    /\ successCount' = 0
    /\ UNCHANGED <<snapshot, lastFailure, observers>>

\* Faulty: the failures that opened the breaker are kept.
ToClosed_KeepsFailures(c) ==
    /\ state = "HalfOpen"
    /\ Goto(c, "closing", "tellClosed")
    /\ state' = "Closed"
    /\ successCount' = 0
    /\ UNCHANGED <<snapshot, failureCount, lastFailure, observers>>

\* onSuccessInHalfOpen, second transaction
ToClosed(c) ==
    /\ IF state = "HalfOpen"
       THEN /\ Goto(c, "closing", "tellClosed")
            /\ state' = "Closed"
            /\ failureCount' = 0
            /\ successCount' = 0
       ELSE /\ Goto(c, "closing", "idle")
            /\ UNCHANGED <<state, failureCount, successCount>>
    /\ UNCHANGED <<snapshot, lastFailure, observers>>

OnFailureInHalfOpen(c) ==
    /\ IF state = "HalfOpen"
       THEN /\ Goto(c, "halfOpenBlock", "tellOpen")
            /\ state' = "Open"
            /\ successCount' = 0
            /\ lastFailure' = 0
            /\ openedBy' = 0
       ELSE /\ Goto(c, "halfOpenBlock", "idle")
            /\ UNCHANGED <<state, successCount, lastFailure, openedBy>>
    /\ UNCHANGED <<snapshot, failureCount, heard, overlapped>>

-----------------------------------------------------------------------------
(* reset, trip, notifyListeners *)

Reset(c) ==
    /\ ManualReset
    /\ Begins(c)
    /\ IF state = "Closed" THEN Goto(c, "idle", "idle") ELSE Goto(c, "idle", "tellClosed")
    /\ state' = "Closed"
    /\ failureCount' = 0
    /\ successCount' = 0
    /\ lastFailure' = Never
    /\ openedBy' = Never
    /\ UNCHANGED <<snapshot, heard>>

Trip(c) ==
    /\ ManualTrip
    /\ Begins(c)
    /\ IF state = "Open" THEN Goto(c, "idle", "idle") ELSE Goto(c, "idle", "tellOpen")
    /\ state' = "Open"
    /\ lastFailure' = 0
    /\ openedBy' = IF state = "Open" THEN openedBy ELSE 0
    /\ UNCHANGED <<snapshot, failureCount, successCount, heard>>

\* onStateChange, outside the transaction that made the change.  Only the
\* change to half-open is made on the way to the block.
NotifyListeners(c) ==
    /\ \/ Goto(c, "tellClosed", "idle")   /\ heard' = "Closed"
       \/ Goto(c, "tellOpen", "idle")     /\ heard' = "Open"
       \/ Goto(c, "tellHalfOpen", "read") /\ heard' = "HalfOpen"
    /\ UNCHANGED <<snapshot, breaker, openedBy, overlapped>>

-----------------------------------------------------------------------------
Older(age) == IF age \in 0 .. (ResetTimeout - 1) THEN age + 1 ELSE age

Tick ==
    /\ lastFailure' = Older(lastFailure)
    /\ openedBy' = Older(openedBy)
    /\ snapshot' = [c \in Callers |-> Older(snapshot[c])]
    /\ UNCHANGED <<pc, state, failureCount, successCount, heard, overlapped>>

\* What a caller does by itself: it calls execute again and again, and blocks end.
Execute(c) ==
    \/ Check(c) \/ TooEarly(c) \/ ToHalfOpen(c)
    \/ Reject(c) \/ Enter(c)
    \/ OnSuccess(c) \/ OnFailure(c) \/ ToOpen(c)
    \/ OnSuccessInHalfOpen(c) \/ ToClosed(c) \/ OnFailureInHalfOpen(c)
    \/ NotifyListeners(c)

Next ==
    \/ \E c \in Callers : Execute(c) \/ BlockError(c) \/ Reset(c) \/ Trip(c)
    \/ Tick

Spec == Init /\ [][Next]_vars

\* Time passes, the dispatcher runs every caller, blocks end, and the
\* service goes on being called.
Fairness == WF_vars(Tick) /\ \A c \in Callers : WF_vars(Execute(c))

FairSpec == Spec /\ Fairness

-----------------------------------------------------------------------------
(* Properties *)

TypeOK ==
    /\ pc \in [Callers -> Places]
    /\ snapshot \in [Callers -> Ages \cup {Never}]
    /\ state \in States
    /\ failureCount \in 0 .. CountCap
    /\ successCount \in 0 .. CountCap
    /\ lastFailure \in Ages \cup {Never}
    /\ heard \in States
    /\ openedBy \in Ages \cup {Never}
    /\ overlapped \in BOOLEAN

\* A breaker that has counted enough failures is never left closed: if it
\* still is, some caller is between the two transactions of onFailure.
NoLostOpen ==
    state = "Closed" /\ failureCount >= FailureThreshold
        => \E c \in Callers : pc[c] = "opening"

\* A trial that has succeeded often enough is never left half-open: some
\* caller is between the two transactions of onSuccessInHalfOpen.
NoLostClose ==
    state = "HalfOpen" /\ successCount >= SuccessThreshold
        => \E c \in Callers : pc[c] = "closing"

\* Counting and the transition are separate transactions, between which others
\* act: neither transition is lost.
NoLostTransition == NoLostOpen /\ NoLostClose

\* While nobody calls reset(), an open breaker knows since when it is open:
\* checkAndUpdateState, which ignores a null lastFailureTime, can end it.
OpenHasTimestamp == state = "Open" => lastFailure # Never

\* The state changes only along the documented transitions, or by hand: in
\* particular a success that comes too late does not close an open breaker.
LegalTransitions ==
    [][\/ state' = state
       \/ <<state, state'>> \in {<<"Closed", "Open">>, <<"Open", "HalfOpen">>,
                                <<"HalfOpen", "Closed">>, <<"HalfOpen", "Open">>}
       \/ \E c \in Callers : Reset(c) \/ Trip(c)]_vars

\* "Open -> Half-Open: After reset timeout expires": an open breaker is given a trial
\* some time, as long as it is called.
OpenEnds == state = "Open" ~> state # "Open"

-----------------------------------------------------------------------------
(* What holds while callers use the breaker one after the other, and not   *)
(* when they overlap.                                                      *)

\* When no call is under way, the listeners' last news is the state.
HeardIsState == (\A c \in Callers : pc[c] = "idle") => heard = state

\* "Closed -> Open: When failure threshold is exceeded"; failureThreshold is
\* the "number of consecutive failures before opening the circuit".
OpensAtThreshold ==
    state = "Closed" /\ state' = "Open" =>
        \/ failureCount >= FailureThreshold
        \/ \E c \in Callers : Trip(c)

\* "Open -> Half-Open: After reset timeout expires", be it counted from the
\* last failure, as the code means to, or from the one that opened the breaker.
HalfOpensAfterTimeout ==
    state = "Open" /\ state' = "HalfOpen"
        => lastFailure >= ResetTimeout \/ openedBy >= ResetTimeout

\* "Half-Open -> Closed: When success threshold is reached"
ClosesAtThreshold ==
    state = "HalfOpen" /\ state' = "Closed" =>
        \/ successCount >= SuccessThreshold
        \/ \E c \in Callers : Reset(c)

\* As long as callers use the breaker one after the other, with reset() and trip()
\* between calls, the transitions are made under their documented conditions, the
\* listeners know the state, and an open breaker has a timestamp.
OneAfterTheOther ==
    /\ [](~overlapped => HeardIsState /\ OpenHasTimestamp)
    /\ [][~overlapped' => OpensAtThreshold /\ HalfOpensAfterTimeout /\ ClosesAtThreshold]_vars
=============================================================================
