---------------------------- MODULE TimeLimiter ----------------------------
(***************************************************************************)
(* TimeLimiter.execute, executeOrNull, executeOrFallback, executeOrDefault *)
(* and executeWithRetry on one limiter, by calls that may be made inside   *)
(* the block of another call.                                              *)
(*                                                                         *)
(* The block of a call runs in a coroutine that withTimeout makes for it.  *)
(* When a timer fires, that coroutine and those below it are cancelled by  *)
(* a TimeoutCancellationException, which names the coroutine of the timer  *)
(* and nothing else tells apart from one of another timer.  Timers are not *)
(* related to a clock: durations are free, so they fire in any order.      *)
(*                                                                         *)
(* Cancellation is cooperative, as kotlinx.coroutines has it: a block that *)
(* is cancelled goes on until it suspends, may call the limiter meanwhile, *)
(* and may end in any way.  Its timer goes on, too, and so do those around *)
(* it: a coroutine that was cancelled by a timeout ends with the first     *)
(* other timeout that comes before it has ended.                           *)
(***************************************************************************)
EXTENDS Integers, FiniteSets

CONSTANTS
    Call,           \* the calls; each is made once in a run of the block around it
    Outer,          \* Outer[c]: the calls in whose blocks c is made
    Operations,     \* the operations that clients use
    MaxRetries,     \* bound on the parameter retries of executeWithRetry
    ListenerErrors, \* may a listener throw an Error?
    Resets          \* is resetStatistics called?

\* The ends of a block and of a call, except that a timeout is named by the
\* call whose timer fired, or "foreign" if it is not a limiter's.
Plain == {"value", "null", "exception", "error", "cancelled", "foreign", "none"}

ASSUME CallAssumption ==
    /\ Call \cap Plain = {}
    /\ Outer \in [Call -> SUBSET Call]
    /\ \A c \in Call : c \notin Outer[c] /\ \A d \in Outer[c] : Outer[d] \subseteq Outer[c]
    /\ \A c \in Call : Outer[c] # {} => \E d \in Outer[c] : Outer[c] = Outer[d] \cup {d}
    /\ Operations \subseteq
        {"execute", "executeOrNull", "executeOrFallback", "executeOrDefault"}
    /\ MaxRetries \in Nat
    /\ ListenerErrors \in BOOLEAN
    /\ Resets \in BOOLEAN

VARIABLES
    pc,               \* where call c is
    op,               \* its operation; executeWithRetry is "execute" with retries
    retries,          \* retries it has left
    cause,            \* what cancelled the coroutine of its block
    second,           \* if that was a timeout, the next one that came
    thrown,           \* how withTimeout or withTimeoutOrNull has ended
    outcome,          \* how the call has ended
    context,          \* what cancelled the coroutine in which its client runs
    totalCalls, successfulCalls, timedOutCalls, failedCalls,  \* as in the code
    since,            \* history: attempts under way that totalCalls counts
    stale,            \* history: attempts counted that began before the last reset
    lost              \* history: attempts since then that ended with an Error

control  == <<pc, op, retries, cause, second, thrown, outcome, context>>
counters == <<totalCalls, successfulCalls, timedOutCalls, failedCalls>>
history  == <<since, stale, lost>>
vars     == <<control, counters, history>>

Timeouts  == Call \cup {"foreign"}
Causes    == Timeouts \cup {"none", "cancelled"}
Ends      == Timeouts \cup Plain
Places    == {"idle", "counted", "block", "left", "retry", "fallback", "done"}
Attempt   == {"counted", "block", "left"}

\* executeOrDefault is executeOrNull with something in the place of null.
OrNull == {"executeOrNull", "executeOrDefault"}

Inner(c)   == {d \in Call : c \in Outer[d]}
Nearest(c) == CHOOSE d \in Outer[c] : Outer[c] = Outer[d] \cup {d}
Own(c)     == {d \in Call : Outer[d] = Outer[c] \cup {c}}
UnderWay(c) == pc[c] \notin {"idle", "done"}
InAttempt(c) == pc[c] \in Attempt \cup {"retry"}
Busy(c)     == \E d \in Inner(c) : UnderWay(d)

\* What has cancelled the coroutine in which c is called.
Context(c) == IF Outer[c] = {} THEN context[c] ELSE cause[Nearest(c)]

Init ==
    /\ pc = [c \in Call |-> "idle"]
    /\ op \in [Call -> Operations]
    /\ retries \in [Call -> 0 .. MaxRetries]
    /\ \A c \in Call : op[c] # "execute" => retries[c] = 0
    /\ cause = [c \in Call |-> "none"]
    /\ second = [c \in Call |-> "none"]
    /\ thrown = [c \in Call |-> "none"]
    /\ outcome = [c \in Call |-> "none"]
    /\ context = [c \in Call |-> "none"]
    /\ totalCalls = 0
    /\ successfulCalls = 0
    /\ timedOutCalls = 0
    /\ failedCalls = 0
    /\ since = {}
    /\ stale = 0
    /\ lost = 0

-----------------------------------------------------------------------------
(* The life of a call *)

\* A call is made by a client, or by the block around it, which does one
\* thing at a time.
Callable(c) ==
    \/ pc[c] = "retry"
    \/ /\ pc[c] = "idle"
       /\ Outer[c] # {} =>
            /\ pc[Nearest(c)] = "block"
            /\ ~Busy(Nearest(c))

\* The first transaction of execute and of executeOrNull.
Begin(c) ==
    /\ Callable(c)
    /\ pc' = [pc EXCEPT ![c] = "counted"]
    /\ totalCalls' = totalCalls + 1
    /\ since' = since \cup {c}
    /\ UNCHANGED <<op, retries, cause, second, thrown, outcome, context>>
    /\ UNCHANGED <<successfulCalls, timedOutCalls, failedCalls, stale, lost>>

\* withTimeout starts the block at once, even in a coroutine that has been
\* cancelled; its calls are to be made again.
Enter(c) ==
    /\ pc[c] = "counted"
    /\ pc' = [d \in Call |->
                IF d = c THEN "block" ELSE IF d \in Inner(c) THEN "idle" ELSE pc[d]]
    /\ cause' = [cause EXCEPT ![c] = Context(c)]
    /\ second' = [second EXCEPT ![c] = "none"]
    /\ outcome' = [d \in Call |-> IF d \in Inner(c) THEN "none" ELSE outcome[d]]
    /\ UNCHANGED <<op, retries, thrown, context, counters, history>>

\* A timeout of zero or less, which only TimeLimiterConfig rules out: the block
\* does not run.
TimeOutAtOnce(c) ==
    /\ pc[c] = "counted"
    /\ pc' = [pc EXCEPT ![c] = "left"]
    /\ cause' = [cause EXCEPT ![c] = c]
    /\ second' = [second EXCEPT ![c] = "none"]
    /\ thrown' = [thrown EXCEPT ![c] = c]
    /\ UNCHANGED <<op, retries, outcome, context, counters, history>>

\* The blocks that hear of it when the coroutine of c is cancelled: its own and
\* those inside, unless the one around them was cancelled before.
Told(c) ==
    {d \in {c} \cup Inner(c) : pc[d] = "block" /\ (d = c \/ Context(d) = "none")}

\* The coroutines of those blocks are cancelled by why; if they have been, why comes
\* after what cancelled them.
Cancel(told, why) ==
    /\ cause' = [d \in Call |-> IF d \in told /\ cause[d] = "none" THEN why ELSE cause[d]]
    /\ second' = [d \in Call |->
                    IF d \in told /\ {cause[d], why} \subseteq Timeouts /\ second[d] = "none"
                    THEN why ELSE second[d]]

\* Faulty: the timer cancels the coroutine around the block as well.
Timer_Above(c) ==
    /\ pc[c] = "block"
    /\ cause[c] = "none"
    /\ Cancel(Told(c) \cup Outer[c], c)
    /\ UNCHANGED <<pc, op, retries, thrown, outcome, context, counters, history>>

\* Faulty: the last attempt has no time limit.
Timer_NotLast(c) ==
    /\ pc[c] = "block"
    /\ cause[c] = "none"
    /\ retries[c] > 0
    /\ Cancel(Told(c), c)
    /\ UNCHANGED <<pc, op, retries, thrown, outcome, context, counters, history>>

\* The timer is stopped only when the block has ended.  If the block is being
\* cancelled by another timeout, nobody but its own coroutine hears of this one.
Timer(c) ==
    /\ pc[c] = "block"
    /\ \/ cause[c] = "none" /\ Cancel(Told(c), c)
       \/ /\ cause[c] \in Timeouts \ {c} /\ second[c] = "none"
          /\ second' = [second EXCEPT ![c] = c]
          /\ UNCHANGED cause
    /\ UNCHANGED <<pc, op, retries, thrown, outcome, context, counters, history>>

\* The client's coroutine is cancelled, as such or by a timeout around it.
Interrupt(c, why) ==
    /\ Outer[c] = {}
    /\ pc[c] # "done"
    /\ context[c] = "none"
    /\ context' = [context EXCEPT ![c] = why]
    /\ Cancel(Told(c), why)
    /\ UNCHANGED <<pc, op, retries, thrown, outcome, counters, history>>

\* The ends of a piece of user code: "foreign" is a withTimeout in it that ran
\* out, "cancelled" a CancellationException it met, such as that of an await.
UserEnds == Plain \ {"none"}

\* What the block of c may end with: what it likes, what a call inside it threw,
\* or what it was cancelled with.
BlockEnds(c) ==
    UserEnds
        \cup {outcome[d] : d \in {e \in Own(c) : pc[e] = "done"}}
        \cup ({cause[c]} \ {"none"})

\* What has the last word on a cancelled block that ends by itself: what cancelled
\* it, but of two timeouts the second.
Decides(c) == IF second[c] # "none" THEN second[c] ELSE cause[c]

\* The exception a cancelled coroutine completes with if its block ends with x: one
\* that is no cancellation wins, and x may be the second of two timeouts.
Final(c, x) ==
    IF \/ x \in {"exception", "error"}
       \/ second[c] = "none" /\ {cause[c], x} \subseteq Timeouts
    THEN x ELSE Decides(c)

\* What withTimeout makes of it: a block that never suspended keeps its end if it
\* timed out itself.
AfterCancellation(c, x) ==
    {Final(c, x)} \cup IF Final(c, x) = c THEN {x} ELSE {}

Leave(c) ==
    /\ pc[c] = "block"
    /\ ~Busy(c)
    /\ pc' = [pc EXCEPT ![c] = "left"]
    /\ \E x \in BlockEnds(c) :
        \E y \in IF cause[c] = "none" THEN {x} ELSE AfterCancellation(c, x) :
            thrown' = [thrown EXCEPT ![c] = y]
    /\ UNCHANGED <<op, retries, cause, second, outcome, context, counters, history>>

-----------------------------------------------------------------------------
(* Counting *)

\* Which counter an end x is counted in, by the catch clauses.  withTimeoutOrNull
\* turns its own timeout into null, and a null of the block is taken for one.
\* An Error is caught by neither clause.
Succeeded(c, x) == x = "value" \/ (x = "null" /\ op[c] \notin OrNull)
TimedOut(c, x)  == IF op[c] \in OrNull THEN x \in {"null", c} ELSE x \in Timeouts
Failed(c, x)    == x # "error" /\ ~Succeeded(c, x) /\ ~TimedOut(c, x)

One(condition) == IF condition THEN 1 ELSE 0

\* Faulty: an exception that is not a timeout is not counted.
Count_OnlyTimeouts(c, x) ==
    /\ successfulCalls' = successfulCalls + One(Succeeded(c, x))
    /\ timedOutCalls' = timedOutCalls + One(TimedOut(c, x))
    /\ stale' = stale + One(c \notin since /\ x # "error")
    /\ lost' = lost + One(c \in since /\ x = "error")
    /\ since' = since \ {c}
    /\ UNCHANGED <<totalCalls, failedCalls>>

Count(c, x) ==
    /\ successfulCalls' = successfulCalls + One(Succeeded(c, x))
    /\ timedOutCalls' = timedOutCalls + One(TimedOut(c, x))
    /\ failedCalls' = failedCalls + One(Failed(c, x))
    /\ stale' = stale + One(c \notin since /\ x # "error")
    /\ lost' = lost + One(c \in since /\ x = "error")
    /\ since' = since \ {c}
    /\ UNCHANGED totalCalls

\* Faulty: a timeout that is not its own is taken for it.
Answer_AnyTimeout(c, x) ==
    IF op[c] \in OrNull /\ x \in Timeouts \cup {"null"}
    THEN IF op[c] = "executeOrDefault" THEN "value" ELSE "null"
    ELSE x

\* What the caller gets when nothing is tried again.
Answer(c, x) ==
    IF op[c] \in OrNull /\ x \in {"null", c}
    THEN IF op[c] = "executeOrDefault" THEN "value" ELSE "null"
    ELSE x

\* Faulty: one attempt too many.
Retried_OffByOne(c, x) == op[c] = "execute" /\ x \in Timeouts /\ retries[c] >= 0

\* Faulty: any cancellation is tried again.
Retried_Cancelled(c, x) ==
    op[c] = "execute" /\ x \in Timeouts \cup {"cancelled"} /\ retries[c] > 0

Retried(c, x) == op[c] = "execute" /\ x \in Timeouts /\ retries[c] > 0

FellBack(c, x) == op[c] = "executeOrFallback" /\ x \in Timeouts

Finish(c, x) ==
    /\ pc' = [pc EXCEPT ![c] = "done"]
    /\ outcome' = [outcome EXCEPT ![c] = x]
    /\ UNCHANGED retries

\* The end of the attempt is counted and told to the listeners; an Error of
\* theirs passes through every clause.  Then the call is tried again
\* (executeWithRetry), falls back, or ends.
Settle(c) ==
    /\ pc[c] = "left"
    /\ Count(c, thrown[c])
    /\ LET x == thrown[c] IN
        \/ /\ Retried(c, x)
           /\ pc' = [pc EXCEPT ![c] = "retry"]
           /\ retries' = [retries EXCEPT ![c] = @ - 1]
           /\ UNCHANGED outcome
        \/ /\ FellBack(c, x)
           /\ pc' = [pc EXCEPT ![c] = "fallback"]
           /\ UNCHANGED <<retries, outcome>>
        \/ ~Retried(c, x) /\ ~FellBack(c, x) /\ Finish(c, Answer(c, x))
        \/ ListenerErrors /\ Finish(c, "error")
    /\ thrown' = [thrown EXCEPT ![c] = "none"]
    /\ UNCHANGED <<op, cause, second, context>>

\* The fallback runs outside withTimeout, in the caller's coroutine.
EndFallback(c) ==
    /\ pc[c] = "fallback"
    /\ \E x \in UserEnds \cup ({Context(c)} \ {"none"}) :
        Finish(c, x)
    /\ UNCHANGED <<op, cause, second, thrown, context, counters, history>>

ResetStatistics ==
    /\ Resets
    /\ totalCalls' = 0
    /\ successfulCalls' = 0
    /\ timedOutCalls' = 0
    /\ failedCalls' = 0
    /\ since' = {}
    /\ stale' = 0
    /\ lost' = 0
    /\ UNCHANGED control

-----------------------------------------------------------------------------

\* What the dispatcher runs without waiting for anything.
Execute(c) ==
    \/ pc[c] = "retry" /\ Begin(c)
    \/ Enter(c)
    \/ Settle(c)

\* A coroutine that has been cancelled comes to its end.
Yield(c) ==
    \/ cause[c] # "none" /\ Leave(c)
    \/ Context(c) # "none" /\ EndFallback(c)

Step(c) ==
    \/ Begin(c) \/ Enter(c) \/ TimeOutAtOnce(c) \/ Timer(c) \/ Leave(c)
    \/ Settle(c) \/ EndFallback(c)
    \/ \E why \in {"cancelled", "foreign"} : Interrupt(c, why)

Next ==
    \/ \E c \in Call : Step(c)
    \/ ResetStatistics

\* What happens by itself: the dispatcher, the clock and cancellation do not all stop.
GoOn(c) == Execute(c) \/ Timer(c) \/ Yield(c)

Spec == Init /\ [][Next]_vars /\ WF_vars(\E c \in Call : GoOn(c))

-----------------------------------------------------------------------------
(* Properties *)

\* Types; at most the retries that were asked for; an attempt that totalCalls
\* counts is under way; a call is under way only in a running block.
TypeOK ==
    /\ pc \in [Call -> Places]
    /\ op \in [Call -> Operations]
    /\ retries \in [Call -> 0 .. MaxRetries]
    /\ {cause, second} \subseteq [Call -> Causes]
    /\ thrown \in [Call -> Ends]
    /\ outcome \in [Call -> Ends]
    /\ context \in [Call -> Causes]
    /\ {totalCalls, successfulCalls, timedOutCalls, failedCalls, stale, lost} \subseteq Nat
    /\ since \subseteq {c \in Call : pc[c] \in Attempt}
    /\ \A c \in Call : UnderWay(c) => \A d \in Outer[c] : pc[d] = "block"

\* The statistics agree in every state: every attempt that was begun is under way,
\* or counted once, as succeeded, timed out or failed, whatever other calls,
\* timers and resets came between, unless an Error went past all clauses.
StatisticsBalance ==
    totalCalls + stale =
        successfulCalls + timedOutCalls + failedCalls + lost + Cardinality(since)

\* How c ended, as far as it has.
End(c) == IF pc[c] = "done" THEN outcome[c] ELSE thrown[c]

\* A timeout is seen only by the call whose timer fired, by those inside its block,
\* which it cancels, and by those around it, to which it is thrown.
TimeoutStaysInChain ==
    \A c \in Call : pc[c] \in {"left", "done"} =>
        End(c) \notin Call \ ({c} \cup Outer[c] \cup Inner(c))

\* A call whose block was cancelled, unless its own timeout has the last word on it,
\* does not return as if nothing had happened, nor with the null or default of a
\* timeout: the exception that cancelled it, or another, reaches the block around
\* it.  (executeOrFallback takes every timeout for its own.)
CancelledCallsThrow ==
    \A c \in Call :
        /\ pc[c] = "done"
        /\ Decides(c) \notin {"none", c}
        /\ op[c] # "executeOrFallback"
        => outcome[c] \notin {"value", "null"}

\* A block that was cancelled, not timed out, is not tried again by
\* executeWithRetry, although timeouts inside it may have been thrown at the same time.
CancelledIsNotRetried ==
    [][\A c \in Call : pc[c] = "left" /\ pc'[c] = "retry" => cause[c] # "cancelled"]_vars

-----------------------------------------------------------------------------
(* What the documentation says and the code does not do. *)

\* TimeLimiterStatistics: "Total number of timed-out calls".
TimedOutCallsTimedOut ==
    timedOutCalls > 0 => \E c \in Call : cause[c] # "none"

\* TimeLimiterStatistics: "Ratio of successful calls from 0.0 to 1.0."
SuccessRateInRange ==
    totalCalls > 0 => successfulCalls <= totalCalls
=============================================================================
