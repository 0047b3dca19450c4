------------------------------ MODULE Bulkhead ------------------------------
(***************************************************************************)
(* Bulkhead.execute: admission, the semaphore with its FIFO queue, the     *)
(* protected block, and the STM counters around it.                        *)
(*                                                                         *)
(* Each element of Calls is one invocation of execute.  Every transaction  *)
(* of the code (atomically { ... }) and every operation on the semaphore   *)
(* is an action of its own; any number of calls interleave between them.   *)
(* A listener loop catches Exception, so it changes nothing unless a       *)
(* listener throws an Error: that outcome is a disjunct of the action      *)
(* that precedes the loop.                                                 *)
(*                                                                         *)
(* The semaphore is kotlinx.coroutines.sync.Semaphore, modelled from how   *)
(* execute uses it: acquire takes a free permit at once or joins a FIFO    *)
(* queue; release hands the permit to the first waiter or frees it; a      *)
(* waiter that is cancelled leaves the queue, and one that is cancelled    *)
(* after the permit was handed to it, but before it ran, gives it back.    *)
(***************************************************************************)
EXTENDS Integers, FiniteSets, SequencesExt

CONSTANTS
    Calls,               \* the invocations of execute
    MaxConcurrentCalls,  \* config.maxConcurrentCalls
    MaxWaitingCalls,     \* config.maxWaitingCalls
    TimedWait,           \* is config.maxWaitDuration non-null?
    ListenerErrors       \* may a listener throw an Error?

(* The require() calls of BulkheadConfig. *)
ASSUME ConfigAssumption ==
    /\ MaxConcurrentCalls \in Nat \ {0}
    /\ MaxWaitingCalls \in Nat
    /\ TimedWait \in BOOLEAN
    /\ ListenerErrors \in BOOLEAN

VARIABLES
    pc,              \* pc[c]: where call c is in execute
    permits,         \* semaphore: free permits
    queue,           \* semaphore: calls suspended in acquire, first to resume first
    activeCalls,     \* activeCallsVar
    waitingCalls,    \* waitingCallsVar
    totalCalls,      \* totalCallsVar
    successfulCalls, \* successfulCallsVar
    failedCalls,     \* failedCallsVar
    rejectedCalls,   \* rejectedCallsVar
    carried,         \* history: calls whose block was running at the last reset
    twice            \* history: calls counted as failed since then that had been
                     \* counted as succeeded, before or after that reset

semaphore == <<permits, queue>>
gauges    == <<activeCalls, waitingCalls>>
counters  == <<totalCalls, successfulCalls, failedCalls, rejectedCalls,
               carried, twice>>
vars      == <<pc, semaphore, gauges, counters>>

-----------------------------------------------------------------------------
(* The places of execute, grouped by what a call owns there. *)

\* Calls counted in waitingCalls that still have their decrement ahead of them.
Waiting == {"entered", "queued", "resumed", "held", "expired", "expiredHolding"}

\* Calls cancelled while waiting: no code decrements waitingCalls for them.
WaitLeaked == {"cancelled", "cancelledHolding"}

\* Calls the semaphore counts as owners of a permit; for those in the
\* second set no code is left that would release it.
Owning       == {"resumed", "held", "expiredHolding", "running",
                 "erred", "settled", "leaving"}
PermitLeaked == {"timedOutHolding", "cancelledHolding", "strayed"}

\* Calls counted in activeCalls.
Active == {"running", "erred", "settled", "strayed"}

\* Calls that have ended, by normal return or by an exception.
Ended == {"full", "timedOut", "timedOutHolding", "cancelled",
          "cancelledHolding", "strayed", "done"}

Places == {"start", "refused", "leaving"} \cup Waiting \cup Active \cup Ended

At(places) == {c \in Calls : pc[c] \in places}

Goto(c, from, to) ==
    /\ pc[c] = from
    /\ pc' = [pc EXCEPT ![c] = to]

Init ==
    /\ pc = [c \in Calls |-> "start"]
    /\ permits = MaxConcurrentCalls
    /\ queue = <<>>
    /\ activeCalls = 0
    /\ waitingCalls = 0
    /\ totalCalls = 0
    /\ successfulCalls = 0
    /\ failedCalls = 0
    /\ rejectedCalls = 0
    /\ carried = {}
    /\ twice = {}

-----------------------------------------------------------------------------
(* Admission *)

\* Faulty: free capacity is not looked at.
CanAccept_WaitingOnly == waitingCalls < MaxWaitingCalls

CanAccept ==
    \/ activeCalls < MaxConcurrentCalls
    \/ waitingCalls < MaxWaitingCalls

Admit(c) ==
    /\ CanAccept
    /\ Goto(c, "start", "entered")
    /\ waitingCalls' = waitingCalls + 1
    /\ UNCHANGED <<semaphore, activeCalls, counters>>

Refuse(c) ==
    /\ ~CanAccept
    /\ Goto(c, "start", "refused")
    /\ UNCHANGED <<semaphore, gauges, counters>>

\* The second transaction of a refused call; BulkheadFullException follows.
CountRefusal(c) ==
    /\ Goto(c, "refused", "full")
    /\ totalCalls' = totalCalls + 1
    /\ rejectedCalls' = rejectedCalls + 1
    /\ UNCHANGED <<semaphore, gauges, successfulCalls, failedCalls, carried, twice>>

-----------------------------------------------------------------------------
(* The semaphore *)

\* semaphore.release(): the permit goes to the first waiter, or becomes free.
\* With it moves the waiter, from "queued" to "resumed": Handed is pc after
\* that move, for a releasing call that goes on to place to.
Handed(c, to) ==
    IF queue = <<>>
    THEN [pc EXCEPT ![c] = to]
    ELSE [pc EXCEPT ![c] = to, ![Head(queue)] = "resumed"]

ReleasePermit ==
    /\ permits' = IF queue = <<>> THEN permits + 1 ELSE permits
    /\ queue' = IF queue = <<>> THEN queue ELSE Tail(queue)

Acquire(c) ==
    /\ permits > 0
    /\ Goto(c, "entered", "held")
    /\ permits' = permits - 1
    /\ UNCHANGED <<queue, gauges, counters>>

Enqueue(c) ==
    /\ permits = 0
    /\ Goto(c, "entered", "queued")
    /\ queue' = Append(queue, c)
    /\ UNCHANGED <<permits, gauges, counters>>

Resume(c) ==
    /\ Goto(c, "resumed", "held")
    /\ UNCHANGED <<semaphore, gauges, counters>>

\* A suspended acquire ends without a permit: its timer fired, or its
\* coroutine was cancelled.
LeaveQueue(c, to) ==
    /\ Goto(c, "queued", to)
    /\ \E i \in DOMAIN queue : queue[i] = c /\ queue' = RemoveAt(queue, i)
    /\ UNCHANGED <<permits, gauges, counters>>

\* The same, after release had handed c a permit but before c ran: the
\* semaphore takes the permit back.
GiveBack(c, to) ==
    /\ pc[c] = "resumed"
    /\ pc' = Handed(c, to)
    /\ ReleasePermit
    /\ UNCHANGED <<gauges, counters>>

-----------------------------------------------------------------------------
(* Timeout and cancellation while waiting *)

\* withTimeoutOrNull fires.  After acquire has returned the timer can still
\* fire before the timed block ends: the result is null all the same, and
\* the permit is nobody's.
Timeout(c) ==
    /\ TimedWait
    /\ \/ LeaveQueue(c, "expired")
       \/ GiveBack(c, "expired")
       \/ /\ Goto(c, "held", "expiredHolding")
          /\ UNCHANGED <<semaphore, gauges, counters>>

\* Faulty: the call goes on to its block instead of throwing.
CountTimeout_GoesOn(c) ==
    /\ Goto(c, "expired", "running")
    /\ waitingCalls' = waitingCalls - 1
    /\ activeCalls' = activeCalls + 1
    /\ totalCalls' = totalCalls + 1
    /\ UNCHANGED <<semaphore, successfulCalls, failedCalls, rejectedCalls, carried, twice>>

\* Faulty: the permit that was not acquired is released.
CountTimeout_Releases(c) ==
    /\ pc[c] = "expired"
    /\ pc' = Handed(c, "timedOut")
    /\ ReleasePermit
    /\ waitingCalls' = waitingCalls - 1
    /\ totalCalls' = totalCalls + 1
    /\ rejectedCalls' = rejectedCalls + 1
    /\ UNCHANGED <<activeCalls, successfulCalls, failedCalls, carried, twice>>

\* Faulty: the wrong gauge is decremented.
CountTimeout_WrongGauge(c) ==
    /\ Goto(c, "expired", "timedOut")
    /\ activeCalls' = activeCalls - 1
    /\ totalCalls' = totalCalls + 1
    /\ rejectedCalls' = rejectedCalls + 1
    /\ UNCHANGED <<semaphore, waitingCalls, successfulCalls, failedCalls, carried, twice>>

\* Faulty: the call stays counted as waiting.
CountTimeout_KeepsWaiting(c) ==
    /\ Goto(c, "expired", "timedOut")
    /\ totalCalls' = totalCalls + 1
    /\ rejectedCalls' = rejectedCalls + 1
    /\ UNCHANGED <<semaphore, gauges, successfulCalls, failedCalls, carried, twice>>

\* The transaction of the branch "if (!acquired)"; BulkheadTimeoutException follows.
CountTimeout(c) ==
    /\ \/ Goto(c, "expired", "timedOut")
       \/ Goto(c, "expiredHolding", "timedOutHolding")
    /\ waitingCalls' = waitingCalls - 1
    /\ totalCalls' = totalCalls + 1
    /\ rejectedCalls' = rejectedCalls + 1
    /\ UNCHANGED <<semaphore, activeCalls, successfulCalls, failedCalls, carried, twice>>

\* The caller is cancelled: CancellationException leaves execute, which has
\* no handler here.  An acquire that returned is past the last cancellation
\* point, except inside withTimeoutOrNull.
Cancel(c) ==
    \/ LeaveQueue(c, "cancelled")
    \/ GiveBack(c, "cancelled")
    \/ /\ TimedWait
       /\ Goto(c, "held", "cancelledHolding")
       /\ UNCHANGED <<semaphore, gauges, counters>>

-----------------------------------------------------------------------------
(* The protected block *)

\* Faulty: the call is counted when the block ends, not when it starts.
Enter_Uncounted(c) ==
    /\ Goto(c, "held", "running")
    /\ waitingCalls' = waitingCalls - 1
    /\ activeCalls' = activeCalls + 1
    /\ UNCHANGED <<semaphore, counters>>

\* From waiting to active, then the onCallEntered loop: an Error there
\* leaves execute before the try whose finally would undo this.
Enter(c) ==
    /\ \/ Goto(c, "held", "running")
       \/ ListenerErrors /\ Goto(c, "held", "strayed")
    /\ waitingCalls' = waitingCalls - 1
    /\ activeCalls' = activeCalls + 1
    /\ totalCalls' = totalCalls + 1
    /\ UNCHANGED <<semaphore, successfulCalls, failedCalls, rejectedCalls, carried, twice>>

\* The block returns, and is counted.  Then comes the onCallSucceeded loop: an
\* Error there goes on to catch (e: Throwable).
Succeed(c) ==
    /\ \/ Goto(c, "running", "settled")
       \/ ListenerErrors /\ Goto(c, "running", "erred")
    /\ successfulCalls' = successfulCalls + 1
    /\ UNCHANGED <<semaphore, gauges, totalCalls, failedCalls, rejectedCalls, carried, twice>>

\* The transaction of the catch clause, for such a call: it is counted once more.
CountError(c) ==
    /\ Goto(c, "erred", "settled")
    /\ failedCalls' = failedCalls + 1
    /\ twice' = twice \cup {c}
    /\ UNCHANGED <<semaphore, gauges, totalCalls, successfulCalls, rejectedCalls, carried>>

\* Faulty: a failure leaves execute without passing through finally.
Fail_NoFinally(c) ==
    /\ Goto(c, "running", "strayed")
    /\ failedCalls' = failedCalls + 1
    /\ UNCHANGED <<semaphore, gauges, totalCalls, successfulCalls, rejectedCalls, carried, twice>>

\* The block throws, or is cancelled.
Fail(c) ==
    /\ Goto(c, "running", "settled")
    /\ failedCalls' = failedCalls + 1
    /\ UNCHANGED <<semaphore, gauges, totalCalls, successfulCalls, rejectedCalls, carried, twice>>

\* finally, first part
Deactivate(c) ==
    /\ Goto(c, "settled", "leaving")
    /\ activeCalls' = IF activeCalls > 0 THEN activeCalls - 1 ELSE activeCalls
    /\ UNCHANGED <<semaphore, waitingCalls, counters>>

\* Faulty: the finally block forgets semaphore.release().
Release_Forgotten(c) ==
    /\ Goto(c, "leaving", "done")
    /\ UNCHANGED <<semaphore, gauges, counters>>

\* finally, second part, and the onCallExited loop
Release(c) ==
    /\ pc[c] = "leaving"
    /\ pc' = Handed(c, "done")
    /\ ReleasePermit
    /\ UNCHANGED <<gauges, counters>>

-----------------------------------------------------------------------------
(* Statistics *)

\* Counted in totalCalls, but not in successfulCalls or failedCalls: not yet,
\* or never for a call that an Error took past the try.
InFlight == At({"running", "strayed"})

ResetStatistics ==
    /\ totalCalls' = 0
    /\ successfulCalls' = 0
    /\ failedCalls' = 0
    /\ rejectedCalls' = 0
    /\ carried' = InFlight
    /\ twice' = {}
    /\ UNCHANGED <<pc, semaphore, gauges>>

\* BulkheadStatistics.availableCapacity
AvailableCapacity == MaxConcurrentCalls - activeCalls

-----------------------------------------------------------------------------
\* The steps execute takes by itself, the block's end included.
Progress(c) ==
    \/ Admit(c) \/ Refuse(c) \/ CountRefusal(c)
    \/ Acquire(c) \/ Enqueue(c) \/ Resume(c)
    \/ CountTimeout(c)
    \/ Enter(c) \/ Succeed(c) \/ CountError(c) \/ Fail(c)
    \/ Deactivate(c) \/ Release(c)

Next ==
    \/ \E c \in Calls : Progress(c) \/ Timeout(c) \/ Cancel(c)
    \/ ResetStatistics

Spec == Init /\ [][Next]_vars

\* A call that can take a step is not kept from it for ever: the dispatcher
\* runs every resumed coroutine, and a block, given the time, ends.
Fairness == \A c \in Calls : WF_vars(Progress(c))

FairSpec == Spec /\ Fairness

-----------------------------------------------------------------------------
(* Properties *)

TypeOK ==
    /\ pc \in [Calls -> Places]
    /\ permits \in 0 .. MaxConcurrentCalls
    /\ queue \in Seq(Calls)
    /\ activeCalls \in 0 .. MaxConcurrentCalls
    /\ waitingCalls \in Nat
    /\ totalCalls \in Nat
    /\ successfulCalls \in Nat
    /\ failedCalls \in Nat
    /\ rejectedCalls \in Nat
    /\ carried \subseteq Calls
    /\ twice \subseteq Calls

\* No more than maxConcurrentCalls blocks run at once, whatever calls time
\* out, are cancelled or lose their listeners' loop to an Error on the way.
ConcurrencyLimit == Cardinality(At({"running"})) <= MaxConcurrentCalls

\* Every permit is free, owned by a call that will release it, or lost by
\* one of the three leaks; and none is free while a call waits for it.
PermitAccounting ==
    /\ permits + Cardinality(At(Owning \cup PermitLeaked)) = MaxConcurrentCalls
    /\ queue # <<>> => permits = 0
    /\ IsInjective(queue)
    /\ ToSet(queue) = At({"queued"})

\* The two gauges count what they are read for: activeCalls the calls
\* between Enter and Deactivate (so that availableCapacity is
\* never negative), waitingCalls the calls between admission and Enter or the
\* timeout's transaction, plus one for ever for each call cancelled there.
GaugeAccounting ==
    /\ activeCalls = Cardinality(At(Active))
    /\ waitingCalls = Cardinality(At(Waiting \cup WaitLeaked))
    /\ AvailableCapacity >= 0

\* The counters agree with each other whenever they are read: every call
\* counted as started has ended one way or the other or is in flight,
\* corrected for the calls that a reset caught with their block running and
\* for those that an Error of a listener made a failure after their success was
\* counted, be that success among the counts or reset in between.
StatisticsBalance ==
    successfulCalls + failedCalls + rejectedCalls + Cardinality(InFlight \ carried)
        = totalCalls + Cardinality(carried \ InFlight) + Cardinality(twice)

\* A call is refused at admission only while every permit is taken: the
\* gauges are decremented before the permit goes back, never after.
RefusedOnlyWhenSaturated ==
    [][\A c \in Calls : pc[c] = "start" /\ pc'[c] = "refused" => permits = 0]_vars

\* With no limit on the wait, releases reach the whole queue: every call comes to
\* an end, and leaves its permit behind it.
EveryCallEnds == <>[](At(Ended) = Calls /\ permits = MaxConcurrentCalls)

\* The bulkhead is a gate: at most maxConcurrentCalls blocks at a time, each
\* call's block at most once, and never the block of a call turned away.
phase == [c \in Calls |->
    CASE pc[c] = "running"                                 -> "running"
      [] pc[c] \in {"erred", "settled", "leaving", "done"} -> "finished"
      [] pc[c] \in Ended \ {"done"}                        -> "denied"
      [] OTHER                                             -> "outside"]

Gate == INSTANCE CallGate WITH Limit <- MaxConcurrentCalls
ImplementsGate == Gate!Spec

-----------------------------------------------------------------------------
(* What the documentation says of a bulkhead, and the code does not do *)

\* "Number of permits currently available" (of availableCapacity): whenever
\* no call is under way, the reported capacity is the semaphore's.
CapacityIsPermits ==
    At(Ended \cup {"start"}) = Calls => AvailableCapacity = permits
=============================================================================
