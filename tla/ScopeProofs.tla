----------------------------- MODULE ScopeProofs -----------------------------
(***************************************************************************)
(* Theorems about executeRace and executeAll, for any blocks.  Those about *)
(* executeAll rest on what is proved of its single calls in                *)
(* TimeLimiterProofs.                                                      *)
(***************************************************************************)
EXTENDS ExecuteAll, ExecuteRace, TimeLimiterProofs

-----------------------------------------------------------------------------
(* executeRace *)

\* Until something is selected or cancelled every block runs; what is selected is a
\* value; an exception is always the reason of a cancellation; and nothing changes
\* once there is a result.
RInv ==
    /\ block \in [Racers -> {"running", "value"} \cup Reasons]
    /\ selected \in Racers \cup {None}
    /\ reason \in Reasons
    /\ selected = None /\ reason = "none" => \A b \in Racers : block[b] = "running"
    /\ selected \in Racers => block[selected] = "value"
    /\ (\E b \in Racers : block[b] = "exception") => reason = "exception"
    /\ result # "pending" =>
        /\ \A b \in Racers : block[b] # "running"
        /\ result = IF reason = "none" THEN selected ELSE reason

LEMMA RInit == RaceInit => RInv
BY RaceAssumption DEF RaceInit, RInv, Reasons

LEMMA RNext == RInv /\ [RaceNext]_raceVars => RInv'
<1> SUFFICES ASSUME RInv, [RaceNext]_raceVars PROVE RInv'
  OBVIOUS
<1> USE RaceAssumption DEF RInv, Reasons
<1>1. ASSUME NEW b \in Racers, Returns(b) PROVE RInv'
  BY <1>1 DEF Returns, EndsAs
<1>2. ASSUME NEW b \in Racers, Fails(b) PROVE RInv'
  BY <1>2 DEF Fails, EndsAs
<1>3. ASSUME NEW b \in Racers, Strays(b) PROVE RInv'
  BY <1>3 DEF Strays, EndsAs
<1>4. ASSUME NEW b \in Racers, Stops(b) PROVE RInv'
  BY <1>4 DEF Stops, EndsAs
<1>5. CASE CancelRace
  BY <1>5 DEF CancelRace
<1>8. ASSUME NEW why \in {"timeout", "foreign"}, Timeout(why) PROVE RInv'
  BY <1>8 DEF Timeout
<1>6. CASE EndRace
  BY <1>6 DEF EndRace
<1>7. CASE UNCHANGED raceVars
  BY <1>7 DEF raceVars
<1> QED
  BY <1>1, <1>2, <1>3, <1>4, <1>5, <1>6, <1>7, <1>8 DEF RaceNext

\* No block outlives executeRace, and the value it returns is that of a block that
\* returned one while no other block failed.
THEOREM NoneRunsOnHolds == RaceSpec => []NoneRunsOn
<1>1. RInv => NoneRunsOn
  BY RaceAssumption DEF RInv, NoneRunsOn, Reasons
<1> QED
  BY <1>1, RInit, RNext, PTL DEF RaceSpec

-----------------------------------------------------------------------------
(* executeAll *)

\* The first results are there, and are answers.
Collected ==
    /\ awaited \in 0 .. Len(Blocks)
    /\ \A i \in 1 .. awaited :
        pc[Blocks[i]] = "done" /\ outcome[Blocks[i]] \in {"value", "null"}

\* A block's own timeout is null for it, and no other call's reaches it.
OwnTimeoutIsNull ==
    \A c \in Listed : op[c] = "executeOrNull" /\ outcome[c] \notin Call

AllInv ==
    /\ IInv
    /\ Balance
    /\ OwnTimeoutIsNull
    /\ Collected
    /\ NoneLeftBehind
    /\ scope \in {"open", "returned", "threw"}

LEMMA ListedCalls ==
    /\ Len(Blocks) \in Nat /\ DOMAIN Blocks = 1 .. Len(Blocks)
    /\ Listed \subseteq Call
    /\ \A i \in 1 .. Len(Blocks) : Blocks[i] \in Listed
    /\ \A c \in Listed : Outer[c] = {} /\ Inner(c) = {} /\ ~Busy(c)
<1>1. Len(Blocks) \in Nat /\ Blocks \in [1 .. Len(Blocks) -> Call]
  BY BlocksAssumption
<1> QED
  BY <1>1, BlocksAssumption DEF Listed, Busy

LEMMA InitAllInv == AllInit => AllInv
<1> SUFFICES ASSUME AllInit PROVE AllInv
  OBVIOUS
<1>1. IInv
  BY InitIInv DEF AllInit
<1>2. Balance
  BY InitBalance DEF AllInit
<1>3. OwnTimeoutIsNull
  BY ListedCalls, CallAssumption DEF AllInit, Init, OwnTimeoutIsNull, Plain
<1>4. Collected /\ NoneLeftBehind
  BY ListedCalls DEF AllInit, Collected, NoneLeftBehind
<1> QED
  BY <1>1, <1>2, <1>3, <1>4 DEF AllInit, AllInv

\* What is done stays done; it is enough for the results to stay as they are.
LEMMA DoneStays ==
    ASSUME AllInv, UNCHANGED scopeVars,
           \A c \in Listed : pc[c] = "done" => pc'[c] = "done" /\ outcome'[c] = outcome[c]
    PROVE  Collected' /\ NoneLeftBehind' /\ scope' \in {"open", "returned", "threw"}
<1>1. Collected'
  <2>1. awaited' = awaited /\ awaited \in 0 .. Len(Blocks) /\ Len(Blocks) \in Nat
    BY ListedCalls DEF AllInv, Collected, scopeVars
  <2>2. \A i \in 1 .. awaited : Blocks[i] \in Listed
    BY <2>1, ListedCalls
  <2> QED
    BY <2>1, <2>2 DEF AllInv, Collected
<1>2. NoneLeftBehind'
  BY DEF AllInv, NoneLeftBehind, AllEnded, scopeVars
<1> QED
  BY <1>1, <1>2 DEF AllInv, scopeVars

\* A step of one block's call, or of its coroutine before it begins, leaves the others
\* alone, and what is done takes none.
LEMMA OneCallMoves ==
    ASSUME AllInv, NEW c \in Listed,
           \/ Begin(c) \/ Enter(c) \/ Settle(c) \/ Leave(c) \/ Timer(c) \/ TimeOutAtOnce(c)
           \/ Dispatch(c)
    PROVE  /\ pc[c] # "done" /\ op' = op
           /\ \A d \in Call \ {c} : pc'[d] = pc[d] /\ outcome'[d] = outcome[d]
<1>1. /\ c \in Call /\ Inner(c) = {} /\ Outer[c] = {} /\ Listed \subseteq Call
      /\ pc \in [Call -> Places] /\ outcome \in [Call -> Ends]
  BY ListedCalls DEF AllInv, IInv, TypeOK
<1>2. CASE Begin(c)
  BY <1>1, <1>2 DEF Begin, Callable
<1>3. CASE Enter(c)
  BY <1>1, <1>3 DEF Enter
<1>4. CASE Settle(c)
  BY <1>1, <1>4 DEF Settle, Finish
<1>5. CASE Leave(c)
  BY <1>1, <1>5 DEF Leave
<1>6. CASE Timer(c)
  BY <1>1, <1>6 DEF Timer
<1>7. CASE TimeOutAtOnce(c)
  BY <1>1, <1>7 DEF TimeOutAtOnce
<1>8. CASE Dispatch(c)
  <2>1. CASE pc[c] = "idle" /\ Finish(c, context[c]) /\ op' = op
    BY <1>1, <2>1 DEF Finish
  <2> QED
    BY <1>2, <1>8, <2>1 DEF Dispatch
<1> QED
  BY <1>2, <1>3, <1>4, <1>5, <1>6, <1>7, <1>8

\* A step of one block's call is a step of TimeLimiter.
LEMMA CallStep ==
    ASSUME AllInv, NEW c \in Listed, UNCHANGED scopeVars,
           Begin(c) \/ Enter(c) \/ Settle(c) \/ Leave(c) \/ Timer(c) \/ TimeOutAtOnce(c)
    PROVE  AllInv'
<1>1. /\ c \in Call /\ Inner(c) = {} /\ Outer[c] = {} /\ Listed \subseteq Call
      /\ pc \in [Call -> Places] /\ outcome \in [Call -> Ends]
  BY ListedCalls DEF AllInv, IInv, TypeOK
<1>2. Next
  BY <1>1 DEF Next, Step
<1>3. IInv' /\ Balance'
  BY <1>2, NextIInv, NextBalance DEF AllInv, IInv
<1>4. /\ pc[c] # "done" /\ op' = op
      /\ \A d \in Call \ {c} : pc'[d] = pc[d] /\ outcome'[d] = outcome[d]
  BY OneCallMoves
<1>5. outcome'[c] \notin Call
  <2>1. outcome[c] \notin Call /\ op[c] = "executeOrNull"
    BY DEF AllInv, OwnTimeoutIsNull
  <2>2. CASE ~Settle(c)
    BY <1>1, <2>1, <2>2 DEF Begin, Enter, Leave, Timer, TimeOutAtOnce
  <2>3. CASE Settle(c)
    <3>1. \/ outcome' = outcome
          \/ \E x \in {"error", Answer(c, thrown[c])} : outcome' = [outcome EXCEPT ![c] = x]
      BY <1>1, <2>3, Settled DEF AllInv, IInv
    <3>2. thrown[c] \in Call => thrown[c] = c
      BY <1>1 DEF AllInv, IInv, Links
    <3>3. Answer(c, thrown[c]) \in {"null", thrown[c]} /\ Answer(c, c) = "null"
      BY <2>1 DEF Answer, OrNull
    <3>4. Answer(c, thrown[c]) \notin Call /\ "error" \notin Call
      BY <3>2, <3>3, CallAssumption DEF Plain
    <3> QED
      BY <1>1, <2>1, <3>1, <3>4
  <2> QED
    BY <2>2, <2>3
<1>6. OwnTimeoutIsNull'
  BY <1>1, <1>4, <1>5 DEF AllInv, OwnTimeoutIsNull
<1>7. Collected' /\ NoneLeftBehind' /\ scope' \in {"open", "returned", "threw"}
  BY <1>1, <1>4, DoneStays
<1> QED
  BY <1>3, <1>6, <1>7 DEF AllInv

\* A coroutine that is cancelled before it begins.
LEMMA NeverBegun ==
    ASSUME AllInv, NEW c \in Listed, pc[c] = "idle", context[c] # "none",
           Finish(c, context[c]), UNCHANGED scopeVars,
           UNCHANGED <<op, cause, second, thrown, context, counters, history>>
    PROVE  AllInv'
<1>1. /\ c \in Call /\ Listed \subseteq Call /\ Outer[c] = {} /\ ~Busy(c)
      /\ pc \in [Call -> Places] /\ outcome \in [Call -> Ends] /\ TypeOK
  BY ListedCalls DEF AllInv, IInv, TypeOK
<1>2. context[c] \in {"cancelled", "foreign"} /\ context[c] \notin Call
  BY <1>1, CallAssumption DEF AllInv, IInv, Links, Plain
<1>3. /\ pc' = [pc EXCEPT ![c] = "done"] /\ outcome' = [outcome EXCEPT ![c] = context[c]]
      /\ UNCHANGED <<retries, op, cause, second, thrown, context>>
      /\ UNCHANGED <<counters, history>>
  BY DEF Finish
<1>4. TypeOK'
  <2>1. Enclosed'
    BY <1>1, <1>3, MoveKeepsEnclosed
  <2>2. pc' \in [Call -> Places] /\ outcome' \in [Call -> Ends]
    BY <1>1, <1>2, <1>3 DEF Places, Ends, Plain
  <2>3. since' \subseteq {d \in Call : pc'[d] \in Attempt}
    BY <1>1, <1>3 DEF TypeOK, Attempt, history
  <2> QED
    BY <1>1, <1>3, <2>1, <2>2, <2>3 DEF TypeOK, Enclosed, UnderWay, counters, history
<1>5. Links' /\ Fired' /\ LeftCancelled' /\ CancelledCallsThrow'
  <2>1. Links'
    BY <1>1, <1>2, <1>3 DEF AllInv, IInv, Links
  <2>2. Fired'
    BY <1>1, <1>3 DEF AllInv, IInv, Fired
  <2>3. LeftCancelled' /\ CancelledCallsThrow'
    BY <1>1, <1>2, <1>3 DEF AllInv, IInv, LeftCancelled, CancelledCallsThrow, Decides
  <2> QED
    BY <2>1, <2>2, <2>3
<1>6. Balance'
  BY <1>3 DEF AllInv, Balance, StatisticsBalance, counters, history
<1>7. OwnTimeoutIsNull'
  BY <1>1, <1>2, <1>3 DEF AllInv, OwnTimeoutIsNull
<1>8. Collected' /\ NoneLeftBehind' /\ scope' \in {"open", "returned", "threw"}
  BY <1>1, <1>3, DoneStays
<1> QED
  BY <1>4, <1>5, <1>6, <1>7, <1>8 DEF AllInv, IInv

\* The scope is cancelled.
LEMMA ScopeCancelled ==
    ASSUME AllInv, NEW e \in {"exception", "error", "cancelled", "foreign"}, CancelScope(e)
    PROVE  AllInv'
<1>1. PICK why \in {"cancelled", "foreign"} :
        /\ context' = [c \in Call |->
                IF c \in Listed /\ context[c] = "none" /\ pc[c] # "done"
                THEN why ELSE context[c]]
        /\ Cancel({c \in Listed : context[c] = "none" /\ pc[c] = "block"}, why)
  BY DEF CancelScope
<1>2. /\ UNCHANGED <<pc, op, retries, thrown, outcome, counters, history>>
      /\ awaited' = awaited /\ scope' = scope
  BY DEF CancelScope
<1>3. why \notin Call /\ "none" \notin Timeouts /\ "none" \notin Call
  BY CallAssumption DEF Plain, Timeouts
<1>c. \A d \in Call :
        /\ cause'[d] = cause[d] \/ (cause[d] = "none" /\ pc[d] = "block" /\ cause'[d] = why)
        /\ second'[d] = second[d]
            \/ (cause[d] \in Timeouts /\ pc[d] = "block" /\ second'[d] = why)
  BY <1>1 DEF Cancel
<1>4. TypeOK'
  <2>1. {cause, second}' \subseteq [Call -> Causes]
    BY <1>1, CancelType DEF AllInv, IInv, Causes, Timeouts
  <2> QED
    BY <1>1, <1>2, <2>1 DEF AllInv, IInv, TypeOK, Causes, Timeouts, UnderWay, counters, history
<1>5. Links'
  <2>1. ASSUME NEW d \in Call
        PROVE  /\ cause'[d] \in Call => cause'[d] \in {d} \cup Outer[d]
               /\ second'[d] \in Call => second'[d] \in {d} \cup Outer[d]
               /\ second'[d] # "none" => cause'[d] \in Timeouts
    BY <1>3, <1>c DEF AllInv, IInv, Links
  <2>2. context' \in [Call -> {"none", "cancelled", "foreign"}]
    BY <1>1 DEF AllInv, IInv, Links
  <2> QED
    BY <1>2, <2>1, <2>2 DEF AllInv, IInv, Links
<1>6. Fired'
  <2>1. \A d \in Call : cause[d] = d => cause'[d] = d
    BY <1>3, <1>c
  <2>2. \A d \in Call : \A k \in Call : k \in {cause'[d], second'[d]} => k \in {cause[d], second[d]}
    BY <1>3, <1>c
  <2> QED
    BY <1>2, <2>1, <2>2, OuterTransitive DEF AllInv, IInv, Fired
<1>7. LeftCancelled' /\ CancelledCallsThrow'
  <2>1. \A d \in Call : pc[d] # "block" => cause'[d] = cause[d] /\ Decides(d)' = Decides(d)
    BY <1>c DEF Decides
  <2> QED
    BY <1>2, <2>1 DEF AllInv, IInv, LeftCancelled, CancelledCallsThrow
<1>8. Balance' /\ OwnTimeoutIsNull' /\ Collected' /\ NoneLeftBehind'
  BY <1>2 DEF AllInv, Balance, StatisticsBalance, OwnTimeoutIsNull, Collected, NoneLeftBehind,
              AllEnded, counters, history
<1> QED
  BY <1>2, <1>4, <1>5, <1>6, <1>7, <1>8 DEF AllInv, IInv

\* TimeLimiter's variables stay as they are.
LEMMA CallsStay == AllInv /\ UNCHANGED vars => IInv' /\ Balance' /\ OwnTimeoutIsNull'
<1> SUFFICES ASSUME AllInv, UNCHANGED vars PROVE IInv' /\ Balance' /\ OwnTimeoutIsNull'
  OBVIOUS
<1>1. IInv' /\ Balance'
  BY NextIInv, NextBalance DEF AllInv, IInv
<1> QED
  BY <1>1 DEF AllInv, OwnTimeoutIsNull, vars, control

LEMMA NextAllInv == AllInv /\ [AllNext]_allVars => AllInv'
<1> SUFFICES ASSUME AllInv, [AllNext]_allVars PROVE AllInv'
  OBVIOUS
<1>1. ASSUME NEW c \in Listed, Dispatch(c) PROVE AllInv'
  BY <1>1, CallStep, NeverBegun DEF Dispatch
<1>2. ASSUME NEW c \in Listed, Run(c) \/ RunBlock(c) PROVE AllInv'
  BY <1>2, CallStep DEF Run, RunBlock
<1>3. ASSUME NEW c \in Listed, Propagate(c) PROVE AllInv'
  BY <1>3, ScopeCancelled DEF Propagate
<1>4. CASE Await
  <2> DEFINE b == Blocks[awaited + 1]
  <2>1. /\ awaited \in 0 .. Len(Blocks) /\ awaited < Len(Blocks) /\ Len(Blocks) \in Nat
        /\ b \in Listed /\ scope = "open"
    BY <1>4, ListedCalls DEF Await, AllInv, Collected
  <2>2. CASE CancelScope(outcome[b]) /\ outcome[b] \in Timeouts \cup {"cancelled"}
    <3>1. outcome[b] \in {"cancelled", "foreign"}
      BY <2>1, <2>2 DEF AllInv, OwnTimeoutIsNull, Timeouts
    <3> QED
      BY <2>2, <3>1, ScopeCancelled
  <2>3. CASE /\ outcome[b] \in {"value", "null"} /\ pc[b] = "done"
             /\ awaited' = awaited + 1 /\ UNCHANGED <<vars, failure, scope>>
    <3>1. IInv' /\ Balance' /\ OwnTimeoutIsNull'
      BY <2>3, CallsStay
    <3>2. pc' = pc /\ outcome' = outcome
      BY <2>3 DEF vars, control
    <3>3. Collected'
      <4>1. \A i \in 1 .. awaited + 1 : i \in 1 .. awaited \/ i = awaited + 1
        BY <2>1
      <4> QED
        BY <2>1, <2>3, <3>2, <4>1 DEF AllInv, Collected
    <3>4. NoneLeftBehind'
      BY <2>1, <2>3 DEF NoneLeftBehind
    <3> QED
      BY <2>1, <2>3, <3>1, <3>3, <3>4 DEF AllInv
  <2> QED
    BY <1>4, <2>2, <2>3 DEF Await
<1>5. CASE EndScope
  <2>1. /\ IInv' /\ Balance' /\ OwnTimeoutIsNull'
        /\ pc' = pc /\ outcome' = outcome /\ awaited' = awaited
    BY <1>5, CallsStay DEF EndScope, vars, control
  <2>2. Collected'
    BY <2>1 DEF AllInv, Collected
  <2>3. CASE scope' = "returned" /\ awaited = Len(Blocks)
    <3>1. \A c \in Listed : \E i \in 1 .. awaited : c = Blocks[i]
      BY <2>3, ListedCalls DEF Listed
    <3>2. \A c \in Listed : pc[c] = "done" /\ outcome[c] \in {"value", "null"}
      BY <3>1 DEF AllInv, Collected
    <3> QED
      BY <2>1, <2>2, <2>3, <3>2 DEF AllInv, NoneLeftBehind, AllEnded
  <2>4. CASE scope' = "threw" /\ AllEnded
    BY <2>1, <2>2, <2>4 DEF AllInv, NoneLeftBehind, AllEnded
  <2> QED
    BY <1>5, <2>3, <2>4 DEF EndScope
<1>6. ASSUME NEW why \in {"cancelled", "foreign"}, InterruptAll(why) PROVE AllInv'
  BY <1>6, ScopeCancelled DEF InterruptAll
<1>7. CASE UNCHANGED allVars
  <2>1. UNCHANGED vars /\ UNCHANGED scopeVars
    BY <1>7 DEF allVars
  <2>2. pc' = pc /\ outcome' = outcome
    BY <2>1 DEF vars, control
  <2> QED
    BY <2>1, <2>2, CallsStay, DoneStays DEF AllInv
<1> QED
  BY <1>1, <1>2, <1>3, <1>4, <1>5, <1>6, <1>7 DEF AllNext, Coordinate

\* executeAll leaves no coroutine behind, whether it returns or throws, and returns
\* only with an answer of every block, in whatever order they end, time out, fail
\* or are cancelled.
THEOREM NoneLeftBehindHolds == AllSpec => []NoneLeftBehind
<1>1. AllInv => NoneLeftBehind
  BY DEF AllInv
<1> QED
  BY <1>1, InitAllInv, NextAllInv, PTL DEF AllSpec

\* What is promised of a single call holds of the calls of executeAll, whose scope
\* cancels them and may keep them from beginning: the statistics agree, and a
\* cancelled call returns no answer but the null of its own timeout.
THEOREM LimitsHoldInAll == AllSpec => [](TypeOK /\ StatisticsBalance /\ CancelledCallsThrow)
<1>1. AllInv => TypeOK /\ StatisticsBalance /\ CancelledCallsThrow
  BY DEF AllInv, IInv, Balance
<1> QED
  BY <1>1, InitAllInv, NextAllInv, PTL DEF AllSpec

\* A block of executeAll that runs out of time answers null; no await ever throws the
\* timeout of one block to the others.
THEOREM OwnTimeoutIsNullHolds == AllSpec => []OwnTimeoutIsNull
<1>1. AllInv => OwnTimeoutIsNull
  BY DEF AllInv
<1> QED
  BY <1>1, InitAllInv, NextAllInv, PTL DEF AllSpec

-----------------------------------------------------------------------------
(* Both are scopes *)

\* A block of the race that ends.
LEMMA RacerEnds ==
    ASSUME RInv, NEW b \in Racers, NEW how \in {"value"} \cup (Reasons \ {"none"}),
           EndsAs(b, how), result' = result
    PROVE  RaceScope!End(b)
<1>1. /\ block[b] = "running" /\ block' = [block EXCEPT ![b] = how] /\ how # "running"
      /\ block \in [Racers -> {"running", "value"} \cup Reasons]
  BY DEF EndsAs, RInv, Reasons
<1>2. result = "pending"
  BY <1>1 DEF RInv
<1>3. raceState = "open" /\ raceState' = raceState
  BY <1>2 DEF raceState
<1>4. raceJob[b] = "pending" /\ \A a \in Racers \ {b} : raceJob'[a] = raceJob[a]
  BY <1>1 DEF raceJob
<1>5. block'[b] = how
  BY <1>1
<1>6. raceJob'[b] \in {"answered", "failed", "stopped"}
  BY <1>1, <1>5 DEF raceJob
<1>7. raceJob' = [raceJob EXCEPT ![b] = raceJob'[b]]
  <2>1. raceJob = [a \in Racers |-> raceJob[a]] /\ raceJob' = [a \in Racers |-> raceJob'[a]]
    BY DEF raceJob
  <2> QED
    BY <1>4, <2>1
<1> QED
  BY <1>3, <1>4, <1>6, <1>7 DEF RaceScope!End

LEMMA RaceNextInScope ==
    ASSUME RInv, [RaceNext]_raceVars
    PROVE  [RaceScope!Next]_<<raceJob, raceState>>
<1>1. ASSUME NEW b \in Racers, Returns(b) \/ Fails(b) \/ Strays(b) \/ Stops(b)
      PROVE  RaceScope!Next
  <2>1. RaceScope!End(b)
    BY <1>1, RacerEnds DEF Returns, Fails, Strays, Stops, Reasons
  <2> QED
    BY <2>1 DEF RaceScope!Next
<1>2. CASE EndRace
  <2>1. /\ result = "pending" /\ block' = block
        /\ result' = IF reason = "none" THEN selected ELSE reason
        /\ \A b \in Racers : block[b] # "running"
    BY <1>2 DEF EndRace
  <2>2. raceState = "open" /\ raceJob' = raceJob /\ RaceScope!AllEnded
    <3>1. raceState = "open"
      BY <2>1 DEF raceState
    <3>2. raceJob' = raceJob
      BY <2>1 DEF raceJob
    <3>3. RaceScope!AllEnded
      BY <2>1 DEF raceJob, RaceScope!AllEnded
    <3> QED
      BY <3>1, <3>2, <3>3
  <2>3. CASE reason = "none"
    <3>1. selected \in Racers /\ block[selected] = "value"
      BY <2>1, <2>3, RaceAssumption DEF RInv
    <3>2. \A b \in Racers : block[b] # "exception"
      BY <2>3 DEF RInv
    <3>3. raceState' = "returned"
      BY <2>1, <2>3, <3>1, RaceAssumption DEF raceState
    <3>4. selected \in RaceScope!Answered /\ RaceScope!Answered \subseteq Racers
      BY <3>1 DEF RaceScope!Answered, raceJob
    <3>5. RaceScope!Failed = {}
      BY <3>2 DEF RaceScope!Failed, raceJob
    <3> QED
      <4>1. RaceScope!Answered \in (SUBSET Racers) \ {{}}
        BY <3>4, Zenon
      <4> QED
        BY <2>2, <3>3, <3>5, <4>1 DEF RaceScope!Next, RaceScope!Return
  <2>4. CASE reason # "none"
    <3>1. result' \notin Racers /\ result' # "pending"
      BY <2>1, <2>4, RaceAssumption DEF RInv, Reasons
    <3>2. raceState' = "threw"
      BY <3>1 DEF raceState
    <3> QED
      BY <2>2, <3>2 DEF RaceScope!Next, RaceScope!Throw
  <2> QED
    BY <2>3, <2>4
<1>3. CASE (\E why \in {"timeout", "foreign"} : Timeout(why)) \/ CancelRace \/ UNCHANGED raceVars
  <2>1. block' = block /\ result' = result
    BY <1>3 DEF Timeout, CancelRace, raceVars
  <2>2. raceJob' = raceJob
    BY <2>1 DEF raceJob
  <2>3. raceState' = raceState
    BY <2>1 DEF raceState
  <2> QED
    BY <2>2, <2>3
<1> QED
  BY <1>1, <1>2, <1>3 DEF RaceNext

\* executeRace is a scope over its blocks: it ends when all of them have, not with the
\* first, and returns only when a block has answered and none has failed.
THEOREM RaceIsScope == RaceSpec => RaceImplementsScope
<1>1. RaceInit => RaceScope!Init
  <2> SUFFICES ASSUME RaceInit PROVE RaceScope!Init
    OBVIOUS
  <2>1. raceJob = [b \in Racers |-> "pending"]
    BY DEF RaceInit, raceJob
  <2>2. raceState = "open"
    BY DEF RaceInit, raceState
  <2> QED
    BY <2>1, <2>2 DEF RaceScope!Init, RaceScope!Pending
<1> QED
  BY <1>1, RInit, RNext, RaceNextInScope, PTL DEF RaceSpec, RaceImplementsScope, RaceScope!Spec

\* A step of one call ends its block, or is none of the scope's business.
LEMMA CallInScope ==
    ASSUME AllInv, NEW c \in Listed, pc[c] # "done", UNCHANGED scopeVars,
           \A d \in Call \ {c} : pc'[d] = pc[d] /\ outcome'[d] = outcome[d]
    PROVE  AllScope!End(c) \/ UNCHANGED <<allJob, scope>>
<1>1. Listed \subseteq Call
  BY ListedCalls
<1>2. scope = "open" /\ scope' = scope
  BY DEF AllInv, NoneLeftBehind, AllEnded, scopeVars
<1>3. allJob[c] = "pending" /\ \A d \in Listed \ {c} : allJob'[d] = allJob[d]
  BY <1>1 DEF allJob
<1>4. allJob = [d \in Listed |-> allJob[d]] /\ allJob' = [d \in Listed |-> allJob'[d]]
  BY DEF allJob
<1>5. allJob' = [allJob EXCEPT ![c] = allJob'[c]]
  BY <1>3, <1>4
<1>6. allJob'[c] \in {"pending", "answered", "failed", "stopped"}
  BY DEF allJob
<1>7. CASE allJob'[c] = "pending"
  <2>1. allJob' = allJob
    BY <1>3, <1>4, <1>7
  <2> QED
    BY <1>2, <2>1
<1>8. CASE allJob'[c] # "pending"
  BY <1>2, <1>3, <1>5, <1>6, <1>8 DEF AllScope!End
<1> QED
  BY <1>7, <1>8

LEMMA AllNextInScope ==
    ASSUME AllInv, AllInv', [AllNext]_allVars
    PROVE  [AllScope!Next]_<<allJob, scope>>
<1>1. ASSUME NEW c \in Listed, Dispatch(c) \/ Run(c) \/ RunBlock(c)
      PROVE  AllScope!Next \/ UNCHANGED <<allJob, scope>>
  <2>1. UNCHANGED scopeVars
    BY <1>1 DEF Dispatch, Run, RunBlock
  <2>2. pc[c] # "done" /\ \A d \in Call \ {c} : pc'[d] = pc[d] /\ outcome'[d] = outcome[d]
    BY <1>1, OneCallMoves DEF Dispatch, Run, RunBlock
  <2> QED
    BY <2>1, <2>2, CallInScope DEF AllScope!Next
<1>2. CASE EndScope
  <2>1. scope = "open" /\ pc' = pc /\ outcome' = outcome /\ scope' \in {"returned", "threw"}
    BY <1>2 DEF EndScope, vars, control
  <2>2. allJob' = allJob
    BY <2>1 DEF allJob
  <2>3. \A c \in Listed : pc[c] = "done"
    BY <2>1 DEF AllInv, NoneLeftBehind, AllEnded
  <2>4. AllScope!AllEnded
    BY <2>3 DEF AllScope!AllEnded, allJob
  <2>5. CASE scope' = "returned"
    <3>1. \A c \in Listed : outcome[c] \in {"value", "null"}
      BY <2>1, <2>5 DEF AllInv, NoneLeftBehind
    <3>0. {"value", "null"} \cap (Timeouts \cup {"cancelled"}) = {}
      BY CallAssumption DEF Timeouts, Plain
    <3>2. \A c \in Listed : allJob[c] = "answered"
      BY <2>3, <3>0, <3>1 DEF allJob
    <3>3. AllScope!Answered = Listed /\ AllScope!Failed = {}
      BY <3>2 DEF AllScope!Answered, AllScope!Failed
    <3> QED
      BY <2>1, <2>2, <2>4, <2>5, <3>3 DEF AllScope!Next, AllScope!Return
  <2>6. CASE scope' = "threw"
    BY <2>1, <2>2, <2>4, <2>6 DEF AllScope!Next, AllScope!Throw
  <2> QED
    BY <2>1, <2>5, <2>6
<1>3. ASSUME \/ \E e \in {"exception", "error", "cancelled", "foreign"} \cup Timeouts : CancelScope(e)
             \/ Await
             \/ UNCHANGED allVars
      PROVE  UNCHANGED <<allJob, scope>>
  <2>1. pc' = pc /\ outcome' = outcome /\ scope' = scope
    <3>1. ASSUME NEW e, CancelScope(e)
          PROVE  pc' = pc /\ outcome' = outcome /\ scope' = scope
      BY <3>1 DEF CancelScope
    <3>2. CASE Await
      BY <3>1, <3>2 DEF Await, vars, control
    <3>3. CASE UNCHANGED allVars
      BY <3>3 DEF allVars, vars, control, scopeVars
    <3> QED
      BY <1>3, <3>1, <3>2, <3>3
  <2> QED
    BY <2>1 DEF allJob
<1>4. ASSUME NEW c \in Listed, Propagate(c) PROVE UNCHANGED <<allJob, scope>>
  BY <1>3, <1>4 DEF Propagate
<1>5. ASSUME NEW why \in {"cancelled", "foreign"}, InterruptAll(why)
      PROVE  UNCHANGED <<allJob, scope>>
  BY <1>3, <1>5 DEF InterruptAll
<1> QED
  BY <1>1, <1>2, <1>3, <1>4, <1>5 DEF AllNext, Coordinate

\* executeAll is a scope over its blocks: it ends when all of them have, whichever of
\* them throws and whoever cancels it, and returns only if none was cancelled.
THEOREM AllIsScope == AllSpec => AllImplementsScope
<1>1. AllInit => AllScope!Init
  <2> SUFFICES ASSUME AllInit PROVE AllScope!Init
    OBVIOUS
  <2>1. allJob = [c \in Listed |-> "pending"]
    BY ListedCalls DEF AllInit, Init, allJob
  <2> QED
    BY <2>1 DEF AllInit, AllScope!Init, AllScope!Pending
<1> QED
  BY <1>1, InitAllInv, NextAllInv, AllNextInScope, PTL
  DEF AllSpec, AllImplementsScope, AllScope!Spec
=============================================================================
