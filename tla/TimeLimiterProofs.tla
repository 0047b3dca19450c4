-------------------------- MODULE TimeLimiterProofs --------------------------
(***************************************************************************)
(* Theorems about TimeLimiter, for any finite set of calls nested in any   *)
(* way, any operations and any number of retries.                          *)
(***************************************************************************)
EXTENDS TimeLimiter, FiniteSetTheorems, TLAPS

-----------------------------------------------------------------------------
(* The inductive invariant *)

\* A timeout that is known anywhere is one of the chain.
Links ==
    /\ context \in [Call -> {"none", "cancelled", "foreign"}]
    /\ \A c \in Call :
        /\ cause[c] \in Call => cause[c] \in {c} \cup Outer[c]
        /\ second[c] \in Call => second[c] \in {c} \cup Outer[c]
        /\ second[c] # "none" => cause[c] \in Timeouts
        /\ thrown[c] \in Call => thrown[c] \in {c} \cup Outer[c] \cup Inner(c)
        /\ outcome[c] \in Call => outcome[c] \in {c} \cup Outer[c] \cup Inner(c)

\* If the timeout of an enclosing call k has reached d, it was the timer of k that
\* cancelled the present run of its block.
Fired ==
    \A d \in Call : \A k \in Outer[d] :
        /\ pc[d] \notin {"idle", "counted"} /\ k \in {cause[d], second[d]} => cause[k] = k
        /\ pc[d] = "left" /\ thrown[d] = k => cause[k] = k
        /\ pc[d] = "done" /\ outcome[d] = k => cause[k] = k

\* What a cancelled block leaves withTimeout with.
LeftCancelled ==
    \A c \in Call :
        /\ pc[c] = "left" /\ Decides(c) \notin {"none", c}
            => thrown[c] \notin {"value", "null", c}
        /\ pc[c] = "left" /\ cause[c] = "cancelled" => thrown[c] \notin Timeouts
        /\ pc[c] = "fallback" => op[c] = "executeOrFallback"

IInv == TypeOK /\ Links /\ Fired /\ LeftCancelled /\ CancelledCallsThrow

-----------------------------------------------------------------------------
(* The nesting of calls *)

LEMMA NearestOuter ==
    ASSUME NEW c \in Call, Outer[c] # {}
    PROVE  /\ Nearest(c) \in Call
           /\ Nearest(c) \in Outer[c]
           /\ Outer[c] = Outer[Nearest(c)] \cup {Nearest(c)}
<1>1. \E d \in Outer[c] : Outer[c] = Outer[d] \cup {d}
  BY CallAssumption
<1>2. Nearest(c) \in Outer[c] /\ Outer[c] = Outer[Nearest(c)] \cup {Nearest(c)}
  BY <1>1 DEF Nearest
<1>3. Outer[c] \subseteq Call
  BY CallAssumption
<1> QED
  BY <1>2, <1>3

LEMMA InnerClosed ==
    ASSUME NEW c \in Call, NEW d \in Inner(c)
    PROVE  /\ d \in Call /\ c \in Outer[d]
           /\ Outer[c] \subseteq Outer[d]
           /\ d # c /\ d \notin Outer[c]
<1>1. d \in Call /\ c \in Outer[d]
  BY DEF Inner
<1>2. Outer[c] \subseteq Outer[d] /\ c \notin Outer[c] /\ d \notin Outer[d]
  BY <1>1, CallAssumption
<1> QED
  BY <1>1, <1>2

LEMMA OuterTransitive ==
    ASSUME NEW c \in Call, NEW d \in Outer[c]
    PROVE  d \in Call /\ d # c /\ Outer[d] \subseteq Outer[c] /\ c \notin Outer[d]
BY CallAssumption

LEMMA ContextType ==
    ASSUME TypeOK, NEW c \in Call
    PROVE  Context(c) \in Causes
BY NearestOuter DEF TypeOK, Context

-----------------------------------------------------------------------------
(* What a block leaves withTimeout with *)

LEMMA Left ==
    ASSUME TypeOK, NEW c \in Call, Leave(c)
    PROVE  \E y \in Ends :
            /\ thrown' = [thrown EXCEPT ![c] = y]
            /\ y \in Call => \/ y \in {cause[c], second[c]}
                             \/ \E d \in Own(c) : pc[d] = "done" /\ outcome[d] = y
            /\ cause[c] # "none" /\ Decides(c) \notin {"none", c}
                => y \notin {"value", "null"} /\ (y = c => second[c] = "none")
            /\ cause[c] = "cancelled" /\ second[c] = "none" => y \notin Timeouts
<1>0. PICK x \in BlockEnds(c) :
            \E y \in IF cause[c] = "none" THEN {x} ELSE AfterCancellation(c, x) :
                thrown' = [thrown EXCEPT ![c] = y]
  BY DEF Leave
<1>1. PICK y \in IF cause[c] = "none" THEN {x} ELSE AfterCancellation(c, x) :
            thrown' = [thrown EXCEPT ![c] = y]
  BY <1>0
<1>2. cause[c] \in Causes /\ second[c] \in Causes /\ (\A d \in Call : outcome[d] \in Ends)
  BY DEF TypeOK
<1>3. Call \cap Plain = {}
  BY CallAssumption
<1>4. x \in Ends
  BY <1>2 DEF BlockEnds, UserEnds, Ends, Own, Causes, Timeouts, Plain
<1>5. x \in Call => \/ x = cause[c]
                    \/ \E d \in Own(c) : pc[d] = "done" /\ outcome[d] = x
  BY <1>3 DEF BlockEnds, UserEnds
<1>6. CASE cause[c] = "none"
  BY <1>1, <1>4, <1>5, <1>6
<1>7. CASE cause[c] # "none"
  <2>1. y \in AfterCancellation(c, x)
    BY <1>1, <1>7
  <2>2. \/ x \in {"exception", "error"} /\ y = x
        \/ x \in Timeouts /\ cause[c] \in Timeouts /\ second[c] = "none" /\ y = x
        \/ Decides(c) = c /\ y = x
        \/ y = Decides(c)
    BY <2>1 DEF AfterCancellation, Final
  <2>3. Decides(c) \in Causes /\ Decides(c) \in {cause[c], second[c]}
    BY <1>2 DEF Decides
  <2>4. y \in Ends
    BY <2>2, <2>3, <1>4 DEF Ends, Causes, Timeouts, Plain
  <2>5. y \in Call => y \in {x, cause[c], second[c]}
    BY <2>2, <2>3
  <2>6. Decides(c) \notin {"none", c} =>
            y \notin {"value", "null"} /\ (y = c => second[c] = "none")
    BY <2>2, <2>3, <1>3 DEF Causes, Timeouts, Plain
  <2>7. cause[c] = "cancelled" /\ second[c] = "none" => y \notin Timeouts
    <3>1. "cancelled" \notin Timeouts /\ "cancelled" # c
          /\ {"exception", "error"} \cap Timeouts = {}
      BY <1>3 DEF Timeouts, Plain
    <3> QED
      BY <2>2, <3>1 DEF Decides
  <2> QED
    BY <1>1, <1>5, <2>4, <2>5, <2>6, <2>7
<1> QED
  BY <1>6, <1>7

\* What is settled: how the place of the call and its outcome change.
LEMMA Settled ==
    ASSUME TypeOK, NEW c \in Call, Settle(c)
    PROVE  /\ pc[c] = "left"
           /\ \E p \in {"retry", "fallback", "done"} : pc' = [pc EXCEPT ![c] = p]
           /\ thrown' = [thrown EXCEPT ![c] = "none"]
           /\ UNCHANGED <<op, cause, second, context>>
           /\ \/ /\ Retried(c, thrown[c]) /\ pc' = [pc EXCEPT ![c] = "retry"]
                 /\ retries' = [retries EXCEPT ![c] = @ - 1] /\ outcome' = outcome
              \/ /\ FellBack(c, thrown[c]) /\ pc' = [pc EXCEPT ![c] = "fallback"]
                 /\ UNCHANGED <<retries, outcome>>
              \/ /\ \E x \in {"error", Answer(c, thrown[c])} :
                        outcome' = [outcome EXCEPT ![c] = x]
                 /\ pc' = [pc EXCEPT ![c] = "done"] /\ retries' = retries
BY DEF Settle, Finish

-----------------------------------------------------------------------------
(* Types *)

\* The last conjunct of TypeOK, which needs the nesting.
Enclosed == \A c \in Call : UnderWay(c) => \A d \in Outer[c] : pc[d] = "block"

LEMMA InitType == Init => TypeOK
<1> SUFFICES ASSUME Init PROVE TypeOK
  OBVIOUS
<1> USE CallAssumption
<1>1. pc \in [Call -> Places] /\ op \in [Call -> Operations] /\ retries \in [Call -> 0 .. MaxRetries]
  BY DEF Init, Places
<1>2. /\ {cause, second} \subseteq [Call -> Causes] /\ thrown \in [Call -> Ends]
      /\ outcome \in [Call -> Ends] /\ context \in [Call -> Causes]
  BY DEF Init, Causes, Ends, Plain
<1>3. {totalCalls, successfulCalls, timedOutCalls, failedCalls, stale, lost} \subseteq Nat
  BY DEF Init
<1>4. since \subseteq {c \in Call : pc[c] \in Attempt}
  BY DEF Init
<1>5. \A c \in Call : UnderWay(c) => \A d \in Outer[c] : pc[d] = "block"
  BY DEF Init, UnderWay
<1> QED
  BY <1>1, <1>2, <1>3, <1>4, <1>5 DEF TypeOK

\* A step that moves c from a place of an attempt or a fallback, not the block,
\* to a place other than "idle" keeps everything enclosed.
LEMMA MoveKeepsEnclosed ==
    ASSUME TypeOK, NEW c \in Call, NEW p, pc' = [pc EXCEPT ![c] = p],
           UnderWay(c) \/ p \in {"idle", "done"}, ~Busy(c)
    PROVE  Enclosed'
<1> SUFFICES ASSUME NEW e \in Call, UnderWay(e)', NEW d \in Outer[e]
             PROVE  pc'[d] = "block"
  BY DEF Enclosed
<1>1. d \in Call /\ pc \in [Call -> Places]
  BY OuterTransitive DEF TypeOK
<1>2. UnderWay(e)
  BY <1>1 DEF UnderWay
<1>3. pc[d] = "block"
  BY <1>2 DEF TypeOK
<1>4. d # c
  BY <1>2 DEF Busy, Inner
<1> QED
  BY <1>1, <1>3, <1>4

LEMMA NotBusy ==
    ASSUME TypeOK, NEW c \in Call, pc[c] # "block"
    PROVE  ~Busy(c)
BY DEF Busy, Inner, TypeOK

LEMMA TypeBegin ==
    ASSUME TypeOK, NEW c \in Call, Begin(c)
    PROVE  TypeOK'
<1>1. pc' = [pc EXCEPT ![c] = "counted"] /\ pc[c] \in {"retry", "idle"}
  BY DEF Begin, Callable
<1>2. pc' \in [Call -> Places] /\ totalCalls' \in Nat
  BY <1>1 DEF Begin, TypeOK, Places
<1>3. since' \subseteq {d \in Call : pc'[d] \in Attempt}
  BY <1>1 DEF Begin, TypeOK, Attempt
<1>4. Enclosed'
  <2> SUFFICES ASSUME NEW e \in Call, UnderWay(e)', NEW d \in Outer[e]
               PROVE  pc'[d] = "block"
    BY DEF Enclosed
  <2>1. d \in Call /\ pc \in [Call -> Places]
    BY OuterTransitive DEF TypeOK
  <2>2. CASE UnderWay(e)
    <3>1. pc[d] = "block"
      BY <2>2 DEF TypeOK
    <3> QED
      BY <3>1, <1>1, <2>1
  <2>3. CASE ~UnderWay(e)
    <3>1. e = c /\ pc[c] = "idle"
      BY <1>1, <2>1, <2>3 DEF UnderWay
    <3>2. Outer[c] # {} /\ pc[Nearest(c)] = "block"
      BY <3>1 DEF Begin, Callable
    <3>3. /\ Nearest(c) \in Call
          /\ d = Nearest(c) \/ d \in Outer[Nearest(c)]
      BY <3>1, <3>2, NearestOuter
    <3>4. UnderWay(Nearest(c))
      BY <3>2 DEF UnderWay
    <3>5. pc[d] = "block"
      BY <3>2, <3>3, <3>4 DEF TypeOK
    <3> QED
      BY <3>5, <1>1, <2>1
  <2> QED
    BY <2>2, <2>3
<1> QED
  BY <1>2, <1>3, <1>4 DEF TypeOK, Begin, Enclosed, UnderWay

LEMMA TypeEnter ==
    ASSUME TypeOK, NEW c \in Call, Enter(c)
    PROVE  TypeOK'
<1>1. /\ pc[c] = "counted" /\ ~Busy(c)
      /\ pc' = [d \in Call |->
                  IF d = c THEN "block" ELSE IF d \in Inner(c) THEN "idle" ELSE pc[d]]
  BY NotBusy DEF Enter
<1>2. pc' \in [Call -> Places]
  BY <1>1 DEF TypeOK, Places
<1>3. since' \subseteq {d \in Call : pc'[d] \in Attempt}
  BY <1>1 DEF Enter, history, TypeOK, Attempt, Busy, UnderWay
<1>4. Enclosed'
  <2> SUFFICES ASSUME NEW e \in Call, UnderWay(e)', NEW d \in Outer[e]
               PROVE  pc'[d] = "block"
    BY DEF Enclosed
  <2>1. d \in Call /\ e \notin Inner(c) /\ UnderWay(e)
    <3>1. d \in Call
      BY OuterTransitive
    <3>2. e \notin Inner(c)
      BY <1>1, InnerClosed DEF UnderWay
    <3> QED
      BY <3>1, <3>2, <1>1 DEF UnderWay
  <2>2. pc[d] = "block"
    BY <2>1 DEF TypeOK
  <2>3. d \notin Inner(c)
    BY <2>1, <2>2, <1>1 DEF Busy, UnderWay
  <2> QED
    BY <1>1, <2>1, <2>2, <2>3
<1>5. {cause, second}' \subseteq [Call -> Causes] /\ outcome' \in [Call -> Ends]
  <2>1. "none" \in Causes
    BY DEF Causes
  <2> QED
    BY <2>1, ContextType DEF Enter, TypeOK, Ends, Plain
<1> QED
  BY <1>2, <1>3, <1>4, <1>5 DEF TypeOK, Enter, Enclosed, UnderWay, counters, history

LEMMA CancelType ==
    ASSUME TypeOK, NEW told, NEW why \in Causes, Cancel(told, why)
    PROVE  {cause, second}' \subseteq [Call -> Causes]
BY DEF TypeOK, Cancel

LEMMA TypeTimer ==
    ASSUME TypeOK, NEW c \in Call, Timer(c)
    PROVE  TypeOK'
<1>1. c \in Causes
  BY DEF Causes, Timeouts
<1>2. {cause, second}' \subseteq [Call -> Causes]
  <2>1. CASE Cancel(Told(c), c)
    BY <1>1, <2>1, CancelType
  <2>2. CASE second' = [second EXCEPT ![c] = c] /\ UNCHANGED cause
    BY <1>1, <2>2 DEF TypeOK
  <2> QED
    BY <2>1, <2>2 DEF Timer
<1> QED
  BY <1>2 DEF Timer, TypeOK, UnderWay, counters, history

LEMMA TypeSettle ==
    ASSUME TypeOK, NEW c \in Call, Settle(c)
    PROVE  TypeOK'
<1>1. pc[c] = "left" /\ UnderWay(c) /\ ~Busy(c)
  BY Settled, NotBusy DEF UnderWay
<1>2. PICK p \in {"retry", "fallback", "done"} : pc' = [pc EXCEPT ![c] = p]
  BY Settled
<1>3. pc' \in [Call -> Places]
  BY <1>2 DEF TypeOK, Places
<1>4. Enclosed'
  BY <1>1, <1>2, MoveKeepsEnclosed
<1>5. Count(c, thrown[c])
  BY DEF Settle
<1>6. since' \subseteq {d \in Call : pc'[d] \in Attempt}
  BY <1>2, <1>5 DEF Count, TypeOK
<1>7. {totalCalls, successfulCalls, timedOutCalls, failedCalls, stale, lost}' \subseteq Nat
  BY <1>5 DEF Count, One, TypeOK
<1>8. Answer(c, thrown[c]) \in Ends
  BY DEF Answer, TypeOK, Ends, Plain
<1>9. retries' \in [Call -> 0 .. MaxRetries]
  <2>1. retries[c] \in 0 .. MaxRetries /\ MaxRetries \in Nat
    BY CallAssumption DEF TypeOK
  <2>2. Retried(c, thrown[c]) => retries[c] - 1 \in 0 .. MaxRetries
    BY <2>1 DEF Retried
  <2> QED
    BY <2>2, Settled DEF TypeOK
<1>10. outcome' \in [Call -> Ends] /\ thrown' \in [Call -> Ends]
  BY <1>8, Settled DEF TypeOK, Ends, Plain
<1>11. UNCHANGED <<op, cause, second, context>>
  BY Settled
<1> QED
  BY <1>3, <1>4, <1>6, <1>7, <1>9, <1>10, <1>11 DEF TypeOK, Enclosed, UnderWay

LEMMA NextType == TypeOK /\ [Next]_vars => TypeOK'
<1> SUFFICES ASSUME TypeOK, [Next]_vars PROVE TypeOK'
  OBVIOUS
<1> USE DEF counters, history
<1>1. ASSUME NEW c \in Call, Begin(c) PROVE TypeOK'
  BY <1>1, TypeBegin
<1>2. ASSUME NEW c \in Call, Enter(c) PROVE TypeOK'
  BY <1>2, TypeEnter
<1>3. ASSUME NEW c \in Call, TimeOutAtOnce(c) PROVE TypeOK'
  <2>1. pc[c] = "counted" /\ UnderWay(c) /\ ~Busy(c) /\ pc' = [pc EXCEPT ![c] = "left"]
    BY <1>3, NotBusy DEF TimeOutAtOnce, UnderWay
  <2>2. Enclosed'
    BY <2>1, MoveKeepsEnclosed
  <2>3. pc' \in [Call -> Places] /\ since' \subseteq {d \in Call : pc'[d] \in Attempt}
    BY <1>3, <2>1 DEF TimeOutAtOnce, TypeOK, Places, Attempt
  <2>4. {cause, second}' \subseteq [Call -> Causes] /\ thrown' \in [Call -> Ends]
    BY <1>3 DEF TimeOutAtOnce, TypeOK, Causes, Ends, Timeouts
  <2> QED
    BY <1>3, <2>2, <2>3, <2>4 DEF TimeOutAtOnce, TypeOK, Enclosed, UnderWay
<1>4. ASSUME NEW c \in Call, Timer(c) PROVE TypeOK'
  BY <1>4, TypeTimer
<1>5. ASSUME NEW c \in Call, Leave(c) PROVE TypeOK'
  <2>1. pc[c] = "block" /\ UnderWay(c) /\ ~Busy(c) /\ pc' = [pc EXCEPT ![c] = "left"]
    BY <1>5 DEF Leave, UnderWay
  <2>2. Enclosed'
    BY <2>1, MoveKeepsEnclosed
  <2>3. pc' \in [Call -> Places] /\ since' \subseteq {d \in Call : pc'[d] \in Attempt}
    BY <1>5, <2>1 DEF Leave, TypeOK, Places, Attempt
  <2>4. thrown' \in [Call -> Ends]
    BY <1>5, Left DEF TypeOK
  <2> QED
    BY <1>5, <2>2, <2>3, <2>4 DEF Leave, TypeOK, Enclosed, UnderWay
<1>6. ASSUME NEW c \in Call, Settle(c) PROVE TypeOK'
  BY <1>6, TypeSettle
<1>7. ASSUME NEW c \in Call, EndFallback(c) PROVE TypeOK'
  <2>1. pc[c] = "fallback" /\ UnderWay(c) /\ ~Busy(c) /\ pc' = [pc EXCEPT ![c] = "done"]
    BY <1>7, NotBusy DEF EndFallback, Finish, UnderWay
  <2>2. Enclosed'
    BY <2>1, MoveKeepsEnclosed
  <2>3. pc' \in [Call -> Places] /\ since' \subseteq {d \in Call : pc'[d] \in Attempt}
    BY <1>7, <2>1 DEF EndFallback, TypeOK, Places, Attempt
  <2>4. outcome' \in [Call -> Ends]
    BY <1>7, ContextType DEF EndFallback, Finish, TypeOK, UserEnds, Ends, Causes, Plain
  <2> QED
    BY <1>7, <2>2, <2>3, <2>4 DEF EndFallback, Finish, TypeOK, Enclosed, UnderWay
<1>8. ASSUME NEW c \in Call, NEW why \in {"cancelled", "foreign"}, Interrupt(c, why) PROVE TypeOK'
  <2>1. {cause, second}' \subseteq [Call -> Causes]
    BY <1>8, CancelType DEF Interrupt, Causes, Timeouts
  <2> QED
    BY <1>8, <2>1 DEF Interrupt, TypeOK, UnderWay, Causes, Timeouts
<1>9. CASE ResetStatistics
  BY <1>9 DEF ResetStatistics, control, TypeOK, UnderWay
<1>10. CASE UNCHANGED vars
  BY <1>10 DEF vars, control, TypeOK, UnderWay
<1> QED
  BY <1>1, <1>2, <1>3, <1>4, <1>5, <1>6, <1>7, <1>8, <1>9, <1>10 DEF Next, Step

\* The state is well-typed in every behaviour, a call never makes more retries than it
\* was asked for, and no call outlives the block it was made in.
THEOREM TypeOKHolds == Spec => []TypeOK
<1>1. Init => TypeOK
  BY InitType
<1>2. TypeOK /\ [Next]_vars => TypeOK'
  BY NextType
<1> QED
  BY <1>1, <1>2, PTL DEF Spec

-----------------------------------------------------------------------------
(* The statistics *)

\* Only finitely many attempts are under way, however many calls there may be.
Balance == StatisticsBalance /\ IsFiniteSet(since)

LEMMA OneCounter ==
    ASSUME NEW c \in Call, NEW x
    PROVE  One(Succeeded(c, x)) + One(TimedOut(c, x)) + One(Failed(c, x))
            = One(x # "error")
<1>1. \A n \in {"value", "null", "error"} : n \notin Timeouts /\ n # c
  BY CallAssumption DEF Timeouts, Plain
<1>2. ~(Succeeded(c, x) /\ TimedOut(c, x))
  BY <1>1 DEF Succeeded, TimedOut
<1>3. x = "error" => ~Succeeded(c, x) /\ ~TimedOut(c, x) /\ ~Failed(c, x)
  BY <1>1 DEF Succeeded, TimedOut, Failed
<1>4. x # "error" => (Failed(c, x) <=> ~Succeeded(c, x) /\ ~TimedOut(c, x))
  BY DEF Failed
<1>5. CASE x = "error"
  BY <1>3, <1>5 DEF One
<1>6. CASE x # "error" /\ Succeeded(c, x)
  BY <1>2, <1>4, <1>6 DEF One
<1>7. CASE x # "error" /\ ~Succeeded(c, x) /\ TimedOut(c, x)
  BY <1>4, <1>7 DEF One
<1>8. CASE x # "error" /\ ~Succeeded(c, x) /\ ~TimedOut(c, x)
  BY <1>4, <1>8 DEF One
<1> QED
  BY <1>5, <1>6, <1>7, <1>8

LEMMA InitBalance == Init => Balance
  BY FS_EmptySet DEF Init, Balance, StatisticsBalance

LEMMA NextBalance == TypeOK /\ Balance /\ [Next]_vars => Balance'
<1> SUFFICES ASSUME TypeOK, Balance, [Next]_vars PROVE Balance'
  OBVIOUS
<1>t. /\ totalCalls \in Nat /\ successfulCalls \in Nat /\ timedOutCalls \in Nat
      /\ failedCalls \in Nat /\ stale \in Nat /\ lost \in Nat
  BY DEF TypeOK
<1>f. IsFiniteSet(since) /\ Cardinality(since) \in Nat
  BY FS_CardinalityType DEF Balance
<1>1. ASSUME NEW c \in Call, Begin(c) PROVE Balance'
  <2>1. c \notin since
    BY <1>1 DEF Begin, Callable, TypeOK, Attempt
  <2>2. IsFiniteSet(since') /\ Cardinality(since') = Cardinality(since) + 1
    BY <1>1, <2>1, <1>f, FS_AddElement DEF Begin
  <2> QED
    BY <1>1, <2>2, <1>t, <1>f DEF Begin, Balance, StatisticsBalance
<1>2. ASSUME NEW c \in Call, Settle(c) PROVE Balance'
  <2> DEFINE x == thrown[c]
  <2>1. Count(c, x)
    BY <1>2 DEF Settle
  <2>2. One(Succeeded(c, x)) + One(TimedOut(c, x)) + One(Failed(c, x)) = One(x # "error")
    BY OneCounter
  <2>3. /\ One(Succeeded(c, x)) \in Nat /\ One(TimedOut(c, x)) \in Nat
        /\ One(Failed(c, x)) \in Nat
    BY DEF One
  <2>4. /\ successfulCalls' + timedOutCalls' + failedCalls'
            = successfulCalls + timedOutCalls + failedCalls + One(x # "error")
        /\ successfulCalls' \in Nat /\ timedOutCalls' \in Nat /\ failedCalls' \in Nat
    BY <2>1, <2>2, <2>3, <1>t DEF Count
  <2>5. /\ totalCalls' = totalCalls /\ since' = since \ {c}
        /\ stale' = stale + One(c \notin since /\ x # "error")
        /\ lost' = lost + One(c \in since /\ x = "error")
    BY <2>1 DEF Count
  <2>6. CASE c \in since
    <3>1. IsFiniteSet(since') /\ Cardinality(since') = Cardinality(since) - 1
      BY <2>5, <2>6, <1>f, FS_RemoveElement
    <3>2. stale' = stale /\ lost' = lost + (1 - One(x # "error"))
      BY <2>5, <2>6, <1>t DEF One
    <3>3. One(x # "error") \in 0 .. 1
      BY DEF One
    <3> QED
      BY <3>1, <3>2, <3>3, <2>4, <2>5, <1>t, <1>f DEF Balance, StatisticsBalance
  <2>7. CASE c \notin since
    <3>1. since' = since
      BY <2>5, <2>7
    <3>2. lost' = lost /\ stale' = stale + One(x # "error")
      BY <2>5, <2>7, <1>t DEF One
    <3>3. One(x # "error") \in 0 .. 1
      BY DEF One
    <3> QED
      BY <3>1, <3>2, <3>3, <2>4, <2>5, <1>t, <1>f DEF Balance, StatisticsBalance
  <2> QED
    BY <2>6, <2>7
<1>3. CASE ResetStatistics
  BY <1>3, FS_EmptySet DEF ResetStatistics, Balance, StatisticsBalance
<1>4. CASE UNCHANGED <<counters, history>>
  BY <1>4 DEF counters, history, Balance, StatisticsBalance
<1>5. \/ \E c \in Call : Begin(c) \/ Settle(c)
      \/ ResetStatistics
      \/ UNCHANGED <<counters, history>>
  BY DEF Next, Step, vars, Enter, TimeOutAtOnce, Timer, Leave, EndFallback, Interrupt
<1> QED
  BY <1>1, <1>2, <1>3, <1>4, <1>5

\* Every attempt is counted once, as what happened to it, whatever calls, timers and
\* resets come between.
THEOREM StatisticsBalanceHolds == Spec => []StatisticsBalance
<1>1. Init => Balance
  BY InitBalance
<1>2. Init => TypeOK
  BY InitType
<1>3. TypeOK /\ [Next]_vars => TypeOK'
  BY NextType
<1>4. TypeOK /\ Balance /\ [Next]_vars => Balance'
  BY NextBalance
<1>5. Balance => StatisticsBalance
  BY DEF Balance
<1> QED
  BY <1>1, <1>2, <1>3, <1>4, <1>5, PTL DEF Spec

-----------------------------------------------------------------------------
(* The chain of calls *)

\* What the fallback or a new attempt of c meets in its caller's coroutine.
LEMMA ContextLink ==
    ASSUME Links, NEW c \in Call, Context(c) \in Call
    PROVE  Context(c) \in Outer[c]
<1>1. Outer[c] # {}
  BY CallAssumption DEF Context, Links, Plain
<1>2. Context(c) = cause[Nearest(c)] /\ Nearest(c) \in Call
  BY <1>1, NearestOuter DEF Context
<1>3. Context(c) \in {Nearest(c)} \cup Outer[Nearest(c)]
  BY <1>2 DEF Links
<1> QED
  BY <1>1, <1>3, NearestOuter

\* Who hears of a cancellation is the call itself or inside it.
LEMMA ToldInside ==
    ASSUME NEW c \in Call
    PROVE  /\ Told(c) \subseteq {c} \cup Inner(c)
           /\ \A d \in Told(c) : d \in Call /\ pc[d] = "block" /\ (d = c \/ c \in Outer[d])
BY DEF Told, Inner

\* What the causes are linked to.
CauseLink ==
    \A d \in Call :
        /\ cause[d] \in Call => cause[d] \in {d} \cup Outer[d]
        /\ second[d] \in Call => second[d] \in {d} \cup Outer[d]
        /\ second[d] # "none" => cause[d] \in Timeouts

LEMMA CancelLink ==
    ASSUME TypeOK, CauseLink, NEW c \in Call, NEW why, why = c \/ why \notin Call,
           Cancel(Told(c), why)
    PROVE  CauseLink'
<1> SUFFICES ASSUME NEW d \in Call
             PROVE  /\ cause'[d] \in Call => cause'[d] \in {d} \cup Outer[d]
                    /\ second'[d] \in Call => second'[d] \in {d} \cup Outer[d]
                    /\ second'[d] # "none" => cause'[d] \in Timeouts
  BY DEF CauseLink
<1>1. CASE d \notin Told(c)
  BY <1>1 DEF Cancel, CauseLink
<1>2. CASE d \in Told(c)
  <2>1. why \in Call => why \in {d} \cup Outer[d]
    BY <1>2, ToldInside
  <2>2. CASE cause[d] = "none"
    <3>1. "none" \notin Timeouts
      BY CallAssumption DEF Timeouts, Plain
    <3>2. second[d] = "none" /\ cause'[d] = why /\ second'[d] = "none" /\ "none" \notin Call
      BY <1>2, <2>2, <3>1 DEF Cancel, CauseLink, Timeouts
    <3> QED
      BY <2>1, <3>2
  <2>3. CASE cause[d] # "none"
    <3>1. cause'[d] = cause[d]
      BY <2>3 DEF Cancel
    <3>2. second'[d] = second[d] \/ (second'[d] = why /\ cause[d] \in Timeouts)
      BY DEF Cancel
    <3> QED
      BY <2>1, <3>1, <3>2 DEF CauseLink
  <2> QED
    BY <2>2, <2>3
<1> QED
  BY <1>1, <1>2

LEMMA NextLinks == TypeOK /\ Links /\ [Next]_vars => Links'
<1> SUFFICES ASSUME TypeOK, Links, [Next]_vars PROVE Links'
  OBVIOUS
<1> DEFINE Chain(d) == {d} \cup Outer[d] \cup Inner(d)
           ThrownLink == \A d \in Call : thrown[d] \in Call => thrown[d] \in Chain(d)
           OutcomeLink == \A d \in Call : outcome[d] \in Call => outcome[d] \in Chain(d)
           ContextPlain == context \in [Call -> {"none", "cancelled", "foreign"}]
<1>0. CauseLink /\ ThrownLink /\ OutcomeLink /\ ContextPlain
  BY DEF Links, CauseLink
<1>p. Call \cap Plain = {}
  BY CallAssumption
<1>t. /\ cause \in [Call -> Causes] /\ second \in [Call -> Causes]
      /\ thrown \in [Call -> Ends] /\ outcome \in [Call -> Ends]
  BY DEF TypeOK
<1>1. ASSUME NEW c \in Call, Enter(c) PROVE CauseLink' /\ ThrownLink' /\ OutcomeLink' /\ ContextPlain'
  <2>1. CauseLink'
    <3>1. cause'[c] = Context(c) /\ second'[c] = "none" /\ "none" \notin Call
      BY <1>1, <1>t, <1>p DEF Enter, Plain
    <3>2. \A d \in Call \ {c} : cause'[d] = cause[d] /\ second'[d] = second[d]
      BY <1>1, <1>t DEF Enter
    <3> QED
      BY <1>0, <3>1, <3>2, ContextLink DEF CauseLink
  <2>2. OutcomeLink'
    BY <1>1, <1>0, <1>t, <1>p DEF Enter, Plain
  <2> QED
    BY <1>1, <1>0, <2>1, <2>2 DEF Enter
<1>2. ASSUME NEW c \in Call, TimeOutAtOnce(c) PROVE CauseLink' /\ ThrownLink' /\ OutcomeLink' /\ ContextPlain'
  <2>1. cause'[c] = c /\ second'[c] = "none" /\ "none" \notin Call
    BY <1>2, <1>t, <1>p DEF TimeOutAtOnce, Plain
  <2>2. \A d \in Call \ {c} : cause'[d] = cause[d] /\ second'[d] = second[d]
    BY <1>2, <1>t DEF TimeOutAtOnce
  <2>3. CauseLink'
    BY <1>0, <2>1, <2>2 DEF CauseLink
  <2> QED
    BY <1>2, <1>0, <1>t, <2>3 DEF TimeOutAtOnce
<1>3. ASSUME NEW c \in Call, Timer(c) PROVE CauseLink' /\ ThrownLink' /\ OutcomeLink' /\ ContextPlain'
  <2>1. ASSUME Cancel(Told(c), c) PROVE CauseLink'
    BY <1>0, <2>1, CancelLink
  <2>2. ASSUME cause[c] \in Timeouts \ {c},
               second' = [second EXCEPT ![c] = c], UNCHANGED cause
        PROVE  CauseLink'
    BY <2>2, <1>0, <1>t DEF CauseLink
  <2>3. CauseLink'
    BY <1>3, <2>1, <2>2 DEF Timer
  <2> QED
    BY <1>3, <1>0, <2>3 DEF Timer
<1>4. ASSUME NEW c \in Call, NEW why \in {"cancelled", "foreign"}, Interrupt(c, why)
      PROVE  CauseLink' /\ ThrownLink' /\ OutcomeLink' /\ ContextPlain'
  <2>1. why \notin Call
    BY <1>p DEF Plain
  <2>2. CauseLink'
    BY <1>4, <1>0, <2>1, CancelLink DEF Interrupt
  <2> QED
    BY <1>4, <1>0, <2>2 DEF Interrupt
<1>5. ASSUME NEW c \in Call, Leave(c) PROVE CauseLink' /\ ThrownLink' /\ OutcomeLink' /\ ContextPlain'
  <2>1. PICK y \in Ends :
            /\ thrown' = [thrown EXCEPT ![c] = y]
            /\ y \in Call => \/ y \in {cause[c], second[c]}
                             \/ \E d \in Own(c) : pc[d] = "done" /\ outcome[d] = y
    BY <1>5, Left
  <2>2. ASSUME y \in Call, NEW d \in Own(c), outcome[d] = y PROVE y \in Chain(c)
    <3>1. d \in Inner(c) /\ d \in Call /\ Outer[d] = Outer[c] \cup {c}
      BY DEF Own, Inner
    <3>2. y \in Chain(d)
      BY <1>0, <2>2, <3>1
    <3>3. y \in Inner(d) => y \in Inner(c)
      BY <3>1, CallAssumption DEF Inner
    <3> QED
      BY <3>1, <3>2, <3>3
  <2>3. y \in Call => y \in Chain(c)
    BY <2>1, <2>2, <1>0 DEF CauseLink
  <2>4. ThrownLink'
    BY <2>1, <2>3, <1>0, <1>t
  <2>5. CauseLink'
    BY <1>5, <1>0 DEF Leave, CauseLink
  <2> QED
    BY <1>5, <1>0, <2>4, <2>5 DEF Leave
<1>6. ASSUME NEW c \in Call, Settle(c) PROVE CauseLink' /\ ThrownLink' /\ OutcomeLink' /\ ContextPlain'
  <2>1. thrown' = [thrown EXCEPT ![c] = "none"] /\ UNCHANGED <<op, cause, second, context>>
    BY <1>6, Settled
  <2>2. ThrownLink'
    BY <2>1, <1>0, <1>t, <1>p DEF Plain
  <2>3. \/ outcome' = outcome
        \/ \E x \in {"error", Answer(c, thrown[c])} : outcome' = [outcome EXCEPT ![c] = x]
    BY <1>6, Settled
  <2>4. Answer(c, thrown[c]) \in {"null", "value", thrown[c]}
    BY DEF Answer
  <2>5. OutcomeLink'
    BY <2>3, <2>4, <1>0, <1>t, <1>p DEF Plain
  <2> QED
    BY <1>0, <2>1, <2>2, <2>5 DEF CauseLink
<1>7. ASSUME NEW c \in Call, EndFallback(c) PROVE CauseLink' /\ ThrownLink' /\ OutcomeLink' /\ ContextPlain'
  <2>1. PICK x \in UserEnds \cup ({Context(c)} \ {"none"}) : outcome' = [outcome EXCEPT ![c] = x]
    BY <1>7 DEF EndFallback, Finish
  <2>2. x \in Call => x \in Outer[c]
    BY <1>p, ContextLink DEF UserEnds
  <2>3. OutcomeLink'
    BY <2>1, <2>2, <1>0, <1>t
  <2> QED
    BY <1>7, <1>0, <2>3 DEF EndFallback, CauseLink
<1>8. ASSUME UNCHANGED <<cause, second, thrown, outcome, context>>
      PROVE  CauseLink' /\ ThrownLink' /\ OutcomeLink' /\ ContextPlain'
  BY <1>8, <1>0 DEF CauseLink
<1>9. ASSUME NEW c \in Call, Begin(c) PROVE UNCHANGED <<cause, second, thrown, outcome, context>>
  BY <1>9 DEF Begin
<1>10. (ResetStatistics \/ UNCHANGED vars) => UNCHANGED <<cause, second, thrown, outcome, context>>
  BY DEF ResetStatistics, vars, control
<1> HIDE DEF Chain, ThrownLink, OutcomeLink, ContextPlain
<1>11. CauseLink' /\ ThrownLink' /\ OutcomeLink' /\ ContextPlain'
  BY <1>1, <1>2, <1>3, <1>4, <1>5, <1>6, <1>7, <1>8, <1>9, <1>10 DEF Next, Step
<1> QED
  BY <1>11 DEF Links, Chain, CauseLink, ThrownLink, OutcomeLink, ContextPlain

LEMMA InitLinks == Init => Links
BY CallAssumption DEF Init, Links, Plain

\* A timeout is seen only by the calls in the chain of the one whose timer fired.
THEOREM TimeoutStaysInChainHolds == Spec => []TimeoutStaysInChain
<1>1. Init => TypeOK /\ Links
  BY InitType, InitLinks
<1>2. TypeOK /\ Links /\ [Next]_vars => TypeOK' /\ Links'
  BY NextType, NextLinks
<1>3. Links => TimeoutStaysInChain
  BY DEF Links, TimeoutStaysInChain, End
<1> QED
  BY <1>1, <1>2, <1>3, PTL DEF Spec

-----------------------------------------------------------------------------
(* Timers that have fired *)

\* Once the timeout of an enclosing call k is what a call under way meets, k's timer
\* has fired.
LEMMA ContextFired ==
    ASSUME TypeOK, Fired, NEW c \in Call, pc[c] \notin {"idle", "done"},
           NEW k \in Outer[c], Context(c) = k
    PROVE  cause[k] = k
<1>1. Outer[c] # {} /\ Context(c) = cause[Nearest(c)]
  BY DEF Context
<1>2. /\ Nearest(c) \in Call /\ Nearest(c) \in Outer[c]
      /\ Outer[c] = Outer[Nearest(c)] \cup {Nearest(c)}
  BY <1>1, NearestOuter
<1>3. pc[Nearest(c)] = "block"
  BY <1>2 DEF TypeOK, UnderWay
<1>4. CASE k = Nearest(c)
  BY <1>1, <1>4
<1>5. CASE k \in Outer[Nearest(c)]
  BY <1>1, <1>2, <1>3, <1>5 DEF Fired
<1> QED
  BY <1>2, <1>4, <1>5

\* A step that keeps cause[k] = k for every k.
LEMMA CancelFired ==
    ASSUME TypeOK, Fired, NEW c \in Call, NEW why,
           (why = c /\ pc[c] = "block" /\ cause[c] = "none") \/ why \notin Call,
           Cancel(Told(c), why), UNCHANGED <<pc, thrown, outcome>>
    PROVE  Fired'
<1>p. Call \cap Plain = {}
  BY CallAssumption
<1>1. ASSUME NEW k \in Call, cause[k] = k PROVE cause'[k] = k
  BY <1>1, <1>p DEF Cancel, Plain
<1>2. why \in Call => cause'[why] = why
  BY DEF Cancel, Told
<1>3. ASSUME NEW d \in Call, NEW k \in Outer[d], k \in {cause'[d], second'[d]},
             pc[d] \notin {"idle", "counted"}
      PROVE  cause'[k] = k
  <2>1. k \in Call
    BY OuterTransitive
  <2>2. CASE k \in {cause[d], second[d]}
    BY <1>1, <1>3, <2>1, <2>2 DEF Fired
  <2>3. CASE k \notin {cause[d], second[d]}
    <3>1. k = why
      BY <1>3, <2>3 DEF Cancel
    <3> QED
      BY <2>1, <3>1, <1>2
  <2> QED
    BY <2>2, <2>3
<1> QED
  BY <1>1, <1>3, OuterTransitive DEF Fired

LEMMA NextFired == TypeOK /\ Fired /\ [Next]_vars => Fired'
<1> SUFFICES ASSUME TypeOK, Fired, [Next]_vars PROVE Fired'
  OBVIOUS
<1>p. Call \cap Plain = {}
  BY CallAssumption
<1>t. /\ cause \in [Call -> Causes] /\ second \in [Call -> Causes] /\ thrown \in [Call -> Ends]
      /\ outcome \in [Call -> Ends] /\ pc \in [Call -> Places]
  BY DEF TypeOK
<1>1. ASSUME NEW c \in Call, Begin(c) PROVE Fired'
  BY <1>1, <1>t DEF Begin, Fired
<1>2. ASSUME NEW c \in Call, Enter(c) PROVE Fired'
  <2> SUFFICES ASSUME NEW d \in Call, NEW k \in Outer[d]
               PROVE  /\ pc'[d] \notin {"idle", "counted"} /\ k \in {cause'[d], second'[d]}
                            => cause'[k] = k
                      /\ pc'[d] = "left" /\ thrown'[d] = k => cause'[k] = k
                      /\ pc'[d] = "done" /\ outcome'[d] = k => cause'[k] = k
    BY DEF Fired
  <2>1. k \in Call /\ k # d
    BY OuterTransitive
  <2>2. CASE d \in Inner(c)
    BY <1>2, <2>2, InnerClosed DEF Enter
  <2>3. CASE d = c
    <3>1. /\ pc'[c] = "block" /\ cause'[c] = Context(c) /\ cause'[k] = cause[k]
          /\ second'[c] = "none" /\ k # "none"
      BY <1>2, <2>1, <2>3, <1>t, <1>p DEF Enter, Plain
    <3>2. cause'[c] = k => cause[k] = k
      BY <1>2, <2>3, <3>1, ContextFired DEF Enter
    <3> QED
      BY <2>3, <3>1, <3>2
  <2>4. CASE d # c /\ d \notin Inner(c)
    <3>1. k # c
      BY <2>4 DEF Inner
    <3>2. /\ pc'[d] = pc[d] /\ cause'[d] = cause[d] /\ cause'[k] = cause[k]
          /\ second'[d] = second[d] /\ thrown' = thrown /\ outcome'[d] = outcome[d]
      BY <1>2, <2>1, <2>4, <3>1, <1>t DEF Enter
    <3> QED
      BY <3>2 DEF Fired
  <2> QED
    BY <2>2, <2>3, <2>4
<1>3. ASSUME NEW c \in Call, TimeOutAtOnce(c) PROVE Fired'
  <2>1. \A k \in Call : cause[k] = k => cause'[k] = k
    BY <1>3, <1>t DEF TimeOutAtOnce
  <2>2. \A d \in Call \ {c} : /\ cause'[d] = cause[d] /\ second'[d] = second[d]
                              /\ pc'[d] = pc[d] /\ thrown'[d] = thrown[d]
    BY <1>3, <1>t DEF TimeOutAtOnce
  <2>3. /\ cause'[c] = c /\ second'[c] = "none" /\ thrown'[c] = c
        /\ pc'[c] = "left" /\ outcome' = outcome
    BY <1>3, <1>t DEF TimeOutAtOnce
  <2>4. \A k \in Outer[c] : k \in Call /\ k \notin {c, "none"}
    BY <1>p, OuterTransitive DEF Plain
  <2> QED
    BY <2>1, <2>2, <2>3, <2>4, OuterTransitive DEF Fired
<1>4. ASSUME NEW c \in Call, Timer(c) PROVE Fired'
  <2>1. CASE cause[c] = "none" /\ Cancel(Told(c), c)
    BY <1>4, <2>1, CancelFired DEF Timer
  <2>2. CASE second' = [second EXCEPT ![c] = c] /\ UNCHANGED cause
    BY <1>4, <2>2, <1>t, OuterTransitive DEF Timer, Fired
  <2> QED
    BY <1>4, <2>1, <2>2 DEF Timer
<1>5. ASSUME NEW c \in Call, NEW why \in {"cancelled", "foreign"}, Interrupt(c, why) PROVE Fired'
  <2>1. why \notin Call
    BY <1>p DEF Plain
  <2> QED
    BY <1>5, <2>1, CancelFired DEF Interrupt
<1>6. ASSUME NEW c \in Call, Leave(c) PROVE Fired'
  <2>1. PICK y \in Ends :
            /\ thrown' = [thrown EXCEPT ![c] = y]
            /\ y \in Call => \/ y \in {cause[c], second[c]}
                             \/ \E d \in Own(c) : pc[d] = "done" /\ outcome[d] = y
    BY <1>6, Left
  <2>2. ASSUME NEW k \in Outer[c], y = k PROVE cause[k] = k
    <3>1. k \in Call
      BY OuterTransitive
    <3>2. CASE y \in {cause[c], second[c]}
      BY <1>6, <2>2, <3>2 DEF Fired, Leave
    <3>3. ASSUME NEW d \in Own(c), pc[d] = "done", outcome[d] = y PROVE cause[k] = k
      BY <2>2, <3>3 DEF Fired, Own
    <3> QED
      BY <2>1, <2>2, <3>1, <3>2, <3>3
  <2>3. /\ pc[c] = "block" /\ pc' = [pc EXCEPT ![c] = "left"]
        /\ cause' = cause /\ second' = second /\ outcome' = outcome
    BY <1>6 DEF Leave
  <2> QED
    BY <2>1, <2>2, <2>3, <1>t DEF Fired
<1>7. ASSUME NEW c \in Call, Settle(c) PROVE Fired'
  <2>1. /\ pc[c] = "left" /\ cause' = cause /\ second' = second
        /\ thrown' = [thrown EXCEPT ![c] = "none"]
        /\ \E p \in {"retry", "fallback", "done"} : pc' = [pc EXCEPT ![c] = p]
    BY <1>7, Settled
  <2>2. \/ outcome' = outcome /\ pc'[c] # "done"
        \/ \E x \in {"error", Answer(c, thrown[c])} : outcome' = [outcome EXCEPT ![c] = x]
    BY <1>7, Settled, <1>t
  <2>3. Answer(c, thrown[c]) \in {"null", "value", thrown[c]}
    BY DEF Answer
  <2>4. \A k \in Call : k \notin {"error", "null", "value"}
    BY <1>p DEF Plain
  <2>5. ASSUME NEW k \in Outer[c], pc'[c] = "done", outcome'[c] = k PROVE cause[k] = k
    <3>1. k \in Call
      BY OuterTransitive
    <3>2. thrown[c] = k
      BY <2>2, <2>3, <2>4, <2>5, <3>1, <1>t
    <3> QED
      BY <2>1, <3>2 DEF Fired
  <2>6. ASSUME NEW d \in Call \ {c}
        PROVE  pc'[d] = pc[d] /\ thrown'[d] = thrown[d] /\ outcome'[d] = outcome[d]
    BY <2>1, <2>2, <1>t
  <2>7. pc'[c] # "left"
    BY <2>1, <1>t
  <2> QED
    BY <2>1, <2>5, <2>6, <2>7 DEF Fired
<1>8. ASSUME NEW c \in Call, EndFallback(c) PROVE Fired'
  <2>1. PICK x \in UserEnds \cup ({Context(c)} \ {"none"}) : outcome' = [outcome EXCEPT ![c] = x]
    BY <1>8 DEF EndFallback, Finish
  <2>2. ASSUME NEW k \in Outer[c], x = k PROVE cause[k] = k
    <3>1. k \in Call
      BY OuterTransitive
    <3>2. Context(c) = k
      BY <2>2, <3>1, <1>p DEF UserEnds
    <3> QED
      BY <1>8, <3>2, ContextFired DEF EndFallback
  <2>3. /\ pc[c] = "fallback" /\ pc' = [pc EXCEPT ![c] = "done"]
        /\ cause' = cause /\ second' = second /\ thrown' = thrown
    BY <1>8 DEF EndFallback, Finish
  <2> QED
    BY <2>1, <2>2, <2>3, <1>t DEF Fired
<1>9. CASE UNCHANGED <<pc, cause, second, thrown, outcome>>
  BY <1>9 DEF Fired
<1>10. (ResetStatistics \/ UNCHANGED vars) => UNCHANGED <<pc, cause, second, thrown, outcome>>
  BY DEF ResetStatistics, vars, control
<1> QED
  BY <1>1, <1>2, <1>3, <1>4, <1>5, <1>6, <1>7, <1>8, <1>9, <1>10 DEF Next, Step

-----------------------------------------------------------------------------
(* Cancelled calls *)

\* A step that changes nothing of a call but while it is in its block, and does not
\* take it out of there.
LEMMA KeepsLeft ==
    ASSUME LeftCancelled, CancelledCallsThrow,
           UNCHANGED <<op, outcome>>,
           NEW c \in Call, pc'[c] \notin {"left", "fallback", "done"}
                            \/ /\ pc'[c] = pc[c] /\ cause'[c] = cause[c]
                               /\ second'[c] = second[c] /\ thrown'[c] = thrown[c]
    PROVE  /\ pc'[c] = "left" /\ Decides(c)' \notin {"none", c}
                => thrown'[c] \notin {"value", "null", c}
           /\ pc'[c] = "left" /\ cause'[c] = "cancelled" => thrown'[c] \notin Timeouts
           /\ pc'[c] = "fallback" => op'[c] = "executeOrFallback"
           /\ pc'[c] = "done" /\ Decides(c)' \notin {"none", c} /\ op'[c] # "executeOrFallback"
                => outcome'[c] \notin {"value", "null"}
BY DEF LeftCancelled, CancelledCallsThrow, Decides

LEMMA NextLeft == IInv /\ [Next]_vars => LeftCancelled' /\ CancelledCallsThrow'
<1> SUFFICES ASSUME IInv, [Next]_vars PROVE LeftCancelled' /\ CancelledCallsThrow'
  OBVIOUS
<1>i. TypeOK /\ Links /\ Fired /\ LeftCancelled /\ CancelledCallsThrow
  BY DEF IInv
<1>p. Call \cap Plain = {}
  BY CallAssumption
<1>t. /\ cause \in [Call -> Causes] /\ second \in [Call -> Causes]
      /\ thrown \in [Call -> Ends] /\ pc \in [Call -> Places] /\ outcome \in [Call -> Ends]
  BY <1>i DEF TypeOK
<1> DEFINE Kept(d) ==
        /\ pc'[d] = "left" /\ Decides(d)' \notin {"none", d}
             => thrown'[d] \notin {"value", "null", d}
        /\ pc'[d] = "left" /\ cause'[d] = "cancelled" => thrown'[d] \notin Timeouts
        /\ pc'[d] = "fallback" => op'[d] = "executeOrFallback"
        /\ pc'[d] = "done" /\ Decides(d)' \notin {"none", d} /\ op'[d] # "executeOrFallback"
             => outcome'[d] \notin {"value", "null"}
<1>1. ASSUME NEW c \in Call, Begin(c), NEW d \in Call PROVE Kept(d)
  <2>1. pc' = [pc EXCEPT ![c] = "counted"] /\ UNCHANGED <<op, cause, second, thrown, outcome>>
    BY <1>1 DEF Begin
  <2> QED
    BY <2>1, <1>i, <1>t, KeepsLeft
<1>2. ASSUME NEW c \in Call, Enter(c), NEW d \in Call PROVE Kept(d)
  <2>1. CASE d = c \/ d \in Inner(c)
    BY <1>2, <2>1 DEF Enter
  <2>2. CASE d # c /\ d \notin Inner(c)
    <3>1. /\ pc'[d] = pc[d] /\ cause'[d] = cause[d] /\ second'[d] = second[d]
          /\ thrown'[d] = thrown[d]
          /\ outcome'[d] = outcome[d] /\ op'[d] = op[d]
      BY <1>2, <2>2, <1>t DEF Enter
    <3> QED
      BY <3>1, <1>i DEF LeftCancelled, CancelledCallsThrow, Decides
  <2> QED
    BY <2>1, <2>2
<1>3. ASSUME NEW c \in Call, TimeOutAtOnce(c), NEW d \in Call PROVE Kept(d)
  <2>1. CASE d = c
    <3>1. pc'[c] = "left" /\ cause'[c] = c /\ second'[c] = "none"
      BY <1>3, <1>t DEF TimeOutAtOnce
    <3> QED
      BY <2>1, <3>1, <1>p DEF Plain, Decides
  <2>2. CASE d # c
    <3>1. /\ pc'[d] = pc[d] /\ cause'[d] = cause[d] /\ second'[d] = second[d]
          /\ thrown'[d] = thrown[d]
          /\ UNCHANGED <<op, outcome>>
      BY <1>3, <2>2, <1>t DEF TimeOutAtOnce
    <3> QED
      BY <3>1, <1>i, KeepsLeft
  <2> QED
    BY <2>1, <2>2
<1>4. ASSUME NEW c \in Call, NEW why, Cancel(Told(c), why),
             UNCHANGED <<pc, op, thrown, outcome>>, NEW d \in Call
      PROVE  Kept(d)
  <2>1. pc[d] = "block" \/ (cause'[d] = cause[d] /\ second'[d] = second[d])
    BY <1>4, ToldInside DEF Cancel
  <2> QED
    BY <2>1, <1>4, <1>i, KeepsLeft
<1>5. ASSUME NEW c \in Call, Leave(c), NEW d \in Call PROVE Kept(d)
  <2>1. PICK y \in Ends :
            /\ thrown' = [thrown EXCEPT ![c] = y]
            /\ y \in Call => \/ y \in {cause[c], second[c]}
                             \/ \E e \in Own(c) : pc[e] = "done" /\ outcome[e] = y
            /\ cause[c] # "none" /\ Decides(c) \notin {"none", c}
                => y \notin {"value", "null"} /\ (y = c => second[c] = "none")
            /\ cause[c] = "cancelled" /\ second[c] = "none" => y \notin Timeouts
    BY <1>5, <1>i, Left
  <2>2. pc' = [pc EXCEPT ![c] = "left"] /\ UNCHANGED <<op, cause, second, outcome>>
    BY <1>5 DEF Leave
  <2>3. second[c] # "none" => cause[c] \in Timeouts
    BY <1>i DEF Links
  <2>6. "none" \notin Timeouts /\ "cancelled" \notin Timeouts
    BY <1>p DEF Timeouts, Plain
  <2>7. Decides(c) \notin {"none", c} => y \notin {"value", "null", c}
    <3>1. y = c /\ second[c] = "none" => cause[c] = c
      <4>1. \A e \in Own(c) : e \in Call /\ c \in Outer[e]
        BY DEF Own
      <4>2. c # "none"
        BY <1>p DEF Plain
      <4> QED
        BY <2>1, <4>1, <4>2, <1>i DEF Fired
    <3>2. Decides(c) # "none" => cause[c] # "none"
      BY <2>3, <2>6 DEF Decides
    <3> QED
      BY <2>1, <3>1, <3>2 DEF Decides
  <2>4. CASE d = c
    <3>1. pc'[c] = "left" /\ Decides(c)' = Decides(c) /\ cause'[c] = cause[c] /\ thrown'[c] = y
      BY <2>1, <2>2, <1>t DEF Decides
    <3> QED
      BY <3>1, <2>1, <2>3, <2>4, <2>6, <2>7
  <2>5. CASE d # c
    <3>1. pc'[d] = pc[d] /\ cause'[d] = cause[d] /\ second'[d] = second[d]
          /\ thrown'[d] = thrown[d]
      BY <2>1, <2>2, <2>5, <1>t
    <3> QED
      BY <3>1, <2>2, <1>i, KeepsLeft
  <2> QED
    BY <2>4, <2>5
<1>6. ASSUME NEW c \in Call, Settle(c), NEW d \in Call PROVE Kept(d)
  <2> DEFINE x == thrown[c]
  <2>0. /\ pc[c] = "left" /\ UNCHANGED <<op, cause, second>>
        /\ thrown' = [thrown EXCEPT ![c] = "none"]
        /\ \/ pc' = [pc EXCEPT ![c] = "retry"] /\ outcome' = outcome
           \/ FellBack(c, x) /\ pc' = [pc EXCEPT ![c] = "fallback"] /\ outcome' = outcome
           \/ /\ pc' = [pc EXCEPT ![c] = "done"]
              /\ \E z \in {"error", Answer(c, x)} : outcome' = [outcome EXCEPT ![c] = z]
    BY <1>6, <1>i, Settled
  <2>1. CASE d # c
    <3>1. /\ pc'[d] = pc[d] /\ cause'[d] = cause[d] /\ second'[d] = second[d]
          /\ thrown'[d] = thrown[d]
          /\ outcome'[d] = outcome[d] /\ op'[d] = op[d]
      BY <2>0, <2>1, <1>t
    <3> QED
      BY <3>1, <1>i DEF LeftCancelled, CancelledCallsThrow, Decides
  <2>2. CASE d = c
    <3>1. pc'[c] # "left" /\ (pc'[c] = "fallback" => op[c] = "executeOrFallback")
      BY <2>0, <1>t DEF FellBack
    <3>2. ASSUME pc'[c] = "done", Decides(c) \notin {"none", c}
          PROVE  outcome'[c] \notin {"value", "null"}
      <4>1. x \notin {"value", "null", c}
        BY <2>0, <3>2, <1>i DEF LeftCancelled
      <4>2. Answer(c, x) = x
        BY <4>1 DEF Answer
      <4>3. outcome'[c] \in {"error", x}
        BY <2>0, <3>2, <4>2, <1>t
      <4> QED
        BY <4>1, <4>3
    <3>3. Decides(c)' = Decides(c)
      BY <2>0 DEF Decides
    <3> QED
      BY <2>0, <2>2, <3>1, <3>2, <3>3
  <2> QED
    BY <2>1, <2>2
<1>7. ASSUME NEW c \in Call, EndFallback(c), NEW d \in Call PROVE Kept(d)
  <2>1. /\ pc[c] = "fallback" /\ pc' = [pc EXCEPT ![c] = "done"]
        /\ UNCHANGED <<op, cause, second, thrown>>
        /\ \E z : outcome' = [outcome EXCEPT ![c] = z]
    BY <1>7 DEF EndFallback, Finish
  <2>2. op[c] = "executeOrFallback"
    BY <2>1, <1>i DEF LeftCancelled
  <2>3. CASE d = c
    BY <2>1, <2>2, <2>3, <1>t
  <2>4. CASE d # c
    <3>1. /\ pc'[d] = pc[d] /\ cause'[d] = cause[d] /\ second'[d] = second[d]
          /\ thrown'[d] = thrown[d]
          /\ outcome'[d] = outcome[d] /\ op'[d] = op[d]
      BY <2>1, <2>4, <1>t
    <3> QED
      BY <3>1, <1>i DEF LeftCancelled, CancelledCallsThrow, Decides
  <2> QED
    BY <2>3, <2>4
<1>8. ASSUME UNCHANGED <<pc, op, cause, second, thrown, outcome>>, NEW d \in Call PROVE Kept(d)
  BY <1>8, <1>i, KeepsLeft
<1>9. ASSUME NEW c \in Call, Timer(c), NEW d \in Call PROVE Kept(d)
  <2>1. UNCHANGED <<pc, op, thrown, outcome>>
    BY <1>9 DEF Timer
  <2>2. CASE Cancel(Told(c), c)
    BY <2>1, <2>2, <1>4
  <2>3. CASE second' = [second EXCEPT ![c] = c] /\ UNCHANGED cause
    <3>1. pc[d] = "block" \/ (cause'[d] = cause[d] /\ second'[d] = second[d])
      BY <1>9, <2>3, <1>t DEF Timer
    <3> QED
      BY <2>1, <3>1, <1>i, KeepsLeft
  <2> QED
    BY <1>9, <2>2, <2>3 DEF Timer
<1>10. ASSUME NEW c \in Call, NEW why \in {"cancelled", "foreign"}, Interrupt(c, why),
              NEW d \in Call
       PROVE  Kept(d)
  <2>1. Cancel(Told(c), why) /\ UNCHANGED <<pc, op, thrown, outcome>>
    BY <1>10 DEF Interrupt
  <2> QED
    BY <2>1, <1>4
<1>11. (ResetStatistics \/ UNCHANGED vars) => UNCHANGED <<pc, op, cause, second, thrown, outcome>>
  BY DEF ResetStatistics, vars, control
<1> HIDE DEF Kept
<1>12. \A d \in Call : Kept(d)
  BY <1>1, <1>2, <1>3, <1>5, <1>6, <1>7, <1>8, <1>9, <1>10, <1>11 DEF Next, Step
<1> QED
  BY <1>12 DEF Kept, LeftCancelled, CancelledCallsThrow

LEMMA InitIInv == Init => IInv
<1> SUFFICES ASSUME Init PROVE IInv
  OBVIOUS
<1>1. \A d \in Call : pc[d] = "idle"
  BY DEF Init
<1>2. Fired /\ LeftCancelled /\ CancelledCallsThrow
  BY <1>1 DEF Fired, LeftCancelled, CancelledCallsThrow
<1> QED
  BY <1>2, InitType, InitLinks DEF IInv

LEMMA NextIInv == IInv /\ [Next]_vars => IInv'
BY NextType, NextLinks, NextFired, NextLeft DEF IInv

\* No call whose block was cancelled returns as if nothing had happened, or with the
\* null or default of a timeout, unless its own timeout has the last word on it: it
\* came first, or it was the next after another timeout.
THEOREM CancelledCallsThrowHolds == Spec => []CancelledCallsThrow
<1>1. IInv => CancelledCallsThrow
  BY DEF IInv
<1> QED
  BY <1>1, InitIInv, NextIInv, PTL DEF Spec

\* executeWithRetry does not try a cancelled block again.
THEOREM CancelledIsNotRetriedHolds == Spec => CancelledIsNotRetried
<1> DEFINE Kept == \A c \in Call : pc[c] = "left" /\ pc'[c] = "retry" => cause[c] # "cancelled"
<1>1. ASSUME IInv, Next PROVE Kept
  <2> SUFFICES ASSUME NEW c \in Call, pc[c] = "left", pc'[c] = "retry"
               PROVE  cause[c] # "cancelled"
    OBVIOUS
  <2>1. /\ pc \in [Call -> Places] /\ TypeOK /\ LeftCancelled
        /\ UnderWay(c) /\ \A d \in Outer[c] : pc[d] = "block"
    BY <1>1 DEF IInv, TypeOK, UnderWay
  <2>2. Settle(c)
    BY <1>1, <2>1 DEF Next, Step, Begin, Enter, TimeOutAtOnce, Timer, Leave, Settle, Finish,
                      EndFallback, Interrupt, ResetStatistics, control
  <2>3. Retried(c, thrown[c])
    BY <2>1, <2>2 DEF Settle, Finish
  <2> QED
    BY <2>1, <2>3 DEF Retried, LeftCancelled
<1>2. IInv /\ [Next]_vars => [Kept]_vars
  BY <1>1
<1> QED
  BY <1>2, InitIInv, NextIInv, PTL DEF Spec, CancelledIsNotRetried
=============================================================================
