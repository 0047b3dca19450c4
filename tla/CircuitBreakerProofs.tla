------------------------ MODULE CircuitBreakerProofs ------------------------
(***************************************************************************)
(* Proofs about CircuitBreaker, for any set of callers and any             *)
(* configuration that CircuitBreakerConfig accepts.                        *)
(***************************************************************************)
EXTENDS CircuitBreaker, TLAPS

-----------------------------------------------------------------------------
(* The inductive invariant *)

\* Without reset(), the failure that brings a caller to "opening" leaves a
\* lastFailureTime behind it, which nothing removes.
TimestampInv ==
    ManualReset \/ /\ OpenHasTimestamp
                   /\ \A c \in Callers : pc[c] = "opening" => lastFailure # Never

IInv == TypeOK /\ NoLostOpen /\ NoLostClose /\ TimestampInv

-----------------------------------------------------------------------------
(* Lemmas *)

\* Counting up stays within the cap, and reaches a threshold from below.
LEMMA IncrementType ==
    ASSUME NEW n \in 0 .. CountCap
    PROVE  Increment(n) \in 0 .. CountCap
BY ConfigAssumption DEF Increment

LEMMA OlderType ==
    ASSUME NEW a \in Ages \cup {Never}
    PROVE  /\ Older(a) \in Ages \cup {Never}
           /\ a # Never => Older(a) # Never
BY ConfigAssumption DEF Older, Ages, Never

LEMMA InitIInv == Init => IInv
<1>1. Init => TypeOK
  <2>1. Init => overlapped \in BOOLEAN
    BY DEF Init
  <2>2. QED
    BY <2>1, ConfigAssumption DEF Init, TypeOK, Places, States, Never, Ages
<1>2. Init => NoLostOpen /\ NoLostClose /\ TimestampInv
  BY ConfigAssumption DEF Init, NoLostOpen, NoLostClose, TimestampInv, OpenHasTimestamp
<1>3. QED
  BY <1>1, <1>2 DEF IInv

\* Every step keeps the types.
LEMMA TypeStep == TypeOK /\ [Next]_vars => TypeOK'
<1> SUFFICES ASSUME TypeOK, [Next]_vars PROVE TypeOK'
  OBVIOUS
<1> USE DEF TypeOK, Goto, breaker, observers
<1>p. Places = {"idle", "check", "read", "closedBlock", "halfOpenBlock", "opening",
                "closing", "tellClosed", "tellOpen", "tellHalfOpen"}
  BY DEF Places, Telling
<1>s. States = {"Closed", "Open", "HalfOpen"}
  BY DEF States
<1>n. 0 \in 0 .. CountCap /\ 0 \in Ages
  BY ConfigAssumption DEF Ages
<1>1. ASSUME NEW c \in Callers, Check(c) \/ TooEarly(c) \/ ToHalfOpen(c) PROVE TypeOK'
  BY <1>1, <1>p, <1>s, <1>n DEF Check, TooEarly, ToHalfOpen, Begins
<1>2. ASSUME NEW c \in Callers, Reject(c) \/ Enter(c) \/ BlockError(c) PROVE TypeOK'
  BY <1>2, <1>p DEF Reject, Enter, BlockError
<1>3. ASSUME NEW c \in Callers, OnSuccess(c) \/ OnFailure(c) \/ ToOpen(c) PROVE TypeOK'
  BY <1>3, <1>p, <1>s, <1>n, IncrementType DEF OnSuccess, OnFailure, ToOpen
<1>4. ASSUME NEW c \in Callers,
             OnSuccessInHalfOpen(c) \/ ToClosed(c) \/ OnFailureInHalfOpen(c)
      PROVE  TypeOK'
  BY <1>4, <1>p, <1>s, <1>n, IncrementType
  DEF OnSuccessInHalfOpen, ToClosed, OnFailureInHalfOpen
<1>5. ASSUME NEW c \in Callers, NotifyListeners(c) \/ Reset(c) \/ Trip(c) PROVE TypeOK'
  BY <1>5, <1>p, <1>s, <1>n DEF NotifyListeners, Reset, Trip, Begins
<1>6. CASE Tick
  BY <1>6, OlderType DEF Tick
<1>7. CASE UNCHANGED vars
  BY <1>7 DEF vars
<1>8. QED
  BY <1>1, <1>2, <1>3, <1>4, <1>5, <1>6, <1>7 DEF Next, Execute

\* A caller leaves "opening" only by ToOpen, after which the breaker is not
\* closed; a count reaches the threshold only in the step that brings its
\* caller to "opening".
LEMMA OpenStep == TypeOK /\ NoLostOpen /\ [Next]_vars => NoLostOpen'
<1> SUFFICES ASSUME TypeOK, NoLostOpen, [Next]_vars PROVE NoLostOpen'
  OBVIOUS
<1> USE ConfigAssumption DEF TypeOK, NoLostOpen, Goto, breaker, observers
<1>1. ASSUME NEW c \in Callers, Check(c) \/ TooEarly(c) \/ ToHalfOpen(c) PROVE NoLostOpen'
  BY <1>1 DEF Check, TooEarly, ToHalfOpen
<1>2. ASSUME NEW c \in Callers, Reject(c) \/ Enter(c) \/ BlockError(c) PROVE NoLostOpen'
  BY <1>2 DEF Reject, Enter, BlockError
<1>3. ASSUME NEW c \in Callers, OnSuccess(c) \/ OnFailure(c) \/ ToOpen(c) PROVE NoLostOpen'
  BY <1>3 DEF OnSuccess, OnFailure, ToOpen
<1>4. ASSUME NEW c \in Callers,
             OnSuccessInHalfOpen(c) \/ ToClosed(c) \/ OnFailureInHalfOpen(c)
      PROVE  NoLostOpen'
  BY <1>4 DEF OnSuccessInHalfOpen, ToClosed, OnFailureInHalfOpen
<1>5. ASSUME NEW c \in Callers, NotifyListeners(c) \/ Reset(c) \/ Trip(c) PROVE NoLostOpen'
  BY <1>5 DEF NotifyListeners, Reset, Trip
<1>6. CASE Tick \/ UNCHANGED vars
  BY <1>6 DEF Tick, vars
<1>7. QED
  BY <1>1, <1>2, <1>3, <1>4, <1>5, <1>6 DEF Next, Execute

\* The same for "closing"; a trial starts with no successes.
LEMMA CloseStep == TypeOK /\ NoLostClose /\ [Next]_vars => NoLostClose'
<1> SUFFICES ASSUME TypeOK, NoLostClose, [Next]_vars PROVE NoLostClose'
  OBVIOUS
<1> USE ConfigAssumption DEF TypeOK, NoLostClose, Goto, breaker, observers
<1>1. ASSUME NEW c \in Callers, Check(c) \/ TooEarly(c) \/ ToHalfOpen(c) PROVE NoLostClose'
  BY <1>1 DEF Check, TooEarly, ToHalfOpen
<1>2. ASSUME NEW c \in Callers, Reject(c) \/ Enter(c) \/ BlockError(c) PROVE NoLostClose'
  BY <1>2 DEF Reject, Enter, BlockError
<1>3. ASSUME NEW c \in Callers, OnSuccess(c) \/ OnFailure(c) \/ ToOpen(c) PROVE NoLostClose'
  BY <1>3 DEF OnSuccess, OnFailure, ToOpen
<1>4. ASSUME NEW c \in Callers,
             OnSuccessInHalfOpen(c) \/ ToClosed(c) \/ OnFailureInHalfOpen(c)
      PROVE  NoLostClose'
  BY <1>4 DEF OnSuccessInHalfOpen, ToClosed, OnFailureInHalfOpen
<1>5. ASSUME NEW c \in Callers, NotifyListeners(c) \/ Reset(c) \/ Trip(c) PROVE NoLostClose'
  BY <1>5 DEF NotifyListeners, Reset, Trip
<1>6. CASE Tick \/ UNCHANGED vars
  BY <1>6 DEF Tick, vars
<1>7. QED
  BY <1>1, <1>2, <1>3, <1>4, <1>5, <1>6 DEF Next, Execute

\* Without reset() nothing writes null to lastFailureTime.
LEMMA TimestampStep == TypeOK /\ TimestampInv /\ [Next]_vars => TimestampInv'
<1> SUFFICES ASSUME TypeOK, TimestampInv, [Next]_vars, ~ManualReset PROVE TimestampInv'
  BY DEF TimestampInv
<1> USE DEF TypeOK, TimestampInv, OpenHasTimestamp, Goto, breaker, observers, Never
<1>1. ASSUME NEW c \in Callers, Check(c) \/ TooEarly(c) \/ ToHalfOpen(c) PROVE TimestampInv'
  BY <1>1 DEF Check, TooEarly, ToHalfOpen
<1>2. ASSUME NEW c \in Callers, Reject(c) \/ Enter(c) \/ BlockError(c) PROVE TimestampInv'
  BY <1>2 DEF Reject, Enter, BlockError
<1>3. ASSUME NEW c \in Callers, OnSuccess(c) \/ OnFailure(c) \/ ToOpen(c) PROVE TimestampInv'
  BY <1>3 DEF OnSuccess, OnFailure, ToOpen
<1>4. ASSUME NEW c \in Callers,
             OnSuccessInHalfOpen(c) \/ ToClosed(c) \/ OnFailureInHalfOpen(c)
      PROVE  TimestampInv'
  BY <1>4 DEF OnSuccessInHalfOpen, ToClosed, OnFailureInHalfOpen
<1>5. ASSUME NEW c \in Callers, NotifyListeners(c) \/ Reset(c) \/ Trip(c) PROVE TimestampInv'
  BY <1>5 DEF NotifyListeners, Reset, Trip
<1>6. CASE Tick
  BY <1>6, OlderType DEF Tick
<1>7. CASE UNCHANGED vars
  BY <1>7 DEF vars
<1>8. QED
  BY <1>1, <1>2, <1>3, <1>4, <1>5, <1>6, <1>7 DEF Next, Execute

LEMMA SpecIInv == Spec => []IInv
<1>1. IInv /\ [Next]_vars => IInv'
  BY TypeStep, OpenStep, CloseStep, TimestampStep DEF IInv
<1>2. QED
  BY <1>1, InitIInv, PTL DEF Spec

-----------------------------------------------------------------------------
(* Theorems *)

\* Every variable keeps its type.
THEOREM TypeCorrect == Spec => []TypeOK
<1>1. IInv => TypeOK
  BY DEF IInv
<1>2. QED
  BY <1>1, SpecIInv, PTL

\* However the callers interleave, reset() and trip() included, a breaker
\* that has counted enough failures is open, or about to be opened.
THEOREM NoOpenIsLost == Spec => []NoLostOpen
<1>1. IInv => NoLostOpen
  BY DEF IInv
<1>2. QED
  BY <1>1, SpecIInv, PTL

\* A trial that has counted enough successes is over, or about to be.
THEOREM NoCloseIsLost == Spec => []NoLostClose
<1>1. IInv => NoLostClose
  BY DEF IInv
<1>2. QED
  BY <1>1, SpecIInv, PTL

\* No threshold that is reached remains without effect.
THEOREM NoTransitionIsLost == Spec => []NoLostTransition
<1>1. IInv => NoLostTransition
  BY DEF IInv, NoLostTransition
<1>2. QED
  BY <1>1, SpecIInv, PTL

\* While nobody calls reset(), an open breaker has a lastFailureTime.
THEOREM OpenKnowsSinceWhen ==
    ASSUME ~ManualReset
    PROVE  Spec => []OpenHasTimestamp
<1>1. IInv => OpenHasTimestamp
  BY DEF IInv, TimestampInv
<1>2. QED
  BY <1>1, SpecIInv, PTL

\* The state changes only along the documented transitions, or by hand.
THEOREM OnlyLegalTransitions == Spec => LegalTransitions
<1> DEFINE A ==
      \/ state' = state
      \/ <<state, state'>> \in {<<"Closed", "Open">>, <<"Open", "HalfOpen">>,
                               <<"HalfOpen", "Closed">>, <<"HalfOpen", "Open">>}
      \/ \E c \in Callers : Reset(c) \/ Trip(c)
<1>1. [Next]_vars => [A]_vars
  BY DEF Next, Execute, Check, TooEarly, ToHalfOpen, Reject, Enter, BlockError, OnSuccess,
         OnFailure, ToOpen, OnSuccessInHalfOpen, ToClosed, OnFailureInHalfOpen,
         NotifyListeners, Tick, vars, breaker, observers
<1>2. QED
  BY <1>1, PTL DEF Spec, LegalTransitions

-----------------------------------------------------------------------------
(* One caller after the other *)

\* Only one caller is under way, and it finds the breaker as it left it.
Alone ==
    /\ \A c, d \in Callers : pc[c] # "idle" /\ pc[d] # "idle" => c = d
    /\ \A c \in Callers :
        /\ pc[c] = "check" => state = "Open" /\ snapshot[c] = lastFailure
        /\ pc[c] = "opening" =>
               state = "Closed" /\ failureCount >= FailureThreshold /\ lastFailure # Never
        /\ pc[c] = "closedBlock" => state = "Closed"
        /\ pc[c] = "halfOpenBlock" => state = "HalfOpen"
        /\ pc[c] = "closing" => state = "HalfOpen" /\ successCount >= SuccessThreshold

\* What the listeners have heard is the state, or they are about to hear it.
Told ==
    /\ \A c \in Callers :
        /\ pc[c] = "tellClosed" => state = "Closed"
        /\ pc[c] = "tellOpen" => state = "Open"
        /\ pc[c] = "tellHalfOpen" => state = "HalfOpen"
    /\ heard = state \/ \E c \in Callers : pc[c] \in Telling

AloneInv == ~overlapped => Alone /\ Told /\ OpenHasTimestamp

LEMMA AloneInit == Init => AloneInv
BY DEF Init, AloneInv, Alone, Told, OpenHasTimestamp

\* A step that leaves callers alone was made by the only one under way.
LEMMA AloneStep == TypeOK /\ AloneInv /\ [Next]_vars => AloneInv'
<1> SUFFICES ASSUME TypeOK, Alone, Told, OpenHasTimestamp, ~overlapped', [Next]_vars
             PROVE  (Alone /\ Told /\ OpenHasTimestamp)'
  <2>1. ASSUME [Next]_vars, overlapped
        PROVE  overlapped'
    BY <2>1 DEF Next, Execute, Check, TooEarly, ToHalfOpen, Reject, Enter, BlockError, OnSuccess,
         OnFailure, ToOpen, OnSuccessInHalfOpen, ToClosed, OnFailureInHalfOpen,
         NotifyListeners, Reset, Trip, Begins, Tick, vars, breaker, observers
  <2>2. QED
    BY <2>1 DEF AloneInv
<1> USE DEF TypeOK, Alone, Told, OpenHasTimestamp, Goto, breaker, observers, Never, Telling
<1>1. ASSUME NEW c \in Callers, Check(c) PROVE (Alone /\ Told /\ OpenHasTimestamp)'
  BY <1>1 DEF Check, Begins
<1>2. ASSUME NEW c \in Callers, TooEarly(c) \/ ToHalfOpen(c)
      PROVE  (Alone /\ Told /\ OpenHasTimestamp)'
  BY <1>2 DEF TooEarly, ToHalfOpen
<1>3. ASSUME NEW c \in Callers, Reject(c) \/ Enter(c) \/ BlockError(c)
      PROVE  (Alone /\ Told /\ OpenHasTimestamp)'
  BY <1>3 DEF Reject, Enter, BlockError
<1>4. ASSUME NEW c \in Callers, OnSuccess(c) \/ OnFailure(c)
      PROVE  (Alone /\ Told /\ OpenHasTimestamp)'
  BY <1>4 DEF OnSuccess, OnFailure
<1>5. ASSUME NEW c \in Callers, ToOpen(c)
      PROVE  (Alone /\ Told /\ OpenHasTimestamp)'
  BY <1>5 DEF ToOpen
<1>6. ASSUME NEW c \in Callers, OnSuccessInHalfOpen(c) \/ ToClosed(c)
      PROVE  (Alone /\ Told /\ OpenHasTimestamp)'
  BY <1>6 DEF OnSuccessInHalfOpen, ToClosed
<1>7. ASSUME NEW c \in Callers, OnFailureInHalfOpen(c)
      PROVE  (Alone /\ Told /\ OpenHasTimestamp)'
  BY <1>7 DEF OnFailureInHalfOpen
<1>8. ASSUME NEW c \in Callers, Reset(c) \/ Trip(c)
      PROVE  (Alone /\ Told /\ OpenHasTimestamp)'
  <2>1. \A d \in Callers : pc[d] = "idle"
    BY <1>8 DEF Reset, Trip, Begins
  <2>2. heard = state
    BY <2>1
  <2>3. CASE Reset(c)
    BY <2>1, <2>2, <2>3 DEF Reset
  <2>4. CASE Trip(c)
    BY <2>1, <2>2, <2>4 DEF Trip
  <2>5. QED
    BY <1>8, <2>3, <2>4
<1>9. ASSUME NEW c \in Callers, NotifyListeners(c)
      PROVE  (Alone /\ Told /\ OpenHasTimestamp)'
  BY <1>9 DEF NotifyListeners
<1>10. CASE Tick
  <2>1. /\ UNCHANGED <<pc, state, heard, failureCount, successCount>>
        /\ lastFailure # Never => lastFailure' # Never
    BY <1>10, OlderType DEF Tick
  <2>2. \A c \in Callers : snapshot[c] = lastFailure => snapshot'[c] = lastFailure'
    BY <1>10 DEF Tick
  <2>3. QED
    BY <2>1, <2>2
<1>11. CASE UNCHANGED vars
  BY <1>11 DEF vars
<1>12. QED
  BY <1>1, <1>2, <1>3, <1>4, <1>5, <1>6, <1>7, <1>8, <1>9, <1>10, <1>11 DEF Next, Execute

\* As long as callers use the breaker one after the other, its transitions are made
\* under their documented conditions, the listeners know the state, and an open
\* breaker has a timestamp: the second transactions of onFailure, onSuccessInHalfOpen
\* and checkAndUpdateState find what the first ones left.
THEOREM OneAfterTheOtherHolds == Spec => OneAfterTheOther
<1> DEFINE A == ~overlapped' => OpensAtThreshold /\ HalfOpensAfterTimeout /\ ClosesAtThreshold
<1>1. AloneInv => (~overlapped => HeardIsState /\ OpenHasTimestamp)
  BY DEF AloneInv, Told, HeardIsState, Telling
<1>2. ASSUME TypeOK, AloneInv, [Next]_vars PROVE [A]_vars
  <2> SUFFICES ASSUME Next, ~overlapped'
               PROVE  OpensAtThreshold /\ HalfOpensAfterTimeout /\ ClosesAtThreshold
    BY <1>2
  <2>1. ~overlapped => Alone
    BY <1>2 DEF AloneInv
  <2>2. CASE UNCHANGED state
    BY <2>2, <1>2 DEF OpensAtThreshold, HalfOpensAfterTimeout, ClosesAtThreshold
  <2>3. ASSUME NEW c \in Callers, Reset(c) \/ Trip(c)
        PROVE  OpensAtThreshold /\ HalfOpensAfterTimeout /\ ClosesAtThreshold
    BY <2>3, <1>2 DEF Reset, Trip, OpensAtThreshold, HalfOpensAfterTimeout, ClosesAtThreshold
  <2>4. ASSUME NEW c \in Callers,
               ToHalfOpen(c) \/ ToOpen(c) \/ ToClosed(c) \/ OnFailureInHalfOpen(c)
        PROVE  OpensAtThreshold /\ HalfOpensAfterTimeout /\ ClosesAtThreshold
    <3>1. ~overlapped
      BY <2>4 DEF ToHalfOpen, ToOpen, ToClosed, OnFailureInHalfOpen, observers
    <3>2. QED
      BY <2>1, <2>4, <3>1, <1>2, ConfigAssumption
      DEF ToHalfOpen, ToOpen, ToClosed, OnFailureInHalfOpen, Goto, Alone, TypeOK, Ages, breaker,
          OpensAtThreshold, HalfOpensAfterTimeout, ClosesAtThreshold
  <2>5. QED
    BY <2>2, <2>3, <2>4
    DEF Next, Execute, Check, TooEarly, Reject, Enter, BlockError, OnSuccess, OnFailure,
        OnSuccessInHalfOpen, NotifyListeners, Tick, breaker
<1>3. QED
  BY <1>1, <1>2, AloneInit, AloneStep, TypeCorrect, PTL DEF Spec, OneAfterTheOther
=============================================================================
