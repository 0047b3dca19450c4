----------------------------- MODULE SagaProofs -----------------------------
(***************************************************************************)
(* Proofs about Saga, for any number of sagas and steps, and any choice of *)
(* the steps with a compensation and of the configuration of the sagas.    *)
(*                                                                         *)
(* The invariant has two parts.  Control says where the loops of execute   *)
(* and compensate, and that of executeAll, may be: it gives types and the  *)
(* end of the scope.  Books says, of a saga that has failed, what the      *)
(* position of its loop tells about the effects of its steps.              *)
(***************************************************************************)
EXTENDS Saga, FiniteSetTheorems, TLAPS

\* executedSteps lists the steps in their order, without a gap.
InOrder(s) ==
    /\ Len(executedSteps[s]) <= NumSteps
    /\ \A k \in 1 .. Len(executedSteps[s]) : executedSteps[s][k] = k

Control(s) ==
    /\ InOrder(s)
    /\ place[s] = "forward" => at[s] = Len(executedSteps[s]) + 1
    /\ place[s] = "undoing" =>
          /\ at[s] <= Len(executedSteps[s])
          /\ compensated[s] + at[s] <= NumSteps
    /\ place[s] = "failure" => at[s] = 0

\* What executeAll knows of its sagas.
Joined ==
    /\ scope = "idle" => \A s \in Sagas : place[s] = "idle"
    /\ scope = "awaiting" => \A s \in 1 .. awaited : place[s] \in Returned

CInv ==
    /\ TypeOK
    /\ \A s \in Sagas : Control(s)
    /\ Joined
    /\ NoneLeftRunning

-----------------------------------------------------------------------------

\* A step of a saga is an action of its coroutine, and leaves the others alone.
LEMMA Frame ==
    ASSUME TypeOK, NEW s \in Sagas, Execute(s), NEW t \in Sagas, t # s
    PROVE  /\ place'[t] = place[t]
           /\ executedSteps'[t] = executedSteps[t]
           /\ at'[t] = at[t]
           /\ errorSteps'[t] = errorSteps[t]
           /\ compensated'[t] = compensated[t]
           /\ effect'[t] = effect[t]
  BY DEF TypeOK, Execute, Begin, NeverBegin, StepReturns, StepFails, ThrowError, Succeed,
         Fail, Skip, CompensationReturns, CompensationFails, CompensationCancelled,
         Compensating, Goto, Mark, local, caller

\* A saga that moves had not ended, and the coordinator is left alone.
LEMMA Moving ==
    ASSUME TypeOK, NEW s \in Sagas, Execute(s)
    PROVE  /\ place[s] \notin Ended \cup {"idle"}
           /\ UNCHANGED caller
  BY DEF TypeOK, Execute, Begin, NeverBegin, StepReturns, StepFails, ThrowError, Succeed,
         Fail, Skip, CompensationReturns, CompensationFails, CompensationCancelled,
         Compensating, Goto, Mark, local, caller, Ended, Returned, Thrown, Places

-----------------------------------------------------------------------------
(* Types and control *)

\* What is written of one step is all that changes in effect.
LEMMA MarkOne ==
    ASSUME TypeOK, NEW s \in Sagas, NEW i \in Steps, NEW e \in Effects, Mark(s, i, e)
    PROVE  /\ effect' \in [Sagas -> [Steps -> Effects]]
           /\ effect'[s][i] = e
           /\ \A j \in Steps \ {i} : effect'[s][j] = effect[s][j]
  BY DEF TypeOK, Mark

\* A saga goes to a place.
LEMMA GotoPlace ==
    ASSUME TypeOK, NEW s \in Sagas, NEW from, NEW to \in Places, Goto(s, from, to)
    PROVE  /\ place' \in [Sagas -> Places]
           /\ place[s] = from /\ place'[s] = to
  BY DEF TypeOK, Goto

\* Where the loops may be.
LEMMA Positions ==
    ASSUME TypeOK, NEW s \in Sagas, Control(s)
    PROVE  /\ at[s] \in Nat /\ compensated[s] \in Nat /\ NumSteps \in Nat
           /\ place[s] = "forward" => at[s] \in 1 .. (NumSteps + 1)
           /\ place[s] = "forward" /\ at[s] <= NumSteps => at[s] \in Steps
           /\ \A i \in Steps : Compensating(s, i) =>
                 /\ at[s] = i /\ at[s] > 0 /\ place[s] = "undoing"
                 /\ compensated[s] + at[s] <= NumSteps
           /\ Len(executedSteps[s]) \in 0 .. NumSteps
  BY SagaAssumption DEF TypeOK, Control, InOrder, Compensating, Steps

\* What a step of a saga does to its own variables keeps their types.
LEMMA ExecuteTypes ==
    ASSUME TypeOK, NEW s \in Sagas, Control(s), Execute(s)
    PROVE  TypeOK'
<1> USE DEF local, caller
<1>p. {"forward", "undoing", "success", "failure", "cancelled", "error"} \subseteq Places
  BY DEF Places, Ended, Returned, Thrown
<1>e. {"done", "lost", "undone", "kept", "stuck"} \subseteq Effects
  BY DEF Effects
<1>a. ASSUME NEW n \in 0 .. (NumSteps + 1), at' = [at EXCEPT ![s] = n]
      PROVE  at' \in [Sagas -> 0 .. (NumSteps + 1)]
  BY <1>a DEF TypeOK
<1>1. CASE Begin(s) \/ NeverBegin(s)
  <2>1. place' \in [Sagas -> Places]
    BY <1>1, <1>p, GotoPlace DEF Begin, NeverBegin
  <2>2. CASE Begin(s)
    <3>1. 1 \in 0 .. (NumSteps + 1) /\ <<>> \in Seq(Steps)
      BY SagaAssumption
    <3>2. executedSteps' \in [Sagas -> Seq(Steps)]
      BY <2>2, <3>1 DEF TypeOK, Begin
    <3>3. at' \in [Sagas -> 0 .. (NumSteps + 1)]
      BY <2>2, <3>1, <1>a DEF Begin
    <3>4. QED
      BY <2>1, <2>2, <3>2, <3>3 DEF TypeOK, Begin
  <2>3. CASE NeverBegin(s)
    BY <2>1, <2>3 DEF TypeOK, NeverBegin
  <2>4. QED
    BY <1>1, <2>2, <2>3
<1>2. CASE StepReturns(s)
  <2>1. at[s] \in Steps /\ at[s] \in Nat /\ at[s] + 1 \in 0 .. (NumSteps + 1)
    BY <1>2, Positions DEF StepReturns
  <2>2. effect' \in [Sagas -> [Steps -> Effects]]
    BY <1>2, <1>e, <2>1, MarkOne DEF StepReturns
  <2>3. executedSteps' \in [Sagas -> Seq(Steps)]
    BY <1>2, <2>1 DEF TypeOK, StepReturns
  <2>4. at' \in [Sagas -> 0 .. (NumSteps + 1)]
    BY <1>2, <1>a, <2>1 DEF StepReturns
  <2>5. QED
    BY <1>2, <2>2, <2>3, <2>4 DEF TypeOK, StepReturns
<1>3. CASE StepFails(s)
  <2>1. at[s] \in Steps
    BY <1>3, Positions DEF StepFails, Goto
  <2>2. effect' \in [Sagas -> [Steps -> Effects]]
    BY <1>3, <1>e, <2>1, MarkOne DEF TypeOK, StepFails
  <2>3. place' \in [Sagas -> Places]
    BY <1>3, <1>p, GotoPlace DEF StepFails
  <2>4. Len(executedSteps[s]) \in 0 .. (NumSteps + 1)
    BY Positions
  <2>5. at' \in [Sagas -> 0 .. (NumSteps + 1)]
    BY <1>3, <1>a, <2>4 DEF StepFails
  <2>6. compensated' \in [Sagas -> 0 .. NumSteps]
    BY <1>3, Positions DEF TypeOK, StepFails
  <2>7. errorSteps' \in [Sagas -> SUBSET Steps]
    BY <1>3 DEF TypeOK, StepFails
  <2>8. QED
    BY <1>3, <2>2, <2>3, <2>5, <2>6, <2>7 DEF TypeOK, StepFails
<1>4. CASE ThrowError(s) \/ Succeed(s) \/ Fail(s)
  <2>1. place' \in [Sagas -> Places]
    BY <1>4, <1>p, GotoPlace DEF ThrowError, Succeed, Fail
  <2>2. QED
    BY <1>4, <2>1 DEF TypeOK, ThrowError, Succeed, Fail
<1>5. ASSUME NEW i \in Steps, CompensationCancelled(s, i) PROVE TypeOK'
  <2>1. place' \in [Sagas -> Places]
    BY <1>5, <1>p, GotoPlace DEF CompensationCancelled
  <2>2. QED
    BY <1>5, <2>1 DEF TypeOK, CompensationCancelled
<1>6. ASSUME NEW i \in Steps,
             Skip(s, i) \/ CompensationReturns(s, i) \/ CompensationFails(s, i)
      PROVE  TypeOK'
  <2>1. effect' \in [Sagas -> [Steps -> Effects]]
    BY <1>6, <1>e, MarkOne DEF Skip, CompensationReturns, CompensationFails
  <2>2. Compensating(s, i)
    BY <1>6 DEF Skip, CompensationReturns, CompensationFails
  <2>3. /\ 0 \in 0 .. (NumSteps + 1) /\ at[s] - 1 \in 0 .. (NumSteps + 1)
        /\ compensated[s] + 1 \in 0 .. NumSteps
    BY <2>2, Positions DEF Steps
  <2>4. at' \in [Sagas -> 0 .. (NumSteps + 1)]
    BY <1>6, <1>a, <2>3 DEF Skip, CompensationReturns, CompensationFails
  <2>5. compensated' \in [Sagas -> 0 .. NumSteps]
    BY <1>6, <2>3 DEF TypeOK, Skip, CompensationReturns, CompensationFails
  <2>6. errorSteps' \in [Sagas -> SUBSET Steps]
    BY <1>6 DEF TypeOK, Skip, CompensationReturns, CompensationFails
  <2>7. QED
    BY <1>6, <2>1, <2>4, <2>5, <2>6
    DEF TypeOK, Skip, CompensationReturns, CompensationFails
<1>7. QED
  BY <1>1, <1>2, <1>3, <1>4, <1>5, <1>6 DEF Execute

\* The loops of execute and compensate stay within the list of the steps.
LEMMA ExecuteControl ==
    ASSUME TypeOK, NEW s \in Sagas, Control(s), Execute(s)
    PROVE  Control(s)'
<1> USE SagaAssumption DEF TypeOK, Control, InOrder, Steps, local, caller, Goto
<1>1. CASE Begin(s) \/ NeverBegin(s)
  BY <1>1 DEF Begin, NeverBegin
<1>2. CASE StepReturns(s)
  <2>1. /\ executedSteps'[s] = Append(executedSteps[s], at[s])
        /\ at'[s] = at[s] + 1
        /\ place'[s] = "forward" /\ place[s] = "forward"
        /\ at[s] <= NumSteps
    BY <1>2 DEF StepReturns
  <2>2. QED
    BY <2>1
<1>3. CASE StepFails(s)
  BY <1>3 DEF StepFails
<1>4. CASE ThrowError(s) \/ Succeed(s) \/ Fail(s)
  BY <1>4 DEF ThrowError, Succeed, Fail
<1>5. ASSUME NEW i \in Steps, CompensationCancelled(s, i) PROVE Control(s)'
  BY <1>5 DEF CompensationCancelled, Compensating
<1>6. ASSUME NEW i \in Steps,
             Skip(s, i) \/ CompensationReturns(s, i) \/ CompensationFails(s, i)
      PROVE  Control(s)'
  BY <1>6 DEF Skip, CompensationReturns, CompensationFails, Compensating
<1>7. QED
  BY <1>1, <1>2, <1>3, <1>4, <1>5, <1>6 DEF Execute

LEMMA InitCInv == Init => CInv
  BY SagaAssumption
  DEF Init, CInv, TypeOK, Control, InOrder, Joined, NoneLeftRunning, NoEffect, Places,
      Effects, Steps

\* The end of the scope: a saga that moves was not awaited yet.
LEMMA ExecuteCInv ==
    ASSUME CInv, NEW s \in Sagas, Execute(s)
    PROVE  CInv'
<1>1. TypeOK'
  BY ExecuteTypes DEF CInv
<1>2. ASSUME NEW t \in Sagas PROVE Control(t)'
  <2>1. CASE t = s
    BY <2>1, ExecuteControl DEF CInv
  <2>2. CASE t # s
    BY <2>2, Frame DEF CInv, Control, InOrder
  <2>3. QED
    BY <2>1, <2>2
<1>3. /\ place[s] \notin Ended \cup {"idle"}
      /\ scope' = scope /\ awaited' = awaited
      /\ \A t \in Sagas \ {s} : place'[t] = place[t]
  BY Moving, Frame DEF CInv, caller
<1>4. Joined'
  <2>1. ASSUME scope = "awaiting", NEW t \in 1 .. awaited PROVE place'[t] \in Returned
    <3>1. awaited \in 0 .. NumSagas /\ NumSagas \in Nat
      BY SagaAssumption DEF CInv, TypeOK
    <3>2. t \in Sagas
      BY <3>1 DEF Sagas
    <3>3. place[t] \in Returned
      BY <2>1 DEF CInv, Joined
    <3>4. QED
      BY <1>3, <3>2, <3>3 DEF Ended
  <2>2. QED
    BY <1>3, <2>1 DEF CInv, Joined
<1>5. NoneLeftRunning'
  BY <1>3 DEF CInv, NoneLeftRunning, Ended
<1>6. QED
  BY <1>1, <1>2, <1>4, <1>5 DEF CInv

LEMMA CallerCInv ==
    ASSUME CInv, Launch \/ Coordinate \/ CallerCancel
    PROVE  CInv'
<1> USE DEF CInv, local, caller
<1>1. CASE Launch
  <2>1. place' = [s \in Sagas |-> "launched"] /\ scope' = "awaiting" /\ awaited' = 0
    BY <1>1 DEF Launch
  <2>2. TypeOK'
    BY <1>1, SagaAssumption DEF Launch, TypeOK, NoEffect, Places, Effects
  <2>3. \A s \in Sagas : Control(s)'
    BY <1>1, <2>1 DEF Launch, Control, InOrder
  <2>4. Joined' /\ NoneLeftRunning'
    BY <2>1 DEF Joined, NoneLeftRunning
  <2>5. QED
    BY <2>2, <2>3, <2>4
<1>2. CASE Await
  <2>1. awaited \in Nat /\ awaited + 1 \in 0 .. NumSagas
    BY <1>2, SagaAssumption DEF Await, TypeOK
  <2>2. TypeOK' /\ \A s \in Sagas : Control(s)'
    BY <1>2, <2>1 DEF Await, TypeOK, Control, InOrder
  <2>3. Joined' /\ NoneLeftRunning'
    BY <1>2, <2>1 DEF Await, Joined, NoneLeftRunning
  <2>4. QED
    BY <2>2, <2>3
<1>3. CASE AwaitThrows \/ CallerCancel
  BY <1>3 DEF AwaitThrows, CallerCancel, TypeOK, Control, InOrder, Joined, NoneLeftRunning
<1>4. CASE Return
  <2>1. TypeOK' /\ \A s \in Sagas : Control(s)'
    BY <1>4 DEF Return, TypeOK, Control, InOrder
  <2>2. Joined' /\ NoneLeftRunning'
    BY <1>4 DEF Return, Joined, NoneLeftRunning, Sagas
  <2>3. QED
    BY <2>1, <2>2
<1>5. CASE Throw
  BY <1>5 DEF Throw, TypeOK, Control, InOrder, Joined, NoneLeftRunning
<1>6. QED
  BY <1>1, <1>2, <1>3, <1>4, <1>5 DEF Coordinate

LEMMA NextCInv == CInv /\ [Next]_vars => CInv'
<1> SUFFICES ASSUME CInv, [Next]_vars PROVE CInv'
  OBVIOUS
<1>1. CASE UNCHANGED vars
  BY <1>1 DEF vars, local, caller, CInv, TypeOK, Control, InOrder, Joined, NoneLeftRunning
<1>2. QED
  BY <1>1, ExecuteCInv, CallerCInv DEF Next

THEOREM ControlInvariant == Spec => []CInv
<1>1. QED
  BY InitCInv, NextCInv, PTL DEF Spec

\* The types of Saga's variables: in particular, the loops of execute and of
\* compensate never leave the list of the steps, in any round.
THEOREM TypeCorrect == Spec => []TypeOK
<1>1. CInv => TypeOK
  BY DEF CInv
<1>2. QED
  BY <1>1, ControlInvariant, PTL

\* executeAll never ends while one of its sagas runs, and never returns
\* unless each has a result.
THEOREM ScopeIsClosed == Spec => []NoneLeftRunning
<1>1. CInv => NoneLeftRunning
  BY DEF CInv
<1>2. QED
  BY <1>1, ControlInvariant, PTL

-----------------------------------------------------------------------------
(* A failure is contained *)

LEMMA ContainedStep == CInv /\ FailureIsContained /\ [Next]_vars => FailureIsContained'
<1> SUFFICES ASSUME CInv, FailureIsContained, [Next]_vars PROVE FailureIsContained'
  OBVIOUS
<1>1. ASSUME NEW s \in Sagas, Execute(s) PROVE FailureIsContained'
  <2>1. CASE ThrowError(s)
    <3>1. place'[s] = "error"
      BY <2>1 DEF ThrowError, Goto, CInv, TypeOK
    <3>2. QED
      BY <3>1 DEF FailureIsContained, Thrown
  <2>2. CASE ~ ThrowError(s)
    <3>1. cancelled' = cancelled
      BY <1>1, <2>2
      DEF Execute, Begin, NeverBegin, StepReturns, StepFails, Succeed, Fail, Skip,
          CompensationReturns, CompensationFails, CompensationCancelled
    <3>2. \A t \in Sagas : place[t] \in Thrown => place'[t] = place[t]
      BY <1>1, Moving, Frame DEF CInv, Ended
    <3>3. QED
      BY <3>1, <3>2 DEF FailureIsContained
  <2>3. QED
    BY <2>1, <2>2
<1>2. CASE AwaitThrows
  <2>1. CASE cancelled # "no"
    BY <1>2, <2>1 DEF AwaitThrows, FailureIsContained
  <2>2. CASE cancelled = "no"
    <3>1. awaited \in 0 .. NumSagas /\ NumSagas \in Nat /\ awaited < NumSagas
      BY <1>2, <2>2, SagaAssumption DEF AwaitThrows, CInv, TypeOK
    <3>2. awaited + 1 \in Sagas
      BY <3>1 DEF Sagas
    <3>3. place[awaited + 1] \in Thrown /\ place' = place
      BY <1>2, <2>2 DEF AwaitThrows
    <3>4. QED
      BY <3>2, <3>3 DEF FailureIsContained
  <2>3. QED
    BY <2>1, <2>2
<1>3. CASE Launch \/ Await \/ Return \/ Throw \/ CallerCancel \/ UNCHANGED vars
  BY <1>3 DEF Launch, Await, Return, Throw, CallerCancel, vars, FailureIsContained
<1>4. QED
  BY <1>1, <1>2, <1>3 DEF Next, Coordinate

\* Nothing but a caller, or a saga that throws, ever cancels the other sagas:
\* the failure of a step does not.
THEOREM FailureStaysInside == Spec => []FailureIsContained
<1>1. Init => FailureIsContained
  BY DEF Init, FailureIsContained
<1>2. QED
  BY <1>1, ContainedStep, ControlInvariant, PTL DEF Spec

-----------------------------------------------------------------------------
(* The effects of the steps *)

UndoneSteps(s) == {i \in Steps : effect[s][i] = "undone"}
StuckSteps(s)  == {i \in Steps : effect[s][i] = "stuck"}

\* What compensate has written down agrees with what has happened: below
\* the position of its loop all steps stand, above it each has been dealt
\* with, unless an error has stopped the loop.
Books(s) ==
    /\ \A i \in Steps : i <= at[s] => effect[s][i] = "done"
    /\ \A i \in Steps : i > at[s] /\ effect[s][i] = "done" =>
          s \notin Continuing /\ errorSteps[s] # {}
    /\ s \notin Continuing /\ errorSteps[s] # {} => at[s] = 0
    /\ errorSteps[s] = StuckSteps(s)
    /\ compensated[s] = Cardinality(UndoneSteps(s))

Account(s) ==
    /\ place[s] \in {"idle", "launched"} => \A i \in Steps : effect[s][i] = "none"
    /\ place[s] = "forward" =>
          \A i \in Steps : effect[s][i] = IF i < at[s] THEN "done" ELSE "none"
    /\ place[s] \in {"undoing", "failure"} => Books(s)

AInv == \A s \in Sagas : Account(s)

LEMMA UndoneFinite ==
    ASSUME NEW s \in Sagas
    PROVE  IsFiniteSet(UndoneSteps(s))
<1>1. IsFiniteSet(Steps)
  BY SagaAssumption, FS_Interval DEF Steps
<1>2. QED
  BY <1>1, FS_Subset DEF UndoneSteps

\* The failed step turns the list of what was done into what is to be undone.
LEMMA FailAccount ==
    ASSUME CInv, NEW s \in Sagas, Account(s), StepFails(s)
    PROVE  Account(s)'
<1>1. /\ place[s] = "forward" /\ place'[s] = "undoing"
      /\ at'[s] = Len(executedSteps[s])
      /\ errorSteps'[s] = {} /\ compensated'[s] = 0
  BY DEF StepFails, Goto, CInv, TypeOK
<1>2. at[s] = Len(executedSteps[s]) + 1 /\ Len(executedSteps[s]) \in Nat /\ at[s] \in Steps
  BY <1>1, Positions DEF CInv, Control, StepFails
<1>3. /\ effect'[s][at[s]] \in {"none", "lost"}
      /\ \A i \in Steps \ {at[s]} : effect'[s][i] = effect[s][i]
  BY <1>1, <1>2, MarkOne DEF StepFails, Account, Effects, CInv
<1>4. \A i \in Steps : i \in Nat /\ effect'[s][i] = IF i < at[s] THEN "done"
                       ELSE IF i = at[s] THEN effect'[s][i] ELSE "none"
  BY <1>1, <1>2, <1>3, SagaAssumption DEF Account, Steps
<1>5. UndoneSteps(s)' = {} /\ StuckSteps(s)' = {}
  BY <1>3, <1>4 DEF UndoneSteps, StuckSteps
<1>6. \A i \in Steps : (i <= at'[s] => effect'[s][i] = "done")
                      /\ (i > at'[s] => effect'[s][i] # "done")
  BY <1>1, <1>2, <1>3, <1>4 DEF Steps
<1>7. compensated'[s] = Cardinality(UndoneSteps(s)')
  BY <1>1, <1>5, FS_EmptySet
<1>8. QED
  BY <1>1, <1>5, <1>6, <1>7 DEF Account, Books

\* One turn of compensate's loop.
LEMMA TurnAccount ==
    ASSUME CInv, NEW s \in Sagas, Account(s), NEW i \in Steps,
           Skip(s, i) \/ CompensationReturns(s, i) \/ CompensationFails(s, i)
    PROVE  Account(s)'
<1>1. Compensating(s, i) /\ place' = place
  BY DEF Skip, CompensationReturns, CompensationFails
<1>2. at[s] = i /\ i \in Nat /\ i > 0 /\ place[s] = "undoing" /\ place'[s] = "undoing"
      /\ Books(s)
  BY <1>1, Positions, SagaAssumption DEF CInv, Steps, Account
<1>3. PICK e \in {"undone", "kept", "stuck"} : Mark(s, i, e)
  BY DEF Skip, CompensationReturns, CompensationFails
<1>4. effect'[s][i] = e /\ \A j \in Steps \ {i} : effect'[s][j] = effect[s][j]
  BY <1>3, MarkOne DEF CInv, Effects
<1>5. effect[s][i] = "done" /\ (s \in Continuing \/ errorSteps[s] = {})
  BY <1>2, SagaAssumption DEF Books, Steps
<1>6. UndoneSteps(s)' = UndoneSteps(s) \cup (IF e = "undone" THEN {i} ELSE {})
  BY <1>4, <1>5 DEF UndoneSteps
<1>7. StuckSteps(s)' = StuckSteps(s) \cup (IF e = "stuck" THEN {i} ELSE {})
  BY <1>4, <1>5 DEF StuckSteps
<1>8. Cardinality(UndoneSteps(s)') =
          Cardinality(UndoneSteps(s)) + (IF e = "undone" THEN 1 ELSE 0)
  <2>1. i \notin UndoneSteps(s)
    BY <1>5 DEF UndoneSteps
  <2>2. IsFiniteSet(UndoneSteps(s)) /\ Cardinality(UndoneSteps(s)) \in Nat
    BY UndoneFinite, FS_CardinalityType
  <2>3. CASE e = "undone"
    BY <1>6, <2>1, <2>2, <2>3, FS_AddElement
  <2>4. CASE e # "undone"
    <3>1. UndoneSteps(s)' = UndoneSteps(s)
      BY <1>6, <2>4
    <3>2. QED
      BY <2>2, <2>4, <3>1
  <2>5. QED
    BY <2>3, <2>4
<1>9. /\ errorSteps'[s] = errorSteps[s] \cup (IF e = "stuck" THEN {i} ELSE {})
      /\ compensated'[s] = compensated[s] + (IF e = "undone" THEN 1 ELSE 0)
      /\ at'[s] = IF e = "stuck" /\ s \notin Continuing THEN 0 ELSE i - 1
  BY <1>2, <1>3, <1>4
  DEF Skip, CompensationReturns, CompensationFails, Mark, CInv, TypeOK
<1>10. at'[s] \in Nat /\ at'[s] < i
  BY <1>2, <1>9
<1>11. ASSUME NEW j \in Steps, j <= at'[s] PROVE effect'[s][j] = "done"
  BY <1>2, <1>4, <1>10, <1>11, SagaAssumption DEF Books, Steps
<1>12. ASSUME NEW j \in Steps, j > at'[s], effect'[s][j] = "done"
       PROVE  s \notin Continuing /\ errorSteps'[s] # {}
  <2>1. j # i /\ effect[s][j] = "done"
    BY <1>4, <1>12
  <2>2. CASE j > i
    BY <1>2, <1>9, <2>1, <2>2 DEF Books
  <2>3. CASE ~ (j > i)
    BY <1>2, <1>9, <1>12, <2>1, <2>3, SagaAssumption DEF Steps
  <2>4. QED
    BY <2>2, <2>3
<1>13. s \notin Continuing /\ errorSteps'[s] # {} => at'[s] = 0
  BY <1>5, <1>9
<1>14. errorSteps'[s] = StuckSteps(s)'
  BY <1>2, <1>7, <1>9 DEF Books
<1>15. compensated'[s] = Cardinality(UndoneSteps(s)')
  <2>1. compensated[s] = Cardinality(UndoneSteps(s))
    BY <1>2 DEF Books
  <2>2. QED
    BY <1>8, <1>9, <2>1
<1>16. Books(s)'
  BY <1>11, <1>12, <1>13, <1>14, <1>15 DEF Books
<1>17. QED
  BY <1>2, <1>16 DEF Account

LEMMA ExecuteAccount ==
    ASSUME CInv, NEW s \in Sagas, Account(s), Execute(s)
    PROVE  Account(s)'
<1> USE DEF local
<1>1. CASE Begin(s)
  <2>1. place[s] = "launched" /\ place'[s] = "forward" /\ at'[s] = 1 /\ effect' = effect
    BY <1>1 DEF Begin, Goto, CInv, TypeOK
  <2>2. QED
    BY <2>1, SagaAssumption DEF Account, Steps
<1>2. CASE StepReturns(s)
  <2>1. place[s] = "forward" /\ place'[s] = "forward" /\ at'[s] = at[s] + 1
    BY <1>2 DEF StepReturns, CInv, TypeOK
  <2>2. at[s] \in Steps /\ at[s] \in Nat
    BY <1>2, Positions DEF StepReturns, CInv
  <2>3. /\ effect'[s][at[s]] = "done"
        /\ \A i \in Steps \ {at[s]} : effect'[s][i] = effect[s][i]
    BY <1>2, <2>2, MarkOne DEF StepReturns, CInv, Effects
  <2>4. QED
    BY <2>1, <2>2, <2>3, SagaAssumption DEF Account, Steps
<1>3. CASE StepFails(s)
  BY <1>3, FailAccount
<1>4. CASE NeverBegin(s) \/ ThrowError(s) \/ Succeed(s)
  <2>1. place'[s] \in {"success", "cancelled", "error"}
    BY <1>4 DEF NeverBegin, ThrowError, Succeed, Goto, CInv, TypeOK
  <2>2. QED
    BY <2>1 DEF Account
<1>5. CASE Fail(s)
  <2>1. /\ place[s] = "undoing" /\ place'[s] = "failure"
        /\ UNCHANGED <<at, errorSteps, compensated, effect>>
    BY <1>5 DEF Fail, Goto, CInv, TypeOK
  <2>2. QED
    BY <2>1 DEF Account, Books, UndoneSteps, StuckSteps
<1>6. ASSUME NEW i \in Steps, CompensationCancelled(s, i) PROVE Account(s)'
  <2>1. place'[s] = "cancelled"
    BY <1>6 DEF CompensationCancelled, Goto, CInv, TypeOK
  <2>2. QED
    BY <2>1 DEF Account
<1>7. QED
  BY <1>1, <1>2, <1>3, <1>4, <1>5, <1>6, TurnAccount DEF Execute

LEMMA NextAInv == CInv /\ AInv /\ [Next]_vars => AInv'
<1> SUFFICES ASSUME CInv, AInv, [Next]_vars, NEW t \in Sagas PROVE Account(t)'
  BY DEF AInv
<1>1. ASSUME NEW s \in Sagas, Execute(s) PROVE Account(t)'
  <2>1. CASE t = s
    BY <1>1, <2>1, ExecuteAccount DEF AInv
  <2>2. CASE t # s
    BY <1>1, <2>2, Frame DEF CInv, AInv, Account, Books, UndoneSteps, StuckSteps
  <2>3. QED
    BY <2>1, <2>2
<1>2. CASE Launch
  BY <1>2 DEF Launch, NoEffect, Account, AInv
<1>3. CASE Coordinate \/ CallerCancel \/ UNCHANGED vars
  <2>1. UNCHANGED <<place, local, effect>>
    BY <1>3 DEF Coordinate, Await, AwaitThrows, Return, Throw, CallerCancel, vars
  <2>2. QED
    BY <2>1 DEF local, AInv, Account, Books, UndoneSteps, StuckSteps
<1>4. QED
  BY <1>1, <1>2, <1>3 DEF Next

THEOREM AccountInvariant == Spec => []AInv
<1>1. Init => AInv
  BY DEF Init, NoEffect, AInv, Account
<1>2. QED
  BY <1>1, NextAInv, ControlInvariant, PTL DEF Spec

\* A SagaResult.Failure counts exactly the steps that were taken back and
\* lists exactly those whose compensation failed; it passes over a step only
\* where the configuration says to stop at an error, and there was one.
THEOREM FailureIsTold == Spec => []FailureTellsAll
<1>1. CInv /\ AInv => FailureTellsAll
  <2> SUFFICES ASSUME CInv, AInv, NEW s \in Sagas, place[s] = "failure"
               PROVE  /\ compensated[s] = Cardinality({i \in Steps : effect[s][i] = "undone"})
                      /\ errorSteps[s] = {i \in Steps : effect[s][i] = "stuck"}
                      /\ (\E i \in Steps : effect[s][i] = "done")
                             => s \notin Continuing /\ errorSteps[s] # {}
    BY DEF FailureTellsAll
  <2>1. Books(s) /\ at[s] = 0
    BY DEF AInv, Account, CInv, Control
  <2>2. QED
    BY <2>1, SagaAssumption DEF Books, UndoneSteps, StuckSteps, Steps
<1>2. QED
  BY <1>1, ControlInvariant, AccountInvariant, PTL

-----------------------------------------------------------------------------
(* The refinement *)

Running == {"idle", "launched", "forward", "undoing"}

LEMMA VerdictIs ==
    ASSUME NEW s \in Sagas, place[s] \in Places
    PROVE  /\ place[s] \in Running <=> verdict[s] = "open"
           /\ place[s] = "success" => verdict[s] = "committed"
           /\ place[s] = "failure" => verdict[s] = "aborted"
           /\ place[s] \in Thrown => verdict[s] = "abandoned"
  BY DEF verdict, Running, Places, Ended, Returned, Thrown

\* A saga that stays under way decides nothing.
LEMMA StaysOpen ==
    ASSUME TypeOK, TypeOK', NEW s \in Sagas, place[s] \in Running,
           place' = [place EXCEPT ![s] = place'[s]], place'[s] \in Running
    PROVE  verdict[s] = "open" /\ verdict' = verdict
<1>1. \A t \in Sagas : verdict'[t] = verdict[t]
  BY DEF TypeOK, verdict, Running, Thrown
<1>2. QED
  BY <1>1, VerdictIs DEF verdict, TypeOK

\* A saga that ends decides.
LEMMA Decides ==
    ASSUME TypeOK, TypeOK', NEW s \in Sagas, place[s] \in Running, NEW p \in Ended,
           place' = [place EXCEPT ![s] = p], effect' = effect
    PROVE  \E v \in {"committed", "aborted", "abandoned"} :
              /\ Outcome!Decide(s, v)
              /\ p = "success" => v = "committed"
              /\ p = "failure" => v = "aborted"
              /\ p \in Thrown => v = "abandoned"
<1>1. PICK v \in {"committed", "aborted", "abandoned"} :
          /\ p = "success" => v = "committed"
          /\ p = "failure" => v = "aborted"
          /\ p \in Thrown => v = "abandoned"
  BY DEF Ended, Returned, Thrown
<1>2. verdict[s] = "open"
  BY VerdictIs DEF TypeOK
<1>3. verdict'[s] = v
  <2>1. place'[s] = p
    BY DEF TypeOK
  <2>2. CASE p = "success"
    BY <1>1, <2>1, <2>2 DEF verdict
  <2>3. CASE p = "failure"
    BY <1>1, <2>1, <2>3 DEF verdict
  <2>4. CASE p \in Thrown
    BY <1>1, <2>1, <2>4 DEF verdict, Thrown
  <2>5. QED
    BY <2>2, <2>3, <2>4 DEF Ended, Returned
<1>4. \A t \in Sagas \ {s} : verdict'[t] = verdict[t]
  <2>1. \A t \in Sagas \ {s} : place'[t] = place[t]
    BY DEF TypeOK
  <2>2. QED
    BY <2>1 DEF verdict
<1>5. verdict' = [verdict EXCEPT ![s] = v]
  <2>1. /\ verdict = [t \in Sagas |-> verdict[t]]
        /\ verdict' = [t \in Sagas |-> verdict'[t]]
    BY DEF verdict
  <2>2. QED
    BY <1>3, <1>4, <2>1
<1>6. QED
  BY <1>1, <1>2, <1>5 DEF Outcome!Decide

\* Each step of a saga is one of its abstract counterpart, or none.
LEMMA ExecuteRefines ==
    ASSUME CInv, CInv', NEW s \in Sagas, Account(s), Account(s)', Execute(s)
    PROVE  Outcome!Next \/ UNCHANGED <<verdict, effect>>
<1> DEFINE Step == \/ \E i \in Steps : Outcome!Do(s, i) \/ Outcome!Undo(s, i)
                  \/ Outcome!Commit(s) \/ Outcome!Abort(s) \/ Outcome!Abandon(s)
<1> SUFFICES Step \/ UNCHANGED <<verdict, effect>>
  BY DEF Outcome!Next, Outcome!Steps, Steps
<1>t. TypeOK /\ TypeOK'
  BY DEF CInv
<1>1. CASE Begin(s)
  <2>1. place[s] \in Running /\ place' = [place EXCEPT ![s] = place'[s]]
        /\ place'[s] \in Running /\ effect' = effect
    BY <1>1, <1>t DEF Begin, Goto, Running, TypeOK
  <2>2. QED
    BY <1>t, <2>1, StaysOpen
<1>2. CASE NeverBegin(s) \/ ThrowError(s)
  <2>1. PICK p \in Thrown : place' = [place EXCEPT ![s] = p]
    BY <1>2 DEF NeverBegin, ThrowError, Goto, Thrown
  <2>2. place[s] \in Running /\ effect' = effect
    BY <1>2 DEF NeverBegin, ThrowError, Goto, Running
  <2>3. Outcome!Decide(s, "abandoned")
    BY <1>t, <2>1, <2>2, Decides DEF Ended
  <2>4. QED
    BY <2>3 DEF Outcome!Abandon
<1>3. CASE StepReturns(s)
  <2>1. at[s] \in Steps /\ place[s] = "forward" /\ place' = place
    BY <1>3, Positions DEF StepReturns, CInv
  <2>2. verdict[s] = "open" /\ verdict' = verdict
    BY <1>t, <2>1, StaysOpen DEF Running, TypeOK
  <2>3. /\ effect[s][at[s]] = "none"
        /\ \A j \in 1 .. (at[s] - 1) : effect[s][j] = "done"
    BY <2>1, SagaAssumption DEF Account, Steps
  <2>4. Outcome!Mark(s, at[s], "done")
    BY <1>3, <2>2 DEF StepReturns, Mark, Outcome!Mark
  <2>5. Outcome!Do(s, at[s])
    BY <2>3, <2>4 DEF Outcome!Do
  <2>6. QED
    BY <2>1, <2>5
<1>4. CASE StepFails(s)
  <2>1. at[s] \in Steps /\ place[s] = "forward"
    BY <1>4, Positions DEF StepFails, Goto, CInv
  <2>2. verdict[s] = "open" /\ verdict' = verdict
    BY <1>4, <1>t, StaysOpen DEF StepFails, Goto, Running, TypeOK
  <2>3. CASE Mark(s, at[s], "lost")
    <3>1. /\ effect[s][at[s]] = "none"
          /\ \A j \in 1 .. (at[s] - 1) : effect[s][j] = "done"
      BY <2>1, SagaAssumption DEF Account, Steps
    <3>2. Outcome!Mark(s, at[s], "lost")
      BY <2>2, <2>3 DEF Mark, Outcome!Mark
    <3>3. Outcome!Do(s, at[s])
      BY <3>1, <3>2 DEF Outcome!Do
    <3>4. QED
      BY <2>1, <3>3
  <2>4. QED
    BY <1>4, <2>2, <2>3 DEF StepFails
<1>5. CASE Succeed(s)
  <2>1. /\ place[s] = "forward" /\ at[s] > NumSteps
        /\ place' = [place EXCEPT ![s] = "success"] /\ effect' = effect
    BY <1>5 DEF Succeed, Goto
  <2>2. \A i \in Steps : effect[s][i] = "done"
    BY <2>1, SagaAssumption, Positions DEF Account, Steps, CInv
  <2>3. Outcome!Decide(s, "committed")
    BY <1>t, <2>1, Decides DEF Running, Ended, Returned
  <2>4. QED
    BY <2>2, <2>3 DEF Outcome!Commit, Outcome!Steps, Steps
<1>6. CASE Fail(s)
  <2>1. /\ place[s] = "undoing" /\ at[s] = 0
        /\ place' = [place EXCEPT ![s] = "failure"] /\ effect' = effect
    BY <1>6 DEF Fail, Goto
  <2>2. \/ \A i \in Steps : effect[s][i] # "done"
        \/ s \notin Continuing /\ \E i \in Steps : effect[s][i] = "stuck"
    BY <2>1, SagaAssumption DEF Account, Books, StuckSteps, Steps
  <2>3. Outcome!Decide(s, "aborted")
    BY <1>t, <2>1, Decides DEF Running, Ended, Returned
  <2>4. QED
    BY <2>2, <2>3 DEF Outcome!Abort, Outcome!Steps, Steps
<1>7. ASSUME NEW i \in Steps, CompensationCancelled(s, i)
      PROVE  Step
  <2>1. /\ place[s] = "undoing" /\ effect' = effect
        /\ place' = [place EXCEPT ![s] = "cancelled"]
    BY <1>7 DEF CompensationCancelled, Goto
  <2>2. place[s] \in Running /\ "cancelled" \in Ended /\ "cancelled" \in Thrown
    BY <2>1 DEF Running, Ended, Thrown
  <2>3. Outcome!Decide(s, "abandoned")
    BY <1>t, <2>1, <2>2, Decides
  <2>4. QED
    BY <2>3 DEF Outcome!Abandon
<1>8. ASSUME NEW i \in Steps,
             Skip(s, i) \/ CompensationReturns(s, i) \/ CompensationFails(s, i)
      PROVE  Step
  <2>1. Compensating(s, i) /\ place' = place
    BY <1>8 DEF Skip, CompensationReturns, CompensationFails
  <2>2. at[s] = i /\ i \in 1 .. NumSteps /\ NumSteps \in Nat /\ place[s] = "undoing"
        /\ Books(s)
    BY <2>1, Positions, SagaAssumption DEF CInv, Steps, Account
  <2>3. verdict[s] = "open" /\ verdict' = verdict
    BY <1>t, <2>1, <2>2, StaysOpen DEF Running, TypeOK
  <2>4. s \in Continuing \/ errorSteps[s] = {}
    BY <2>2 DEF Books
  <2>5. /\ effect[s][i] = "done"
        /\ \A j \in (i + 1) .. NumSteps : effect[s][j] # "done"
    <3>1. i <= at[s] /\ \A j \in (i + 1) .. NumSteps : j \in Steps /\ j > at[s]
      BY <2>2 DEF Steps
    <3>2. QED
      BY <2>2, <2>4, <3>1 DEF Books
  <2>6. s \in Continuing \/ \A j \in Steps : effect[s][j] # "stuck"
    BY <2>2, <2>4 DEF Books, StuckSteps
  <2>7. IF i \in Compensable THEN Mark(s, i, "undone") \/ Mark(s, i, "stuck")
                             ELSE Mark(s, i, "kept")
    BY <1>8 DEF Skip, CompensationReturns, CompensationFails
  <2>8. Outcome!Undo(s, i)
    BY <2>3, <2>5, <2>6, <2>7 DEF Outcome!Undo, Outcome!Mark, Mark, Outcome!Steps, Steps
  <2>9. QED
    BY <2>8
<1>9. QED
  BY <1>1, <1>2, <1>3, <1>4, <1>5, <1>6, <1>7, <1>8 DEF Execute

LEMMA NextRefines ==
    ASSUME CInv, CInv', AInv, AInv', [Next]_vars
    PROVE  [Outcome!Next]_<<verdict, effect>>
<1>1. ASSUME NEW s \in Sagas, Execute(s)
      PROVE  Outcome!Next \/ UNCHANGED <<verdict, effect>>
  BY <1>1, ExecuteRefines DEF AInv
<1>2. CASE Launch
  <2>1. /\ scope \in {"idle", "returned", "threw"}
        /\ place' = [s \in Sagas |-> "launched"] /\ effect' = NoEffect
    BY <1>2 DEF Launch
  <2>2. verdict' = [s \in Sagas |-> "open"]
    BY <2>1 DEF verdict, Thrown
  <2>3. CASE scope = "idle"
    <3>1. \A s \in Sagas : place[s] = "idle"
      BY <2>3 DEF CInv, Joined
    <3>2. verdict = [s \in Sagas |-> "open"]
      BY <3>1 DEF verdict, Thrown
    <3>3. \A s \in Sagas : \A i \in Steps : effect[s][i] = "none"
      BY <3>1 DEF AInv, Account
    <3>4. effect = NoEffect
      BY <3>3 DEF CInv, TypeOK, NoEffect
    <3>5. QED
      BY <2>1, <2>2, <3>2, <3>4
  <2>4. CASE scope # "idle"
    <3>1. \A s \in Sagas : place[s] \in Ended
      BY <2>1, <2>4 DEF CInv, NoneLeftRunning, Ended
    <3>2. \A s \in Sagas : verdict[s] # "open"
      BY <3>1 DEF verdict, Ended, Returned, Thrown
    <3>3. Outcome!Fresh'
      BY <2>1, <2>2 DEF Outcome!Fresh, NoEffect, Outcome!Steps, Steps
    <3>4. QED
      BY <3>2, <3>3 DEF Outcome!Next, Outcome!Again
  <2>5. QED
    BY <2>3, <2>4
<1>3. CASE Coordinate \/ CallerCancel \/ UNCHANGED vars
  <2>1. UNCHANGED <<place, effect>>
    BY <1>3 DEF Coordinate, Await, AwaitThrows, Return, Throw, CallerCancel, vars
  <2>2. QED
    BY <2>1 DEF verdict
<1>4. QED
  BY <1>1, <1>2, <1>3 DEF Next

\* A saga does its steps in their order; then it keeps all of them, or takes
\* them back one by one in the reverse order, never twice and never a step
\* that did not happen, unless it is abandoned.
THEOREM SagaIsBackout == Spec => ImplementsBackout
<1>1. Init => Outcome!Fresh
  BY DEF Init, NoEffect, Outcome!Fresh, Outcome!Steps, Steps, verdict, Thrown
<1>2. QED
  BY <1>1, NextRefines, ControlInvariant, AccountInvariant, PTL
  DEF Spec, ImplementsBackout, Outcome!Spec

-----------------------------------------------------------------------------
(* executeAll and its scope *)

\* What has become of a saga, by where its coroutine is.
LEMMA JobIs ==
    ASSUME TypeOK, NEW s \in Sagas
    PROVE  /\ place[s] \in Running => job[s] = "pending"
           /\ place[s] \in Returned => job[s] = "answered"
           /\ place[s] = "error" => job[s] = "failed"
           /\ place[s] = "cancelled" => job[s] = "stopped"
           /\ place[s] \in Running \cup Ended
  BY DEF TypeOK, job, Running, Places, Ended, Returned, Thrown

\* A saga moves only while executeAll is under way.
LEMMA UnderWay ==
    ASSUME CInv, NEW s \in Sagas, place[s] \notin Ended \cup {"idle"}
    PROVE  state = "open"
  BY DEF CInv, TypeOK, Joined, NoneLeftRunning, Ended, state

\* A step of a saga ends its job, or is none of the scope's business.
LEMMA ExecuteInScope ==
    ASSUME CInv, CInv', NEW s \in Sagas, Execute(s)
    PROVE  SagaScope!End(s) \/ UNCHANGED <<job, state>>
<1>1. TypeOK /\ TypeOK' /\ place[s] \notin Ended \cup {"idle"} /\ scope' = scope
  BY Moving DEF CInv, caller
<1>2. state = "open" /\ state' = state
  BY <1>1, UnderWay DEF state
<1>3. job[s] = "pending"
  BY <1>1, JobIs
<1>4. \A t \in Sagas \ {s} : job'[t] = job[t]
  BY <1>1, Frame DEF job
<1>5. job = [t \in Sagas |-> job[t]] /\ job' = [t \in Sagas |-> job'[t]]
  BY DEF job
<1>6. job' = [job EXCEPT ![s] = job'[s]]
  BY <1>4, <1>5
<1>7. job'[s] \in {"pending", "answered", "failed", "stopped"}
  BY <1>1 DEF job
<1>8. CASE job'[s] = "pending"
  <2>1. job' = job
    BY <1>3, <1>5, <1>6, <1>8
  <2>2. QED
    BY <1>2, <2>1
<1>9. CASE job'[s] # "pending"
  BY <1>2, <1>3, <1>6, <1>7, <1>9 DEF SagaScope!End
<1>10. QED
  BY <1>8, <1>9

LEMMA NextInScope ==
    ASSUME CInv, CInv', [Next]_vars
    PROVE  [SagaScope!Next]_<<job, state>>
<1>t. TypeOK /\ TypeOK'
  BY DEF CInv
<1>1. ASSUME NEW s \in Sagas, Execute(s)
      PROVE  SagaScope!Next \/ UNCHANGED <<job, state>>
  BY <1>1, ExecuteInScope DEF SagaScope!Next
<1>2. CASE Launch
  <2>1. state # "open" /\ state' = "open"
    BY <1>2 DEF Launch, state
  <2>2. job' = [s \in Sagas |-> "pending"]
    <3>1. \A s \in Sagas : place'[s] = "launched"
      BY <1>2 DEF Launch
    <3>2. \A s \in Sagas : job'[s] = "pending"
      BY <3>1 DEF job, Returned
    <3>3. QED
      BY <3>2 DEF job
  <2>3. QED
    BY <2>1, <2>2 DEF SagaScope!Next, SagaScope!Open, SagaScope!Pending
<1>3. CASE Return
  <2>1. /\ scope = "awaiting" /\ awaited = NumSagas /\ scope' = "returned"
        /\ place' = place
    BY <1>3 DEF Return
  <2>2. state = "open" /\ state' = "returned" /\ job' = job
    BY <2>1 DEF state, job
  <2>3. \A s \in Sagas : job[s] = "answered"
    BY <1>t, <2>1, JobIs DEF CInv, Joined, Sagas
  <2>4. SagaScope!AllEnded /\ SagaScope!Failed = {} /\ SagaScope!Answered = Sagas
    BY <2>3 DEF SagaScope!AllEnded, SagaScope!Failed, SagaScope!Answered
  <2>5. QED
    BY <2>2, <2>4 DEF SagaScope!Next, SagaScope!Return
<1>4. CASE Throw
  <2>1. /\ scope = "joining" /\ scope' = "threw" /\ place' = place
        /\ \A s \in Sagas : place[s] \in Ended
    BY <1>4 DEF Throw
  <2>2. state = "open" /\ state' = "threw" /\ job' = job
    BY <2>1 DEF state, job
  <2>3. \A s \in Sagas : job[s] # "pending"
    BY <1>t, <2>1, JobIs DEF Ended, Thrown
  <2>4. QED
    BY <2>2, <2>3 DEF SagaScope!Next, SagaScope!Throw, SagaScope!AllEnded
<1>5. CASE Await \/ AwaitThrows \/ CallerCancel \/ UNCHANGED vars
  <2>1. place' = place
    BY <1>5 DEF Await, AwaitThrows, CallerCancel, vars
  <2>2. job' = job
    BY <2>1 DEF job
  <2>3. state' = state
    <3>1. CASE AwaitThrows
      BY <3>1 DEF AwaitThrows, state
    <3>2. CASE Await \/ CallerCancel \/ UNCHANGED vars
      <4>1. scope' = scope
        BY <3>2 DEF Await, CallerCancel, caller, vars
      <4>2. QED
        BY <4>1 DEF state
    <3>3. QED
      BY <1>5, <3>1, <3>2
  <2>4. QED
    BY <2>2, <2>3
<1>6. QED
  BY <1>1, <1>2, <1>3, <1>4, <1>5 DEF Next, Coordinate

\* executeAll of the coordinator is a scope over its sagas: it ends only when all of
\* them have, whoever cancelled it, none of them runs on until it is called again, and
\* it returns only with the result of every saga.
THEOREM CoordinatorIsScope == Spec => ImplementsScope
<1>1. Init => SagaScope!Init
  BY DEF Init, SagaScope!Init, SagaScope!Pending, job, state, Returned
<1>2. QED
  BY <1>1, NextInScope, ControlInvariant, PTL DEF Spec, ImplementsScope, SagaScope!Spec

-----------------------------------------------------------------------------
(* What continueOnCompensationFailure promises *)

\* As long as the scope is not cancelled, a saga that has ended without success has no
\* step left that happened and that nobody tried to take back, or has passed over.
CompensatesAll ==
    \A s \in Continuing : place[s] \in Ended \ {"success"} /\ cancelled = "no" =>
        \A i \in Steps : effect[s][i] # "done"

\* Where no compensation throws a CancellationException of its own, a saga with
\* continueOnCompensationFailure does what is documented, whatever fails: it stops
\* compensating only when its scope is cancelled.
THEOREM RemainingAreCompensated ==
    ASSUME ~ CompensationCancels
    PROVE  Spec => [](CompensatesAll /\ CompensatesRemaining)
<1> DEFINE ByScope == cancelled = "no" => \A s \in Sagas : place[s] \notin Thrown
<1>1. Init => ByScope
  BY DEF Init, Thrown
<1>2. ASSUME CInv, ByScope, [Next]_vars PROVE ByScope'
  <2>t. TypeOK
    BY <1>2 DEF CInv
  <2>1. ASSUME NEW s \in Sagas, Execute(s) PROVE ByScope'
    <3>1. cancelled' = "no" => cancelled = "no"
      BY <2>1 DEF Execute, Begin, NeverBegin, StepReturns, StepFails, ThrowError, Succeed,
         Fail, Skip, CompensationReturns, CompensationFails, CompensationCancelled
    <3>2. cancelled' = "no" => place'[s] \notin Thrown \/ place'[s] = place[s]
      BY <2>t, <2>1 DEF TypeOK, Execute, Begin, NeverBegin, StepReturns, StepFails,
         ThrowError, Succeed, Fail, Skip, CompensationReturns, CompensationFails,
         CompensationCancelled, Goto, Thrown
    <3>3. \A t \in Sagas \ {s} : place'[t] = place[t]
      BY <2>t, <2>1, Frame
    <3>4. QED
      BY <1>2, <3>1, <3>2, <3>3
  <2>2. CASE Launch
    BY <2>2 DEF Launch, Thrown
  <2>3. CASE Coordinate \/ CallerCancel \/ UNCHANGED vars
    <3>1. place' = place /\ (cancelled' = "no" => cancelled = "no")
      BY <2>3 DEF Coordinate, Await, AwaitThrows, Return, Throw, CallerCancel, vars
    <3>2. QED
      BY <1>2, <3>1
  <2>4. QED
    BY <1>2, <2>1, <2>2, <2>3 DEF Next
<1>3. ByScope /\ FailureTellsAll => CompensatesAll /\ CompensatesRemaining
  <2> SUFFICES ASSUME ByScope, FailureTellsAll
               PROVE  CompensatesAll /\ CompensatesRemaining
    OBVIOUS
  <2>1. \A s \in Continuing : s \in Sagas
    BY SagaAssumption DEF Sagas
  <2>2. CompensatesAll
    BY <2>1 DEF CompensatesAll, FailureTellsAll, Ended, Returned
  <2>3. CompensatesRemaining
    BY <2>1 DEF CompensatesRemaining, Thrown
  <2>4. QED
    BY <2>2, <2>3
<1>4. QED
  BY <1>1, <1>2, <1>3, ControlInvariant, FailureIsTold, PTL DEF Spec
=============================================================================
