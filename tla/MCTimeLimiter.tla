--------------------------- MODULE MCTimeLimiter ---------------------------
(***************************************************************************)
(* One instance of TimeLimiter, ExecuteAll and ExecuteRace for TLC.  What  *)
(* the client does is chosen at the start: it makes a call with another    *)
(* one in its block, or with two, or it uses executeAll, or executeRace.   *)
(* These have nothing in common but the counters.                          *)
(***************************************************************************)
EXTENDS ExecuteAll, ExecuteRace

CONSTANTS c1, c2, c3, c4, c5

VARIABLE task

taskVars == <<allVars, raceVars, task>>

\* c2 and c3 are called in the block of c1, one after the other; executeAll makes c4, c5.
\* Two calls use all there is; three use less of it.
Nested == [x \in {c1, c2, c3, c4, c5} |-> IF x \in {c2, c3} THEN {c1} ELSE {}]
List   == <<c4, c5>>
Single == IF task = "two" THEN {c1, c2} ELSE {c1, c2, c3}

TaskInit ==
    /\ task \in {"two", "three", "executeAll", "executeRace"}
    /\ AllInit
    /\ RaceInit
    /\ op[c3] = "execute" /\ retries[c3] = 0
    /\ retries[c1] + retries[c2] <= 1
    /\ task = "three" =>
        /\ op[c1] \in {"execute", "executeOrNull"} /\ retries[c1] = 0
        /\ op[c2] = "executeOrNull"
    /\ task \in {"executeAll", "executeRace"} =>
        \A x \in {c1, c2} : op[x] = "execute" /\ retries[x] = 0

InCall(A) == task \in {"two", "three"} /\ A /\ UNCHANGED <<scopeVars, raceVars, task>>
InAll(A)  == task = "executeAll" /\ A /\ UNCHANGED <<raceVars, task>>
InRace(A) == task = "executeRace" /\ A /\ UNCHANGED <<allVars, task>>

TaskNext ==
    \/ \E x \in Single : InCall(Step(x))
    \/ task = "two" /\ InCall(ResetStatistics)
    \/ InAll(AllNext)
    \/ InRace(RaceNext)

TaskGoesOn ==
    \/ InCall(\E x \in Single : GoOn(x))
    \/ InAll(AllGoesOn)
    \/ InRace(RaceGoesOn)

TaskSpec == TaskInit /\ [][TaskNext]_taskVars /\ WF_taskVars(TaskGoesOn)

\* A time limit ends every call, with its retries and the calls in its block, every
\* executeAll and every race, although no block ends by itself.
TasksEnd ==
    []<>(/\ \A x \in Call : ~InAttempt(x)
         /\ task = "executeAll" => scope # "open"
         /\ task = "executeRace" => result # "pending")
=============================================================================
