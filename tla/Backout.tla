------------------------------ MODULE Backout ------------------------------
(***************************************************************************)
(* What a saga promises: its steps take effect one after the other; then   *)
(* either all of them stay, or they are taken back one after the other, in *)
(* reverse order, and what could not be taken back is known.  Several      *)
(* sagas are under way at a time, and may be executed again.  A saga that  *)
(* is abandoned promises nothing about the steps that have taken effect.   *)
(* Saga implements this specification.                                     *)
(***************************************************************************)
EXTENDS Naturals

CONSTANTS Sagas,        \* the sagas
          NumSteps,     \* the number of steps of each
          Compensable,  \* the steps that have a compensation
          Continuing    \* the sagas that go on after a compensation failed

VARIABLES
    verdict,  \* verdict[s]: what has become of saga s
    effect    \* effect[s][i]: what has become of its step i

Steps    == 1 .. NumSteps
Effects  == {"none", "done", "lost", "undone", "kept", "stuck"}
Verdicts == {"open", "committed", "aborted", "abandoned"}

Fresh == /\ verdict = [s \in Sagas |-> "open"]
         /\ effect = [s \in Sagas |-> [i \in Steps |-> "none"]]

Mark(s, i, e) ==
    /\ verdict[s] = "open"
    /\ effect' = [effect EXCEPT ![s][i] = e]
    /\ UNCHANGED verdict

Decide(s, v) ==
    /\ verdict[s] = "open"
    /\ verdict' = [verdict EXCEPT ![s] = v]
    /\ UNCHANGED effect

\* The next step takes effect; "lost" if the saga never learns that it did.
Do(s, i) ==
    /\ effect[s][i] = "none"
    /\ \A j \in 1 .. (i - 1) : effect[s][j] = "done"
    /\ Mark(s, i, "done") \/ Mark(s, i, "lost")

\* The last effect that stands is taken back, or known to stay.
Undo(s, i) ==
    /\ effect[s][i] = "done"
    /\ \A j \in (i + 1) .. NumSteps : effect[s][j] # "done"
    /\ s \in Continuing \/ \A j \in Steps : effect[s][j] # "stuck"
    /\ IF i \in Compensable
       THEN Mark(s, i, "undone") \/ Mark(s, i, "stuck")
       ELSE Mark(s, i, "kept")

Commit(s) ==
    /\ \A i \in Steps : effect[s][i] = "done"
    /\ Decide(s, "committed")

Abort(s) ==
    /\ \/ \A i \in Steps : effect[s][i] # "done"
       \/ s \notin Continuing /\ \E i \in Steps : effect[s][i] = "stuck"
    /\ Decide(s, "aborted")

Abandon(s) == Decide(s, "abandoned")

\* All sagas are executed again.
Again ==
    /\ \A s \in Sagas : verdict[s] # "open"
    /\ Fresh'

Next ==
    \/ \E s \in Sagas :
          \/ \E i \in Steps : Do(s, i) \/ Undo(s, i)
          \/ Commit(s) \/ Abort(s) \/ Abandon(s)
    \/ Again

Spec == Fresh /\ [][Next]_<<verdict, effect>>
=============================================================================
