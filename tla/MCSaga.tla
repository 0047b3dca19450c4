------------------------------- MODULE MCSaga -------------------------------
(* Instances of Saga for TLC. *)
EXTENDS Saga

\* The steps with a compensation, and the sagas that go on after an error.
\* The last step is never compensated: when it is done, so is the saga.
FirstAndThird == {1, 3}
FirstSaga    == {1}
AllSteps     == 1 .. NumSteps
=============================================================================
