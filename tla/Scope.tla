------------------------------- MODULE Scope -------------------------------
(***************************************************************************)
(* The promise of a coordinator that runs jobs in a scope of its own: it   *)
(* ends when all of its jobs have, and never before; it returns only with  *)
(* enough answers, and not over the failure of a job.  When it throws is   *)
(* left open.  After its end nothing runs on, until it is called again.    *)
(***************************************************************************)
CONSTANTS
    Jobs,   \* what the coordinator runs
    Enough  \* the sets of jobs whose answers suffice for a return

VARIABLES
    job,    \* what has become of each job
    state   \* "none", "open", or how the coordinator has ended

Pending  == job = [j \in Jobs |-> "pending"]
AllEnded == \A j \in Jobs : job[j] # "pending"
Answered == {j \in Jobs : job[j] = "answered"}
Failed   == {j \in Jobs : job[j] = "failed"}

Init == Pending /\ state \in {"none", "open"}

Open ==
    /\ state # "open"
    /\ state' = "open"
    /\ Pending'

End(j) ==
    /\ state = "open"
    /\ job[j] = "pending"
    /\ \E how \in {"answered", "failed", "stopped"} : job' = [job EXCEPT ![j] = how]
    /\ UNCHANGED state

Return ==
    /\ state = "open"
    /\ AllEnded /\ Failed = {} /\ Answered \in Enough
    /\ state' = "returned"
    /\ UNCHANGED job

Throw ==
    /\ state = "open"
    /\ AllEnded
    /\ state' = "threw"
    /\ UNCHANGED job

Next == Open \/ Return \/ Throw \/ \E j \in Jobs : End(j)

Spec == Init /\ [][Next]_<<job, state>>
=============================================================================
