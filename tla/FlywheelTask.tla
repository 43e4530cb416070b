---------------------------- MODULE FlywheelTask ----------------------------
(***************************************************************************)
(* What a flywheel task promises the client that polls it.  Every request  *)
(* the API answers with 202 returns the ID of a task; the client then      *)
(* reads the status of that task until it is final.  The promise is that a *)
(* final status tells the truth about the orchestration behind it: it is   *)
(* recorded only once the orchestration has ended, it says how it ended,   *)
(* and it never changes again.                                             *)
(*                                                                         *)
(* TaskTracker refines this module.  In the other modules the trackers act  *)
(* as they do here, but the orchestrations only hand over how they ended:  *)
(* that they keep the promise is proved of them.                           *)
(***************************************************************************)
CONSTANT Tasks      \* the IDs flywheel.NewTask() hands out

VARIABLES
    status,         \* what the task's record says: "none" until it is written
    outcome         \* how the orchestration behind the task ended, if it has

vars == <<status, outcome>>

Status == {"none", "running", "completed", "failed"}
Outcome == {"pending", "ok", "error"}
Final == {"completed", "failed"}

TypeOK ==
    /\ status \in [Tasks -> Status]
    /\ outcome \in [Tasks -> Outcome]

Init ==
    /\ status = [t \in Tasks |-> "none"]
    /\ outcome = [t \in Tasks |-> "pending"]

(* The status that tells the truth about an outcome. *)
Truth(o) == IF o = "ok" THEN "completed" ELSE "failed"

-----------------------------------------------------------------------------
(* The record of the task is written for the first time. *)
Start(t) ==
    /\ status[t] = "none"
    /\ status' = [status EXCEPT ![t] = "running"]
    /\ UNCHANGED outcome

(* How the orchestration ended is handed over: an error goes into errChan, *)
(* a return without one closes it.  Nothing here looks whether it had      *)
(* ended before.                                                           *)
HandOver(t, o) ==
    /\ outcome' = [outcome EXCEPT ![t] = o]
    /\ UNCHANGED status

(* The orchestration ends, with or without an error, and ends once. *)
Conclude(t, o) == outcome[t] = "pending" /\ HandOver(t, o)

(* The outcome is recorded.  It is when the record was never started, too: *)
(* the writer of the outcome does not look.                                *)
Record(t) ==
    /\ status[t] \notin Final
    /\ outcome[t] # "pending"
    /\ status' = [status EXCEPT ![t] = Truth(outcome[t])]
    /\ UNCHANGED outcome

Next ==
    \E t \in Tasks :
        \/ Start(t)
        \/ \E o \in {"ok", "error"} : Conclude(t, o)
        \/ Record(t)

Spec == Init /\ [][Next]_vars

-----------------------------------------------------------------------------
(* A final status was recorded after the orchestration ended, and says how *)
(* it ended.                                                               *)
StatusIsTruth ==
    \A t \in Tasks : status[t] \in Final =>
        /\ outcome[t] # "pending"
        /\ status[t] = Truth(outcome[t])

(* A final status never changes again: the client may stop polling.        *)
FinalStatusStays ==
    [][\A t \in Tasks : status[t] \in Final => status'[t] = status[t]]_vars
=============================================================================
