---------------------------- MODULE TaskTracker -----------------------------
(***************************************************************************)
(* startTask of api/orchestration_filesystem.go and the protocol every     *)
(* orchestration follows with it.                                          *)
(*                                                                         *)
(* An orchestration is a goroutine (the worker): it creates a context,     *)
(* defers its cancel, calls startTask with it and gets two unbuffered      *)
(* channels.  startTask leaves a goroutine behind (the tracker) that       *)
(* writes the task's record in redis, then serves whichever comes first: a *)
(* message to log, an error to record as the failure of the task, or the   *)
(* end of the worker's context, recorded as its completion.  The worker's  *)
(* context ends however the worker ends; what keeps a failed task from     *)
(* being marked complete is only that the tracker has already left.        *)
(***************************************************************************)
EXTENDS Naturals

CONSTANTS
    Tasks,          \* one worker and one tracker for each
    MaxMessages,    \* bound: messages one worker sends
    LossyTasks,     \* the tasks whose writes to redis may fail
    MayCrash        \* whether the server process may die and be restarted

ASSUME MaxMessagesAssumption == MaxMessages \in Nat
ASSUME FaultAssumption == LossyTasks \subseteq Tasks /\ MayCrash \in BOOLEAN

VARIABLES
    worker,         \* where the orchestration's goroutine is
    tracker,        \* where the goroutine of startTask is
    status,         \* the status in the task's redis record
    sent            \* messages the worker has handed over or is handing over

vars == <<worker, tracker, status, sent>>

(* "msg" and "err" are blocked sends on msgChan and errChan; "unwind" is   *)
(* after the error was handed over, while the deferred calls run; in       *)
(* "failed" and "returned" the deferred cancel() has run; "lost" died with *)
(* the process before it could report anything.                            *)
Worker == {"idle", "work", "msg", "err", "unwind", "failed", "returned", "lost"}

Tracker == {"idle", "start", "select", "log", "fail", "complete", "done", "lost"}

Status == {"none", "running", "completed", "failed"}
Final == {"completed", "failed"}

(* Mutants: the context ends only after an error; it is the context of the *)
(* request, which ends with the answer.                                    *)
CancelledOnError(t) == worker[t] = "failed"
CancelledByRequest(t) == worker[t] # "idle"

(* The worker's context is done: its deferred cancel() was called. *)
Cancelled(t) == worker[t] \in {"failed", "returned"}

TypeOK ==
    /\ worker \in [Tasks -> Worker]
    /\ tracker \in [Tasks -> Tracker]
    /\ status \in [Tasks -> Status]
    /\ sent \in [Tasks -> 0 .. MaxMessages]

Init ==
    /\ worker = [t \in Tasks |-> "idle"]
    /\ tracker = [t \in Tasks |-> "idle"]
    /\ status = [t \in Tasks |-> "none"]
    /\ sent = [t \in Tasks |-> 0]

Work(t, from, to) == worker[t] = from /\ worker' = [worker EXCEPT ![t] = to]
Track(t, from, to) == tracker[t] = from /\ tracker' = [tracker EXCEPT ![t] = to]

(* A write of the record's status.  A failed write is logged and goes      *)
(* unnoticed otherwise; an update of a record that was never written may   *)
(* be refused by the manager, too.                                         *)
Write(t, s) ==
    \/ status' = [status EXCEPT ![t] = s]
    \/ (t \in LossyTasks \/ (s # "running" /\ status[t] = "none")) /\ UNCHANGED status

-----------------------------------------------------------------------------
(* The worker calls startTask. *)
StartTask(t) ==
    /\ Work(t, "idle", "work")
    /\ Track(t, "idle", "start")
    /\ UNCHANGED <<status, sent>>

(* The tracker writes the record: flywheel.Start. *)
FlywheelStart(t) ==
    /\ Track(t, "start", "select")
    /\ Write(t, "running")
    /\ UNCHANGED <<worker, sent>>

(* msgChan <- msg: the worker waits for the tracker. *)
SendMessage(t) ==
    /\ sent[t] < MaxMessages
    /\ Work(t, "work", "msg")
    /\ sent' = [sent EXCEPT ![t] = @ + 1]
    /\ UNCHANGED <<tracker, status>>

(* errChan <- err: the worker waits for the tracker. *)
ReportError(t) ==
    /\ Work(t, "work", "err")
    /\ UNCHANGED <<tracker, status, sent>>

(* The worker returns without an error and its context is cancelled. *)
Return(t) ==
    /\ Work(t, "work", "returned")
    /\ UNCHANGED <<tracker, status, sent>>

(* The deferred calls of a worker that reported an error are done: the     *)
(* rollback, then cancel().                                                *)
Unwind(t) ==
    /\ Work(t, "unwind", "failed")
    /\ UNCHANGED <<tracker, status, sent>>

ReceiveMessage(t) ==
    /\ Track(t, "select", "log")
    /\ Work(t, "msg", "work")
    /\ UNCHANGED <<status, sent>>

(* Mutant: the tracker returns when the message cannot be logged. *)
LogOrLeave(t) ==
    /\ Track(t, "log", "select") \/ (t \in LossyTasks /\ Track(t, "log", "done"))
    /\ UNCHANGED <<worker, status, sent>>

(* flywheel.CheckIn and flywheel.Log: the status of the record stays. *)
LogMessage(t) ==
    /\ Track(t, "log", "select")
    /\ UNCHANGED <<worker, status, sent>>

ReceiveError(t) ==
    /\ Track(t, "select", "fail")
    /\ Work(t, "err", "unwind")
    /\ UNCHANGED <<status, sent>>

(* Mutant: the tracker goes on after it has recorded the failure. *)
FailAndGoOn(t) ==
    /\ Track(t, "fail", "select")
    /\ Write(t, "failed")
    /\ UNCHANGED <<worker, sent>>

(* flywheel.Fail, and the tracker returns. *)
FlywheelFail(t) ==
    /\ Track(t, "fail", "done")
    /\ Write(t, "failed")
    /\ UNCHANGED <<worker, sent>>

ContextDone(t) ==
    /\ Cancelled(t)
    /\ Track(t, "select", "complete")
    /\ UNCHANGED <<worker, status, sent>>

(* Mutant: the tracker returns without recording the completion. *)
LeaveUnrecorded(t) ==
    /\ Track(t, "complete", "done")
    /\ UNCHANGED <<worker, status, sent>>

(* flywheel.Complete, and the tracker returns. *)
FlywheelComplete(t) ==
    /\ Track(t, "complete", "done")
    /\ Write(t, "completed")
    /\ UNCHANGED <<worker, sent>>

(* The server dies: every goroutine is gone, the records stay, and the     *)
(* next server knows nothing of the tasks of this one.                     *)
Crash ==
    /\ MayCrash
    /\ \E t \in Tasks : tracker[t] \notin {"idle", "done", "lost"}
    /\ worker' = [t \in Tasks |->
          IF worker[t] \in {"work", "msg", "err"} THEN "lost"
          ELSE IF worker[t] = "unwind" THEN "failed" ELSE worker[t]]
    /\ tracker' = [t \in Tasks |->
          IF tracker[t] \in {"idle", "done"} THEN tracker[t] ELSE "lost"]
    /\ UNCHANGED <<status, sent>>

WorkerStep(t) == SendMessage(t) \/ ReportError(t) \/ Return(t) \/ Unwind(t)

TrackerStep(t) ==
    \/ FlywheelStart(t)
    \/ ReceiveMessage(t)
    \/ LogMessage(t)
    \/ ReceiveError(t)
    \/ FlywheelFail(t)
    \/ ContextDone(t)
    \/ FlywheelComplete(t)

Next ==
    \/ \E t \in Tasks : StartTask(t) \/ WorkerStep(t) \/ TrackerStep(t)
    \/ Crash

(* The Go scheduler runs every goroutine that can go on, a write to redis  *)
(* returns, and an orchestration is finite: all of its waits are bounded   *)
(* by retry and by the rollback's timeout.                                 *)
Fairness ==
    \A t \in Tasks : WF_vars(WorkerStep(t)) /\ WF_vars(TrackerStep(t))

Spec == Init /\ [][Next]_vars

FairSpec == Spec /\ Fairness

-----------------------------------------------------------------------------
(* A worker blocked in a send has a tracker that is alive and will come    *)
(* back to its select: no orchestration hangs on its own bookkeeping.      *)
NoStuckSender ==
    \A t \in Tasks : worker[t] \in {"msg", "err"} =>
        tracker[t] \in {"start", "select", "log"}

(* A record says completed only for a worker that returned without an      *)
(* error, although the context of a failed worker is cancelled as well,    *)
(* and failed only for one that handed over an error.                      *)
StatusMatchesOutcome ==
    \A t \in Tasks :
        /\ status[t] = "completed" => worker[t] = "returned"
        /\ status[t] = "failed" => worker[t] \in {"unwind", "failed"}

(* The invariant that implies the two above: what each place of the        *)
(* tracker says of its worker and of the record, and the reverse.          *)
Protocol ==
    \A t \in Tasks :
        /\ tracker[t] = "idle" <=> worker[t] = "idle"
        /\ tracker[t] \in {"idle", "start"} => status[t] = "none"
        /\ tracker[t] \in {"select", "log", "fail", "complete"} =>
              status[t] \in {"none", "running"}
        /\ tracker[t] = "log" => worker[t] \notin {"unwind", "failed", "lost"}
        /\ worker[t] \in {"work", "msg", "err"} =>
              tracker[t] \in {"start", "select", "log"}
        /\ tracker[t] = "fail" => worker[t] \in {"unwind", "failed"}
        /\ worker[t] = "unwind" => tracker[t] \in {"fail", "done"}
        /\ worker[t] = "failed" => tracker[t] \in {"fail", "done", "lost"}
        /\ worker[t] = "lost" => tracker[t] = "lost"
        /\ tracker[t] = "complete" => worker[t] = "returned"
        /\ tracker[t] = "lost" => worker[t] \in {"failed", "returned", "lost"}

IInv == TypeOK /\ Protocol /\ StatusMatchesOutcome

(* Once a record is final it stays as it is: what a client that polled it  *)
(* was told is not taken back.                                             *)
FinalStatusStays ==
    [][\A t \in Tasks : status[t] \in Final => status'[t] = status[t]]_vars

(* A tracker that was started ends: with its worker, or with the process.  *)
TrackerEnds ==
    \A t \in Tasks : worker[t] = "work" ~> tracker[t] \in {"done", "lost"}

(* As long as redis takes what is written of it and the process lives, the *)
(* record of a task that was started becomes final, whatever redis does to *)
(* the other tasks.                                                        *)
StatusSettles ==
    \A t \in Tasks \ LossyTasks :
        worker[t] = "work" ~> status[t] \in Final \/ tracker[t] = "lost"

-----------------------------------------------------------------------------
(* What a client is promised: how a worker ended, as far as its task may   *)
(* tell.                                                                   *)
OutcomeOf(t) ==
    IF worker[t] \in {"unwind", "failed"} THEN "error"
    ELSE IF worker[t] = "returned" THEN "ok" ELSE "pending"

outcome == [t \in Tasks |-> OutcomeOf(t)]

Abstract == INSTANCE FlywheelTask

(* The tracker protocol keeps the promise of FlywheelTask. *)
KeepsPromise == Abstract!Spec
=============================================================================
