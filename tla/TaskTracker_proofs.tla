------------------------- MODULE TaskTracker_proofs --------------------------
(***************************************************************************)
(* Proofs about TaskTracker, for any set of tasks, any bound on the        *)
(* messages, and with or without redis failures and crashes.  One          *)
(* inductive invariant, IInv, carries all of them.                         *)
(***************************************************************************)
EXTENDS TaskTracker, TLAPS

USE MaxMessagesAssumption, FaultAssumption

(* Every task is untouched at first. *)
LEMMA InitIInv == Init => IInv
  BY DEF Init, IInv, TypeOK, Protocol, StatusMatchesOutcome, Worker, Tracker, Status

(* No step of a worker, of a tracker or of the environment breaks IInv.    *)
LEMMA NextIInv == IInv /\ [Next]_vars => IInv'
<1> SUFFICES ASSUME IInv, [Next]_vars PROVE IInv'
  OBVIOUS
<1> USE DEF IInv, TypeOK, Protocol, StatusMatchesOutcome, Worker, Tracker, Status
<1>1. CASE UNCHANGED vars
  BY <1>1 DEF vars
<1>2. ASSUME NEW t \in Tasks, StartTask(t) PROVE IInv'
  BY <1>2 DEF StartTask, Work, Track
<1>3. ASSUME NEW t \in Tasks, WorkerStep(t) PROVE IInv'
  <2>1. CASE SendMessage(t)
    BY <2>1 DEF SendMessage, Work
  <2>2. CASE ReportError(t)
    BY <2>2 DEF ReportError, Work
  <2>3. CASE Return(t)
    BY <2>3 DEF Return, Work
  <2>4. CASE Unwind(t)
    BY <2>4 DEF Unwind, Work
  <2> QED
    BY <1>3, <2>1, <2>2, <2>3, <2>4 DEF WorkerStep
<1>4. ASSUME NEW t \in Tasks, TrackerStep(t) PROVE IInv'
  <2>1. CASE FlywheelStart(t)
    BY <2>1 DEF FlywheelStart, Track, Write
  <2>2. CASE ReceiveMessage(t)
    BY <2>2 DEF ReceiveMessage, Track, Work
  <2>3. CASE LogMessage(t)
    BY <2>3 DEF LogMessage, Track
  <2>4. CASE ReceiveError(t)
    BY <2>4 DEF ReceiveError, Track, Work
  <2>5. CASE FlywheelFail(t)
    BY <2>5 DEF FlywheelFail, Track, Write
  <2>6. CASE ContextDone(t)
    BY <2>6 DEF ContextDone, Track, Cancelled
  <2>7. CASE FlywheelComplete(t)
    BY <2>7 DEF FlywheelComplete, Track, Write
  <2> QED
    BY <1>4, <2>1, <2>2, <2>3, <2>4, <2>5, <2>6, <2>7 DEF TrackerStep
<1>5. CASE Crash
  BY <1>5 DEF Crash
<1> QED
  BY <1>1, <1>2, <1>3, <1>4, <1>5 DEF Next

(* IInv holds in every reachable state. *)
THEOREM Invariance == Spec => []IInv
  BY InitIInv, NextIInv, PTL DEF Spec

(* Type correctness. *)
THEOREM TypeCorrect == Spec => []TypeOK
<1>1. IInv => TypeOK
  BY DEF IInv
<1> QED
  BY <1>1, Invariance, PTL

(* No orchestration ever hangs in a send to its tracker, whatever fails in *)
(* redis: the tracker is alive and on its way to its select.               *)
THEOREM SenderNeverStuck == Spec => []NoStuckSender
<1>1. IInv => NoStuckSender
  BY DEF IInv, Protocol, NoStuckSender
<1> QED
  BY <1>1, Invariance, PTL

(* A task is recorded completed or failed only as its orchestration ended. *)
THEOREM StatusTellsTruth == Spec => []StatusMatchesOutcome
<1>1. IInv => StatusMatchesOutcome
  BY DEF IInv
<1> QED
  BY <1>1, Invariance, PTL

-----------------------------------------------------------------------------
(* A step leaves every final status alone. *)
LEMMA FinalStep ==
  IInv /\ [Next]_vars =>
      \A t \in Tasks : status[t] \in Final => status'[t] = status[t]
<1> SUFFICES ASSUME IInv, [Next]_vars
             PROVE  \A t \in Tasks : status[t] \in Final => status'[t] = status[t]
  OBVIOUS
<1> USE DEF IInv, TypeOK, Protocol, Status, Final
<1>1. CASE UNCHANGED status
  BY <1>1
<1>2. ASSUME NEW t \in Tasks, FlywheelStart(t) \/ FlywheelFail(t) \/ FlywheelComplete(t)
      PROVE  \A u \in Tasks : status[u] \in Final => status'[u] = status[u]
  <2>1. tracker[t] \in {"start", "fail", "complete"}
    BY <1>2 DEF FlywheelStart, FlywheelFail, FlywheelComplete, Track
  <2>2. status[t] \notin Final
    BY <2>1
  <2>3. \E s \in Status : Write(t, s)
    BY <1>2 DEF FlywheelStart, FlywheelFail, FlywheelComplete
  <2> QED
    BY <2>2, <2>3 DEF Write
<1> QED
  BY <1>1, <1>2 DEF Next, WorkerStep, TrackerStep, Crash, vars, StartTask, SendMessage,
     ReportError, Return, Unwind, ReceiveMessage, LogMessage, ReceiveError, ContextDone

(* What a client was told of the end of a task is never taken back. *)
THEOREM FinalStatusIsKept == Spec => FinalStatusStays
<1>1. IInv /\ [Next]_vars =>
          [\A t \in Tasks : status[t] \in Final => status'[t] = status[t]]_vars
  BY FinalStep
<1> QED
  BY <1>1, Invariance, PTL DEF Spec, FinalStatusStays

-----------------------------------------------------------------------------
(* The mapped outcome changes only where the worker changes, and is still  *)
(* a function on Tasks then.                                               *)
LEMMA OutcomeSame ==
  ASSUME \A t \in Tasks : OutcomeOf(t)' = OutcomeOf(t)
  PROVE  outcome' = outcome
  BY DEF outcome

(* Where one worker ends, the mapped outcome changes for its task alone.   *)
LEMMA OutcomeConclude ==
  ASSUME NEW t \in Tasks, NEW o,
         OutcomeOf(t)' = o,
         \A u \in Tasks \ {t} : OutcomeOf(u)' = OutcomeOf(u)
  PROVE  outcome' = [outcome EXCEPT ![t] = o]
  BY DEF outcome

(* Every step of the protocol is a step of the abstract task, or none.     *)
LEMMA RefineStep ==
  IInv /\ [Next]_vars => [Abstract!Next]_<<status, outcome>>
<1> SUFFICES ASSUME IInv, [Next]_vars
             PROVE  Abstract!Next \/ UNCHANGED <<status, outcome>>
  OBVIOUS
<1> USE DEF IInv, TypeOK, Protocol
<1>1. CASE UNCHANGED vars
  <2>1. outcome' = outcome
    BY <1>1, OutcomeSame DEF vars, OutcomeOf
  <2> QED
    BY <1>1, <2>1 DEF vars
<1>2. ASSUME NEW t \in Tasks, StartTask(t) PROVE UNCHANGED <<status, outcome>>
  <2>1. outcome' = outcome
    BY <1>2, OutcomeSame DEF StartTask, Work, Worker, OutcomeOf
  <2> QED
    BY <1>2, <2>1 DEF StartTask
<1>3. ASSUME NEW t \in Tasks, WorkerStep(t)
      PROVE  Abstract!Next \/ UNCHANGED <<status, outcome>>
  <2>1. CASE Return(t)
    <3>1. outcome[t] = "pending"
      BY <2>1 DEF Return, Work, outcome, OutcomeOf
    <3>2. outcome' = [outcome EXCEPT ![t] = "ok"]
      BY <2>1, OutcomeConclude DEF Return, Work, Worker, OutcomeOf
    <3>3. Abstract!Conclude(t, "ok")
      BY <2>1, <3>1, <3>2 DEF Return, Abstract!Conclude, Abstract!HandOver
    <3> QED
      BY <3>3 DEF Abstract!Next
  <2>2. CASE SendMessage(t) \/ ReportError(t) \/ Unwind(t)
    <3>1. outcome' = outcome
      BY <2>2, OutcomeSame DEF SendMessage, ReportError, Unwind, Work, Worker, OutcomeOf
    <3> QED
      BY <2>2, <3>1 DEF SendMessage, ReportError, Unwind
  <2> QED
    BY <1>3, <2>1, <2>2 DEF WorkerStep
<1>4. ASSUME NEW t \in Tasks, TrackerStep(t)
      PROVE  Abstract!Next \/ UNCHANGED <<status, outcome>>
  <2>1. CASE ReceiveError(t)
    <3>1. outcome[t] = "pending"
      BY <2>1 DEF ReceiveError, Work, outcome, OutcomeOf
    <3>2. outcome' = [outcome EXCEPT ![t] = "error"]
      BY <2>1, OutcomeConclude DEF ReceiveError, Work, Worker, OutcomeOf
    <3>3. Abstract!Conclude(t, "error")
      BY <2>1, <3>1, <3>2 DEF ReceiveError, Abstract!Conclude, Abstract!HandOver
    <3> QED
      BY <3>3 DEF Abstract!Next
  <2>2. CASE ReceiveMessage(t)
    <3>1. outcome' = outcome
      BY <2>2, OutcomeSame DEF ReceiveMessage, Work, Worker, OutcomeOf
    <3> QED
      BY <2>2, <3>1 DEF ReceiveMessage
  <2>3. CASE LogMessage(t) \/ ContextDone(t)
    <3>1. outcome' = outcome
      BY <2>3, OutcomeSame DEF LogMessage, ContextDone, OutcomeOf
    <3> QED
      BY <2>3, <3>1 DEF LogMessage, ContextDone
  <2>4. CASE FlywheelStart(t)
    <3>1. outcome' = outcome
      BY <2>4, OutcomeSame DEF FlywheelStart, OutcomeOf
    <3>2. status[t] = "none"
      BY <2>4 DEF FlywheelStart, Track
    <3>3. Abstract!Start(t) \/ UNCHANGED status
      BY <2>4, <3>1, <3>2 DEF FlywheelStart, Write, Abstract!Start
    <3> QED
      BY <3>1, <3>3 DEF Abstract!Next
  <2>5. CASE FlywheelFail(t)
    <3>1. outcome' = outcome
      BY <2>5, OutcomeSame DEF FlywheelFail, OutcomeOf
    <3>2. /\ outcome[t] = "error"
          /\ status[t] \notin Abstract!Final
      BY <2>5 DEF FlywheelFail, Track, outcome, OutcomeOf, Abstract!Final
    <3>3. Abstract!Record(t) \/ UNCHANGED status
      BY <2>5, <3>1, <3>2 DEF FlywheelFail, Write, Abstract!Record, Abstract!Truth
    <3> QED
      BY <3>1, <3>3 DEF Abstract!Next
  <2>6. CASE FlywheelComplete(t)
    <3>1. outcome' = outcome
      BY <2>6, OutcomeSame DEF FlywheelComplete, OutcomeOf
    <3>2. /\ outcome[t] = "ok"
          /\ status[t] \notin Abstract!Final
      BY <2>6 DEF FlywheelComplete, Track, outcome, OutcomeOf, Abstract!Final
    <3>3. Abstract!Record(t) \/ UNCHANGED status
      BY <2>6, <3>1, <3>2 DEF FlywheelComplete, Write, Abstract!Record, Abstract!Truth
    <3> QED
      BY <3>1, <3>3 DEF Abstract!Next
  <2> QED
    BY <1>4, <2>1, <2>2, <2>3, <2>4, <2>5, <2>6 DEF TrackerStep
<1>5. CASE Crash
  <2>1. outcome' = outcome
    BY <1>5, OutcomeSame DEF Crash, Worker, OutcomeOf
  <2> QED
    BY <1>5, <2>1 DEF Crash
<1> QED
  BY <1>1, <1>2, <1>3, <1>4, <1>5 DEF Next

(* startTask and the workers that use it implement the promise a task      *)
(* makes to the client that polls it.                                      *)
THEOREM Refinement == Spec => KeepsPromise
<1>1. Init => Abstract!Init
  <2>1. Init => outcome = [t \in Tasks |-> "pending"]
    BY DEF Init, outcome, OutcomeOf
  <2> QED
    BY <2>1 DEF Init, Abstract!Init
<1>2. IInv /\ [Next]_vars => [Abstract!Next]_(Abstract!vars)
  BY RefineStep DEF Abstract!vars
<1> QED
  BY <1>1, <1>2, Invariance, PTL DEF Spec, KeepsPromise, Abstract!Spec
=============================================================================
