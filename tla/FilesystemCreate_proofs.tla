----------------------- MODULE FilesystemCreate_proofs -----------------------
(***************************************************************************)
(* Proofs about FilesystemCreate, for any subnets, zones and access        *)
(* points, any number of attempts and any times, with or without failing   *)
(* calls.  Every action of the worker, of its children, of the rollback,   *)
(* of the trackers and of the service keeps IInv.                          *)
(***************************************************************************)
EXTENDS FilesystemCreate, SequenceTheorems, TLAPS

USE ServiceAssumption, RetryAssumption, TaskIdsAssumption

(* Nothing was made and nothing was started. *)
LEMMA InitIInv == Init => IInv
<1> SUFFICES ASSUME Init PROVE IInv
  OBVIOUS
<1> USE DEF Init, NothingYet, Task!Init, Failed, AtPoints, AtMounts, AfterCreation
<1>1. TypeOK
  BY DEF TypeOK, EfsTypeOK, LifeCycle, Settings, Task!TypeOK, Task!Status, Task!Outcome,
     Place, Waiting, Ended, Requests
<1>2. Progress
  BY DEF Progress, Mounts
<1>3. Registered
  BY DEF Registered
<1>4. TasksTell
  BY DEF TasksTell, TaskIds, CreateTask
<1>5. Removal
  BY DEF Removal
<1>6. \A p \in AccessPoints : PointTells(p)
  BY DEF PointTells, TaskIds
<1>7. Concluded /\ PointsOnce
  BY DEF Concluded, PointsOnce, TaskIds
<1> QED
  BY <1>1, <1>2, <1>3, <1>4, <1>5, <1>6, <1>7 DEF IInv, CoreInv

-----------------------------------------------------------------------------
(* The steps of the worker. *)

(* What the stack of rollback tasks becomes. *)
LEMMA Stacks ==
  /\ Len(<<>>) = 0 /\ Len(<<"filesystem">>) = 1 /\ Len(<<"filesystem", "mounts">>) = 2
  /\ Append(<<"filesystem">>, "mounts") = <<"filesystem", "mounts">>
<1>1. Len(<<>>) = 0
  OBVIOUS
<1>2. Len(<<"filesystem">>) = 1
  OBVIOUS
<1>3. Len(<<"filesystem", "mounts">>) = 2
  OBVIOUS
<1>4. Append(<<"filesystem">>, "mounts") = <<"filesystem", "mounts">>
  <2> DEFINE S == {"filesystem", "mounts"}
             pushed == Append(<<"filesystem">>, "mounts")
  <2>1. <<"filesystem">> \in Seq(S) /\ <<"filesystem">>[1] = "filesystem"
    OBVIOUS
  <2>2. /\ <<"filesystem", "mounts">> \in Seq(S)
        /\ <<"filesystem", "mounts">>[1] = "filesystem"
        /\ <<"filesystem", "mounts">>[2] = "mounts"
    OBVIOUS
  <2>3. /\ pushed \in Seq(S) /\ Len(pushed) = 2
        /\ pushed[1] = "filesystem" /\ pushed[2] = "mounts"
    BY <1>2, <2>1, AppendProperties
  <2>4. \A i \in 1 .. 2 : pushed[i] = <<"filesystem", "mounts">>[i]
    <3>1. \A i \in 1 .. 2 : i = 1 \/ i = 2
      OBVIOUS
    <3> QED
      BY <2>2, <2>3, <3>1
  <2> HIDE DEF S, pushed
  <2> QED
    BY <1>3, <2>2, <2>3, <2>4, SeqEqual DEF pushed
<1> QED
  BY <1>1, <1>2, <1>3, <1>4

(* Nothing but the filesystem was registered before the mount targets.     *)
LEMMA ShortStack ==
  ASSUME stack = <<>> \/ stack = <<"filesystem">>
  PROVE  Len(stack) # 2
<1>1. CASE stack = <<>>
  BY <1>1
<1>2. CASE stack = <<"filesystem">>
  BY <1>2, Stacks
<1> QED
  BY <1>1, <1>2

(* The step that hands over an error starts the rollback with everything   *)
(* that was registered.                                                    *)
LEMMA FailStep ==
  ASSUME CoreInv, NEW from \in Place, from \notin Ended \cup {"rollback", "request", "create"},
         Fail(from), EfsTypeOK', from \in AtPoints => UNCHANGED <<fs, mount>>
  PROVE  CoreInv'
<1> USE DEF CoreInv, Fail, TypeOK, Ended, children, undo
<1>1. TypeOK'
  BY DEF Task!HandOver, Task!TypeOK, Task!Outcome, TaskIds, Place, Registered, Failed
<1>2. Progress'
  BY DEF Progress, Failed, AtPoints, AtMounts, AfterCreation, Mounts
<1>3. Registered'
  BY DEF Registered, Failed, AtPoints, AtMounts, AfterCreation
<1>4. TasksTell'
  BY DEF TasksTell, Failed, Task!HandOver, Task!TypeOK, TaskIds
<1>5. Removal'
  <2>1. CASE from \notin AtPoints
    <3>1. stack = <<>> \/ stack = <<"filesystem">>
      BY <2>1 DEF Registered, Failed, AtPoints, AtMounts, AfterCreation
    <3>2. Len(stack) # 2
      BY <3>1, ShortStack
    <3> QED
      BY <3>2 DEF Removal
  <2>2. CASE from \in AtPoints
    <3>1. Len(stack) = 2 /\ fs = "available" /\ Mounts = req.subnets /\ AllMountsAvailable
      BY <2>2, Stacks DEF Registered, Progress, AtPoints, AtMounts, AfterCreation
    <3>2. Mounts' = Mounts /\ AllMountsAvailable'
      BY <2>2, <3>1 DEF Mounts, AllMountsAvailable
    <3> QED
      BY <2>2, <3>1, <3>2 DEF Removal
  <2> QED
    BY <2>1, <2>2
<1> QED
  BY <1>1, <1>2, <1>3, <1>4, <1>5

(* An attempt that failed leaves everything else as it was, or was the     *)
(* last one.                                                               *)
LEMMA TryAgainStep ==
  ASSUME CoreInv, NEW from \in Waiting, TryAgain(from), UNCHANGED efs
  PROVE  CoreInv'
<1>1. CASE Fail(from)
  BY <1>1, FailStep DEF Waiting, Place, Ended, CoreInv, TypeOK, EfsTypeOK, efs
<1>2. CASE tries + 1 < Attempts /\ tries' = tries + 1
           /\ UNCHANGED <<pc, req, todo, children, undo, tasks>>
  <2> USE <1>2 DEF efs, children, undo, tasks
  <2>1. TypeOK'
    BY DEF CoreInv, TypeOK, EfsTypeOK, Task!TypeOK
  <2>2. Progress'
    BY DEF CoreInv, Progress, Mounts, AllMountsAvailable, Failed
  <2>3. Registered' /\ TasksTell'
    BY DEF CoreInv, Registered, TasksTell, Failed
  <2>4. ~Faulty /\ TimeoutFirst => Removal'
    BY DEF CoreInv, Removal, Mounts, AllMountsAvailable
  <2> QED
    BY <2>1, <2>2, <2>3, <2>4 DEF CoreInv
<1> QED
  BY <1>1, <1>2 DEF TryAgain

(* A setting that was made stays made, and nothing else changes. *)
LEMMA SetEffect ==
  ASSUME EfsTypeOK, NEW what \in Settings, NEW ok \in BOOLEAN, Set(what, ok)
  PROVE  /\ EfsTypeOK'
         /\ UNCHANGED <<fs, mount, point>>
         /\ setting \subseteq setting'
         /\ ok => what \in setting'
  BY DEF EfsTypeOK, Set, Call, efs

(* A request is taken on or turned down, and nothing is made. *)
LEMMA RequestStep ==
  ASSUME CoreInv, Request
  PROVE  CoreInv'
<1> USE DEF CoreInv, Advance, efs, children, undo, tasks, Failed, AtPoints, AtMounts,
        AfterCreation, Waiting, Ended
<1>1. pc = "request" /\ pc' \in {"create", "refused"} /\ UNCHANGED <<efs, undo, children, tasks>>
  BY DEF Request, Accept, Refuse
<1>2. req' \in Requests /\ todo' = todo /\ tries' = 0
  <2>1. CASE Refuse
    BY <2>1 DEF Refuse, TypeOK
  <2>2. ASSUME NEW r \in Requests, NEW oneZone \in BOOLEAN, Accept(r, oneZone)
        PROVE  req' \in Requests /\ todo' = todo /\ tries' = 0
    BY <2>2 DEF Accept, Requests
  <2> QED
    BY <2>1, <2>2 DEF Request
<1>3. TypeOK'
  BY <1>1, <1>2 DEF TypeOK, EfsTypeOK, Task!TypeOK, Place
<1>4. Progress' /\ Registered' /\ TasksTell'
  BY <1>1 DEF Progress, Registered, TasksTell, Mounts
<1> QED
  BY <1>1, <1>3, <1>4 DEF Removal

(* The filesystem is created; nothing is registered for the rollback yet.  *)
LEMMA RequestFilesystemStep ==
  ASSUME CoreInv, RequestFilesystem
  PROVE  CoreInv'
<1> USE DEF CoreInv, efs, children, undo, tasks, Failed, AtPoints, AtMounts, AfterCreation,
        Waiting, Ended
<1>1. UNCHANGED <<mount, point, setting>> /\ fs' \in {fs, "creating"}
  BY DEF RequestFilesystem, CreateFileSystem, Call
<1>2. /\ pc = "create" /\ pc' \in {"available", "refused"} /\ tries' = 0
      /\ UNCHANGED <<req, todo, children, undo, tasks>>
  BY DEF RequestFilesystem, Advance
<1>3. EfsTypeOK'
  BY <1>1 DEF TypeOK, EfsTypeOK, LifeCycle
<1>4. TypeOK'
  BY <1>2, <1>3 DEF TypeOK, Task!TypeOK, Place
<1>5. Progress' /\ Registered' /\ TasksTell'
  BY <1>1, <1>2 DEF Progress, Registered, TasksTell, Mounts
<1> QED
  BY <1>2, <1>4, <1>5 DEF Removal

(* The filesystem was seen available, and its deletion is registered.      *)
LEMMA PollFilesystemStep ==
  ASSUME CoreInv, PollFilesystem
  PROVE  CoreInv'
<1> USE DEF CoreInv, efs, children, undo, tasks, Failed, AtPoints, AtMounts, AfterCreation,
        Waiting, Ended
<1>1. CASE TryAgain("available")
  BY <1>1, TryAgainStep DEF PollFilesystem
<1>2. CASE fs = "available" /\ pc = "available" /\ pc' = "backup" /\ tries' = 0
           /\ stack' = <<"filesystem">>
           /\ UNCHANGED <<efs, req, todo, children, rb, rbAt, rbTodo, rbTries, tasks>>
  <2>1. TypeOK'
    BY <1>2 DEF TypeOK, EfsTypeOK, Task!TypeOK, Place
  <2>2. Progress' /\ TasksTell'
    BY <1>2 DEF Progress, TasksTell, Mounts
  <2>3. Registered'
    BY <1>2 DEF Registered, TypeOK
  <2> QED
    BY <1>2, <2>1, <2>2, <2>3 DEF Removal
<1> QED
  BY <1>1, <1>2 DEF PollFilesystem

(* Every setting is made before the place after it. *)
LEMMA SettingStep ==
  ASSUME CoreInv, SetBackup \/ SetLifecycle \/ SetPolicy
  PROVE  CoreInv'
<1> USE DEF CoreInv, efs, children, undo, tasks, Failed, AtPoints, AtMounts, AfterCreation,
        Waiting, Ended, Settings
<1>1. ASSUME NEW what \in Settings, NEW from \in {"backup", "lifecycle", "policy"},
             Set(what, FALSE), Fail(from)
      PROVE  CoreInv'
  BY <1>1, SetEffect, FailStep DEF TypeOK, Place
<1>2. ASSUME NEW what \in Settings, Set(what, TRUE) \/ UNCHANGED efs,
             NEW from \in {"backup", "lifecycle", "policy"},
             NEW to \in {"lifecycle", "policy", "mounts"},
             Advance(from, to), req' = req,
             from = "backup" => what = "backup" /\ what \in setting' /\ to = "lifecycle",
             from = "lifecycle" => what = "lifecycle" /\ what \in setting' /\ to = "policy",
             from = "policy" => /\ to = "mounts" /\ todo' = req.subnets
                                /\ req.policy => "policy" \in setting',
             from # "policy" => todo' = todo
      PROVE  CoreInv'
  <2>1. EfsTypeOK' /\ UNCHANGED <<fs, mount, point>> /\ setting \subseteq setting'
    BY <1>2, SetEffect DEF TypeOK, EfsTypeOK
  <2>2. TypeOK'
    BY <1>2, <2>1 DEF Advance, TypeOK, Task!TypeOK, Place, Requests
  <2>3. Progress'
    BY <1>2, <2>1 DEF Advance, Progress, Mounts
  <2>4. Registered' /\ TasksTell'
    BY <1>2, <2>1 DEF Advance, Registered, TasksTell
  <2> QED
    BY <1>2, <2>2, <2>3, <2>4 DEF Advance, Removal
<1>3. CASE SetBackup
  BY <1>1, <1>2, <1>3, SetEffect DEF SetBackup, TypeOK
<1>4. CASE SetLifecycle
  BY <1>1, <1>2, <1>4, SetEffect DEF SetLifecycle, TypeOK
<1>5. CASE SetPolicy
  BY <1>1, <1>2, <1>5, SetEffect DEF SetPolicy, TypeOK
<1> QED
  BY <1>3, <1>4, <1>5

(* The mount targets that exist are those the loop has done; the last one  *)
(* ends it.                                                                *)
LEMMA CreateMountStep ==
  ASSUME CoreInv, CreateMount
  PROVE  CoreInv'
<1> USE DEF CoreInv, efs, children, undo, tasks, Failed, AtPoints, AtMounts, AfterCreation,
        Waiting, Ended
<1>1. ASSUME NEW s \in todo, CreateMountTarget(s, FALSE), Fail("mounts")
      PROVE  CoreInv'
  <2>1. EfsTypeOK'
    BY <1>1 DEF CreateMountTarget, Call, TypeOK, EfsTypeOK, LifeCycle
  <2> QED
    BY <1>1, <2>1, FailStep DEF Place
<1>2. ASSUME pc = "mounts", NEW s \in todo, CreateMountTarget(s, TRUE),
             Advance("mounts", "mounts"), todo' = todo \ {s}, req' = req
      PROVE  CoreInv'
  <2>1. s \in Subnets
    BY <1>2 DEF Progress, TypeOK, Requests
  <2>2. /\ mount' = [mount EXCEPT ![s] = "creating"]
        /\ UNCHANGED <<fs, point, setting>>
    BY <1>2 DEF CreateMountTarget, Call
  <2>3. EfsTypeOK'
    BY <2>2 DEF TypeOK, EfsTypeOK, LifeCycle
  <2>4. Mounts' = Mounts \cup {s}
    BY <2>1, <2>2 DEF Mounts, TypeOK, EfsTypeOK
  <2>5. TypeOK'
    BY <1>2, <2>3 DEF Advance, TypeOK, Task!TypeOK, Place
  <2>6. Progress'
    BY <1>2, <2>1, <2>2, <2>4 DEF Advance, Progress, TypeOK, EfsTypeOK
  <2>7. Registered' /\ TasksTell'
    BY <1>2, <2>2 DEF Advance, Registered, TasksTell
  <2> QED
    BY <1>2, <2>5, <2>6, <2>7 DEF Advance, Removal
<1>3. CASE todo = {} /\ Advance("mounts", "mounted") /\ UNCHANGED <<efs, req, todo>>
  <2>1. TypeOK'
    BY <1>3 DEF Advance, TypeOK, EfsTypeOK, Task!TypeOK, Place
  <2>2. Progress'
    BY <1>3 DEF Advance, Progress, Mounts
  <2>3. Registered' /\ TasksTell'
    BY <1>3 DEF Advance, Registered, TasksTell
  <2> QED
    BY <1>3, <2>1, <2>2, <2>3 DEF Advance, Removal
<1> QED
  BY <1>1, <1>2, <1>3 DEF CreateMount

(* All mount targets were seen available, and their deletion is registered *)
(* above that of the filesystem.                                           *)
LEMMA PollMountsStep ==
  ASSUME CoreInv, PollMounts
  PROVE  CoreInv'
<1> USE DEF CoreInv, efs, children, undo, tasks, Failed, AtPoints, AtMounts, AfterCreation,
        Waiting, Ended
<1>1. CASE TryAgain("mounted")
  BY <1>1, TryAgainStep DEF PollMounts
<1>2. CASE AllMountsAvailable /\ pc = "mounted" /\ pc' = "points" /\ tries' = 0
           /\ todo' = req.points /\ stack' = Append(stack, "mounts")
           /\ UNCHANGED <<efs, req, children, rb, rbAt, rbTodo, rbTries, tasks>>
  <2>1. stack' = <<"filesystem", "mounts">>
    BY <1>2, Stacks DEF Registered
  <2>2. TypeOK'
    <3>1. EfsTypeOK' /\ Task!TypeOK' /\ pc' \in Place
      BY <1>2 DEF TypeOK, EfsTypeOK, Task!TypeOK, Place
    <3>2. todo' \in (SUBSET Subnets) \cup (SUBSET AccessPoints)
      BY <1>2 DEF TypeOK, Requests
    <3>3. stack' \in {<<>>, <<"filesystem">>, <<"filesystem", "mounts">>}
      BY <2>1
    <3>4. UNCHANGED <<req, child, childTries, rb, rbAt, rbTodo, rbTries>> /\ tries' = 0
      BY <1>2
    <3> QED
      BY <3>1, <3>2, <3>3, <3>4 DEF TypeOK
  <2>3. Progress' /\ TasksTell'
    BY <1>2 DEF Progress, TasksTell, Mounts, AllMountsAvailable
  <2>4. Registered'
    BY <1>2, <2>1, Stacks DEF Registered, TypeOK
  <2> QED
    BY <1>2, <2>2, <2>3, <2>4 DEF Removal
<1> QED
  BY <1>1, <1>2 DEF PollMounts

(* An access point is made, and its goroutine is started. *)
LEMMA CreatePointStep ==
  ASSUME CoreInv, CreatePoint
  PROVE  CoreInv'
<1> USE DEF CoreInv, efs, children, undo, tasks, Failed, AtPoints, AtMounts, AfterCreation,
        Waiting, Ended
<1>1. ASSUME NEW p \in todo, CreateAccessPoint(p, FALSE), Fail("points")
      PROVE  CoreInv'
  <2>1. EfsTypeOK' /\ UNCHANGED <<fs, mount>>
    BY <1>1 DEF CreateAccessPoint, Call, TypeOK, EfsTypeOK, LifeCycle
  <2> QED
    BY <1>1, <2>1, FailStep DEF Place
<1>2. ASSUME pc = "points", NEW p \in todo, CreateAccessPoint(p, TRUE), pc' = "child",
             child' = [child EXCEPT ![p] = "wait"],
             UNCHANGED <<req, todo, tries, childTries, undo, tasks>>
      PROVE  CoreInv'
  <2>1. /\ point[p] = "none" /\ point' = [point EXCEPT ![p] = "creating"]
        /\ UNCHANGED <<fs, mount, setting>>
    BY <1>2 DEF CreateAccessPoint, Call
  <2>2. TypeOK'
    BY <1>2, <2>1 DEF TypeOK, EfsTypeOK, LifeCycle, Task!TypeOK, Place
  <2>3. Progress'
    BY <1>2, <2>1 DEF Progress, Mounts, AllMountsAvailable
  <2>4. Registered'
    BY <1>2 DEF Registered
  <2>5. TasksTell'
    BY <1>2, <2>1 DEF TasksTell, TypeOK, EfsTypeOK
  <2> QED
    BY <1>2, <2>2, <2>3, <2>4, <2>5 DEF Removal
<1> QED
  BY <1>1, <1>2 DEF CreatePoint

(* The loop goes on past an access point only when its task is complete.   *)
LEMMA PollChildStep ==
  ASSUME CoreInv, PollChild
  PROVE  CoreInv'
<1> USE DEF CoreInv, efs, children, undo, tasks, Failed, AtPoints, AtMounts, AfterCreation,
        Waiting, Ended
<1>1. CASE TryAgain("child") /\ UNCHANGED efs
  BY <1>1, TryAgainStep
<1>2. ASSUME NEW p \in todo, status[p] = "completed", Advance("child", "points"),
             todo' = todo \ {p}, req' = req, UNCHANGED efs
      PROVE  CoreInv'
  <2>1. TypeOK'
    BY <1>2 DEF Advance, TypeOK, EfsTypeOK, Task!TypeOK, Place
  <2>2. Progress'
    BY <1>2 DEF Advance, Progress, Mounts, AllMountsAvailable
  <2>3. Registered' /\ TasksTell'
    BY <1>2 DEF Advance, Registered, TasksTell
  <2> QED
    BY <1>2, <2>1, <2>2, <2>3 DEF Advance, Removal
<1> QED
  BY <1>1, <1>2 DEF PollChild

(* The worker returns when nothing is left to do. *)
LEMMA ReturnStep ==
  ASSUME CoreInv, Return
  PROVE  CoreInv'
<1> USE DEF CoreInv, efs, children, undo, Failed, AtPoints, AtMounts, AfterCreation, Waiting,
        Ended, Return
<1>1. TypeOK'
  BY DEF TypeOK, EfsTypeOK, Task!TypeOK, Task!HandOver, Task!Outcome, Place
<1>2. Progress'
  BY DEF Progress, Mounts, AllMountsAvailable, Task!HandOver
<1>3. Registered'
  BY DEF Registered
<1>4. TasksTell'
  BY DEF TasksTell, Task!HandOver, TypeOK, Task!TypeOK, TaskIds
<1> QED
  BY <1>1, <1>2, <1>3, <1>4 DEF Removal

(* The worker leaves the rollback, when it is finished or before.          *)
LEMMA LeaveRollBackStep ==
  ASSUME CoreInv, RollBackSucceeds \/ RollBackTimesOut
  PROVE  CoreInv'
<1> USE DEF CoreInv, efs, children, undo, tasks, Failed, AtPoints, AtMounts, AfterCreation,
        Waiting, Ended, RollBackSucceeds, RollBackTimesOut
<1>1. TypeOK'
  BY DEF TypeOK, EfsTypeOK, Task!TypeOK, Place
<1>2. Progress'
  BY DEF Progress
<1>3. Registered'
  BY DEF Registered
<1>4. TasksTell'
  BY DEF TasksTell
<1>5. ~Faulty /\ TimeoutFirst => Removal'
  BY DEF Removal, Mounts, AllMountsAvailable
<1> QED
  BY <1>1, <1>2, <1>3, <1>4, <1>5

-----------------------------------------------------------------------------
(* The steps of the others. *)

(* A child tells of success only what it saw: its access point available.  *)
LEMMA PollPointStep ==
  ASSUME CoreInv, Concluded, NEW p \in AccessPoints, PollPoint(p)
  PROVE  CoreInv'
<1> USE DEF CoreInv, efs, undo, Failed, PollPoint
<1>1. UNCHANGED <<efs, pc, req, todo, tries, undo, status>>
  BY DEF ChildEnds, Task!HandOver, tasks
<1>2. TypeOK'
  <2>1. Task!TypeOK'
    BY DEF TypeOK, Task!TypeOK, ChildEnds, Task!HandOver, Task!Outcome, tasks
  <2>2. /\ child' \in [AccessPoints -> {"none", "wait", "ended"}]
        /\ childTries' \in [AccessPoints -> 0 .. Attempts - 1]
    BY DEF TypeOK, ChildEnds
  <2> QED
    BY <1>1, <2>1, <2>2 DEF TypeOK, EfsTypeOK
<1>3. Progress'
  BY <1>1 DEF Progress, Mounts, AllMountsAvailable
<1>4. Registered'
  BY <1>1 DEF Registered
<1>5. TasksTell'
  <2>1. outcome' = outcome \/ outcome' = [outcome EXCEPT ![p] = "error"]
        \/ (outcome' = [outcome EXCEPT ![p] = "ok"] /\ point[p] = "available")
    BY DEF ChildEnds, Task!HandOver, tasks
  <2>2. \A t \in TaskIds : outcome[t] # "pending" => outcome'[t] = outcome[t]
    BY DEF ChildEnds, Task!HandOver, tasks, TypeOK, Task!TypeOK, TaskIds, Concluded
  <2> QED
    BY <1>1, <2>1, <2>2 DEF TasksTell, TypeOK, Task!TypeOK, TaskIds
<1>6. ~Faulty /\ TimeoutFirst => Removal'
  BY <1>1 DEF Removal, Mounts, AllMountsAvailable
<1> QED
  BY <1>2, <1>3, <1>4, <1>5, <1>6

(* A tracker records the truth about an outcome. *)
LEMMA TrackTaskStep ==
  ASSUME CoreInv, NEW t \in TaskIds, TrackTask(t)
  PROVE  CoreInv'
<1> USE DEF CoreInv, efs, undo, children, Failed, TrackTask
<1>1. UNCHANGED <<efs, pc, req, todo, tries, children, undo, outcome>>
  BY DEF Task!Start, Task!Record
<1>2. TypeOK'
  BY <1>1 DEF TypeOK, EfsTypeOK, Task!TypeOK, Task!Status, Task!Start, Task!Record, Task!Truth
<1>3. \A u \in TaskIds : status[u] = "completed" => status'[u] = "completed"
  BY DEF Task!Start, Task!Record, Task!Final, TypeOK, Task!TypeOK
<1>4. Progress'
  BY <1>1, <1>3 DEF Progress, Mounts, AllMountsAvailable, TaskIds, TypeOK, Requests
<1>5. Registered'
  BY <1>1 DEF Registered
<1>6. TasksTell'
  BY <1>1 DEF TasksTell, Task!Start, Task!Record, Task!Truth, TypeOK, Task!TypeOK, Task!Outcome
<1>7. ~Faulty /\ TimeoutFirst => Removal'
  BY <1>1 DEF Removal, Mounts, AllMountsAvailable
<1> QED
  BY <1>2, <1>4, <1>5, <1>6, <1>7

(* The service makes progress with what is being created or deleted; what  *)
(* is available stays so.                                                  *)
LEMMA ServiceProgress ==
  ASSUME EfsTypeOK, Environment
  PROVE  /\ EfsTypeOK'
         /\ setting' = setting
         /\ fs' = fs \/ fs \in {"creating", "deleting"}
         /\ fs = "creating" => fs' \in {"creating", "available", "error"}
         /\ fs = "deleting" => fs' \in {"deleting", "deleted"}
         /\ \A s \in Subnets :
               /\ mount'[s] = mount[s] \/ mount[s] \in {"creating", "deleting"}
               /\ mount[s] = "creating" => mount'[s] \in {"creating", "available", "error"}
               /\ mount[s] = "deleting" => mount'[s] \in {"deleting", "none"}
         /\ fs # "deleting" =>
               \A p \in AccessPoints : point[p] = "available" => point'[p] = "available"
<1> USE DEF EfsTypeOK, LifeCycle, Created
<1>1. CASE FileSystemProgress
  BY <1>1 DEF FileSystemProgress
<1>2. ASSUME NEW s \in Subnets, MountProgress(s)
      PROVE  /\ EfsTypeOK'
             /\ UNCHANGED <<fs, point, setting>>
             /\ \A m \in Subnets :
                  /\ mount'[m] = mount[m] \/ mount[m] \in {"creating", "deleting"}
                  /\ mount[m] = "creating" => mount'[m] \in {"creating", "available", "error"}
                  /\ mount[m] = "deleting" => mount'[m] \in {"deleting", "none"}
  BY <1>2 DEF MountProgress
<1>3. ASSUME NEW p \in AccessPoints, PointProgress(p)
      PROVE  /\ EfsTypeOK'
             /\ UNCHANGED <<fs, mount, setting>>
             /\ \A q \in AccessPoints : point[q] = "available" => point'[q] = "available"
  BY <1>3 DEF PointProgress
<1> QED
  BY <1>1, <1>2, <1>3 DEF Environment

(* And nothing that it does takes away what a place of the worker, or of   *)
(* the rollback, relies on.                                                *)
LEMMA ServiceKeeps ==
  ASSUME CoreInv, ServiceStep
  PROVE  CoreInv'
<1> USE DEF CoreInv, undo, children, tasks, Failed, ServiceStep
<1>1. EfsTypeOK
  BY DEF TypeOK
<1>2. TypeOK'
  BY <1>1, ServiceProgress DEF TypeOK, Task!TypeOK
<1>3. Progress'
  <2>1. ~Failed => Mounts' = Mounts
    BY <1>1, ServiceProgress DEF Progress, Mounts
  <2>2. ~Failed => \A s \in Mounts : mount'[s] # "deleting"
    BY <1>1, ServiceProgress DEF Progress, Mounts
  <2>3. AllMountsAvailable /\ ~Failed => AllMountsAvailable'
    BY <1>1, <2>1, ServiceProgress DEF Mounts, AllMountsAvailable
  <2>4. ~Failed => fs' # "deleting" /\ (fs = "available" => fs' = "available")
    BY <1>1, ServiceProgress DEF Progress
  <2> QED
    BY <1>1, <2>1, <2>2, <2>3, <2>4, ServiceProgress
       DEF Progress, AfterCreation, AtMounts, AtPoints
<1>4. Registered'
  BY DEF Registered
<1>5. TasksTell'
  BY <1>1, ServiceProgress DEF TasksTell, Progress
<1>6. ~Faulty /\ TimeoutFirst => Removal'
  <2>1. ASSUME Removal, pc \in {"rollback", "rolledback"}, Len(stack) = 2 PROVE Removal'
    <3>1. Mounts' \subseteq Mounts
      BY <1>1, ServiceProgress DEF Mounts
    <3>2. \A s \in Mounts' : mount[s] = "deleting" => mount'[s] = "deleting"
      BY <1>1, ServiceProgress DEF Mounts
    <3>3. \A s \in Subnets : mount[s] = "available" => mount'[s] = "available"
      BY <1>1, ServiceProgress
    <3>4. AllMountsAvailable => Mounts' = Mounts /\ AllMountsAvailable'
      BY <3>1, <3>3 DEF Mounts, AllMountsAvailable
    <3>5. /\ fs = "available" => fs' = "available"
          /\ fs \in {"deleting", "deleted"} => fs' \in {"deleting", "deleted"}
      BY <1>1, ServiceProgress
    <3>6. rbTodo \subseteq Subnets
      BY DEF TypeOK
    <3>7. rb = "unmount" => /\ \A s \in rbTodo : mount'[s] = "available"
                            /\ \A s \in Mounts' \ rbTodo : mount'[s] = "deleting"
      BY <2>1, <3>1, <3>2, <3>3, <3>6 DEF Removal
    <3>8. rb = "await" => \A s \in Mounts' : mount'[s] = "deleting"
      BY <2>1, <3>1, <3>2 DEF Removal
    <3>9. /\ rb = "next" /\ rbAt = 2 => Mounts' = req.subnets /\ AllMountsAvailable'
          /\ rb = "next" /\ rbAt = 1 => Mounts' = {}
          /\ IF rbAt > 0 THEN fs' = "available" ELSE fs' \in {"deleting", "deleted"}
      BY <2>1, <3>1, <3>4, <3>5 DEF Removal
    <3> QED
      BY <3>7, <3>8, <3>9 DEF Removal
  <2>2. ASSUME ~(pc \in {"rollback", "rolledback"} /\ Len(stack) = 2) PROVE Removal'
    BY <2>2 DEF Removal
  <2> QED
    BY <2>1, <2>2
<1> QED
  BY <1>2, <1>3, <1>4, <1>5, <1>6

-----------------------------------------------------------------------------
(* The steps of the rollback. *)

(* The parts of CoreInv that no step of the rollback's goroutine touches: the *)
(* worker is in the rollback or past it, and nothing is claimed of the     *)
(* service then but by Removal.                                            *)
LEMMA RollBackFrame ==
  ASSUME CoreInv, rb # "idle", rb' # "idle", EfsTypeOK',
         UNCHANGED <<pc, req, todo, tries, stack, children, tasks>>,
         rb' \in {"next", "unmount", "await", "finished"},
         rbAt' \in Nat, rbAt' <= rbAt, rbTodo' \subseteq Subnets, rbTries' \in 0 .. Attempts - 1,
         rb' \in {"unmount", "await"} => rbAt' = 2,
         rb' = "finished" => rbAt' = 0,
         pc = "rolledback" => rb' = "finished",
         ~Faulty /\ TimeoutFirst => Removal'
  PROVE  CoreInv'
<1> USE DEF CoreInv, children, tasks, Failed, AtPoints, AtMounts, AfterCreation
<1>1. Failed
  BY DEF Registered
<1>2. TypeOK'
  BY DEF TypeOK, Task!TypeOK
<1>3. Progress'
  BY <1>1 DEF Progress
<1>4. Registered'
  <2>1. rbAt' <= Len(stack)
    <3>1. Len(stack) \in Nat
      BY Stacks DEF TypeOK
    <3> QED
      BY <3>1 DEF Registered, TypeOK
  <2> QED
    BY <1>1, <2>1 DEF Registered
<1>5. TasksTell'
  BY <1>1 DEF TasksTell
<1> QED
  BY <1>2, <1>3, <1>4, <1>5

(* As long as calls do not fail, none that the rollback makes in time is   *)
(* refused: the mount targets go, then the filesystem.                     *)
LEMMA RollBackKeeps ==
  ASSUME CoreInv, RollBackStep
  PROVE  CoreInv'
<1> USE DEF RollBackStep
<1>1. CASE RollBackFilesystem
  <2> USE <1>1 DEF RollBackFilesystem, NextRollBack
  <2>1. EfsTypeOK'
    BY DEF CoreInv, TypeOK, EfsTypeOK, LifeCycle, DeleteFileSystem, Call, efs
  <2>2. rbAt = 1 \/ Len(stack) # 2
    BY Stacks DEF CoreInv, Registered, TypeOK
  <2>3. ASSUME ~Faulty, Removal PROVE Removal'
    <3>1. CASE pc = "rollback" /\ Len(stack) = 2
      <4>1. fs = "available" /\ Mounts = {}
        BY <2>2, <2>3, <3>1 DEF Removal
      <4>2. fs' = "deleting"
        BY <2>3, <3>1, <4>1 DEF Live, DeleteFileSystem, Call
      <4> QED
        BY <2>2, <3>1, <4>2 DEF Removal
    <3>2. CASE ~(pc = "rollback" /\ Len(stack) = 2)
      BY <3>2 DEF Removal, CoreInv, Registered
    <3> QED
      BY <3>1, <3>2
  <2>4. rbAt' \in Nat /\ rbAt' <= rbAt
    BY DEF CoreInv, TypeOK
  <2>5. pc # "rolledback"
    BY DEF CoreInv, Registered
  <2> QED
    BY <2>1, <2>3, <2>4, <2>5, RollBackFrame DEF CoreInv, TypeOK
<1>2. CASE RollBackMounts
  <2> USE <1>2 DEF RollBackMounts, efs
  <2>1. rbAt = 2
    BY DEF CoreInv, Registered, TypeOK
  <2>2. ASSUME Removal PROVE Removal'
    BY <2>1, <2>2 DEF Removal, Mounts, AllMountsAvailable
  <2>3. EfsTypeOK' /\ req.subnets \subseteq Subnets
    BY DEF CoreInv, TypeOK, EfsTypeOK, Requests
  <2> QED
    BY <2>1, <2>2, <2>3, RollBackFrame DEF CoreInv, TypeOK, Registered
<1>3. CASE Unmount
  <2> USE <1>3
  <2>1. rbAt = 2 /\ rb = "unmount" /\ pc # "rolledback"
    BY DEF Unmount, CoreInv, Registered
  <2>2. ASSUME NEW s \in rbTodo, Live, DeleteMountTarget(s, TRUE), rbTodo' = rbTodo \ {s},
               UNCHANGED <<rb, rbAt, rbTries>>
        PROVE  CoreInv'
    <3>1. EfsTypeOK'
      BY <2>2 DEF CoreInv, TypeOK, EfsTypeOK, LifeCycle, DeleteMountTarget, Call, efs
    <3>2. mount' = [mount EXCEPT ![s] = "deleting"] /\ fs' = fs
      BY <2>2 DEF DeleteMountTarget, Call
    <3>3. ASSUME Removal PROVE Removal'
      BY <2>1, <2>2, <3>2, <3>3 DEF Removal, Mounts, CoreInv, TypeOK, EfsTypeOK
    <3> QED
      BY <2>1, <2>2, <3>1, <3>3, RollBackFrame DEF CoreInv, TypeOK
  <2>3. ASSUME NEW s \in rbTodo, IF Live THEN DeleteMountTarget(s, FALSE) ELSE UNCHANGED efs,
               NextRollBack
        PROVE  CoreInv'
    <3>1. EfsTypeOK'
      BY <2>3 DEF CoreInv, TypeOK, EfsTypeOK, LifeCycle, DeleteMountTarget, Call, efs
    <3>2. ASSUME ~Faulty, Removal PROVE Removal'
      <4>1. CASE pc = "rollback" /\ Len(stack) = 2
        <5>1. mount[s] = "available"
          BY <2>1, <3>2, <4>1 DEF Removal
        <5> QED
          BY <2>3, <3>2, <4>1, <5>1 DEF Live, DeleteMountTarget, Call
      <4>2. CASE ~(pc = "rollback" /\ Len(stack) = 2)
        BY <2>1, <4>2 DEF Removal
      <4> QED
        BY <4>1, <4>2
    <3> QED
      BY <2>1, <2>3, <3>1, <3>2, RollBackFrame DEF NextRollBack, CoreInv, TypeOK
  <2>4. ASSUME rbTodo = {}, rb' = "await", UNCHANGED <<efs, rbAt, rbTodo, rbTries>>
        PROVE  CoreInv'
    <3>1. EfsTypeOK'
      BY <2>4 DEF CoreInv, TypeOK, EfsTypeOK, efs
    <3>2. ASSUME Removal PROVE Removal'
      BY <2>1, <2>4, <3>2 DEF Removal, Mounts, efs
    <3> QED
      BY <2>1, <2>4, <3>1, <3>2, RollBackFrame DEF CoreInv, TypeOK
  <2> QED
    BY <2>2, <2>3, <2>4 DEF Unmount
<1>4. CASE AwaitUnmounted
  <2> USE <1>4
  <2>1. rbAt = 2 /\ rb = "await" /\ pc # "rolledback" /\ UNCHANGED efs
    BY DEF AwaitUnmounted, CoreInv, Registered
  <2>2. EfsTypeOK'
    BY <2>1 DEF CoreInv, TypeOK, EfsTypeOK, efs
  <2>3. CASE Live /\ Known /\ Mounts = {} /\ NextRollBack
    <3>1. ASSUME Removal PROVE Removal'
      BY <2>1, <2>3, <3>1 DEF Removal, NextRollBack, Mounts, efs
    <3> QED
      BY <2>1, <2>2, <2>3, <3>1, RollBackFrame DEF NextRollBack, CoreInv, TypeOK
  <2>4. CASE rbTries + 1 < Attempts /\ rbTries' = rbTries + 1 /\ UNCHANGED <<rb, rbAt, rbTodo>>
    <3>1. ASSUME Removal PROVE Removal'
      BY <2>1, <2>4, <3>1 DEF Removal, Mounts, AllMountsAvailable, efs
    <3>2. rbTries' \in 0 .. Attempts - 1
      BY <2>4 DEF CoreInv, TypeOK
    <3> QED
      BY <2>1, <2>2, <2>4, <3>1, <3>2, RollBackFrame DEF CoreInv, TypeOK
  <2>5. CASE ~(rbTries + 1 < Attempts) /\ NextRollBack
    <3>1. rbTries = Attempts - 1
      BY <2>5 DEF CoreInv, TypeOK
    <3>2. TimeoutFirst => ~Live
      BY <3>1 DEF AwaitUnmounted, TimeoutFirst
    <3>3. ASSUME TimeoutFirst PROVE Removal'
      BY <2>1, <3>2, <3>3 DEF Live, Removal
    <3> QED
      BY <2>1, <2>2, <2>5, <3>3, RollBackFrame DEF NextRollBack, CoreInv, TypeOK
  <2> QED
    BY <2>3, <2>4, <2>5 DEF AwaitUnmounted
<1>5. CASE RollBackDone
  <2> USE <1>5 DEF RollBackDone
  <2>1. EfsTypeOK'
    BY DEF CoreInv, TypeOK, EfsTypeOK, efs
  <2>2. ASSUME Removal PROVE Removal'
    BY <2>2 DEF Removal, efs
  <2> QED
    BY <2>1, <2>2, RollBackFrame DEF CoreInv, TypeOK
<1> QED
  BY <1>1, <1>2, <1>3, <1>4, <1>5

-----------------------------------------------------------------------------
(* The types need less: that the worker and the rollback are where their   *)
(* stack says.  This much stands whatever others do to the service.        *)
Control == TypeOK /\ Registered

(* The parts of Control that are the creation's own.                       *)
Own ==
    /\ pc \in Place /\ req \in Requests
    /\ todo \in (SUBSET Subnets) \cup (SUBSET AccessPoints)
    /\ tries \in 0 .. Attempts - 1
    /\ stack \in {<<>>, <<"filesystem">>, <<"filesystem", "mounts">>}
    /\ rb \in {"idle", "next", "unmount", "await", "finished"}
    /\ rbAt \in 0 .. 2
    /\ rbTodo \in SUBSET Subnets
    /\ rbTries \in 0 .. Attempts - 1
    /\ Registered

(* Every call, and the service itself, keeps the types of the service.     *)
LEMMA EfsTypes ==
  ASSUME EfsTypeOK,
         \/ UNCHANGED efs
         \/ Environment
         \/ \E ok \in BOOLEAN :
               \/ CreateFileSystem(ok) \/ DeleteFileSystem(ok)
               \/ \E what \in Settings : Set(what, ok)
               \/ \E s : CreateMountTarget(s, ok) \/ DeleteMountTarget(s, ok)
               \/ \E p : CreateAccessPoint(p, ok) \/ DeleteAccessPoint(p, ok)
  PROVE  EfsTypeOK'
<1>1. CASE UNCHANGED efs
  BY <1>1 DEF EfsTypeOK, efs
<1>2. CASE Environment
  BY <1>2, ServiceProgress
<1>3. ASSUME NEW ok \in BOOLEAN, CreateFileSystem(ok) \/ DeleteFileSystem(ok) PROVE EfsTypeOK'
  BY <1>3 DEF EfsTypeOK, LifeCycle, CreateFileSystem, DeleteFileSystem, Call, efs
<1>4. ASSUME NEW ok \in BOOLEAN, NEW what \in Settings, Set(what, ok) PROVE EfsTypeOK'
  BY <1>4, SetEffect
<1>5. ASSUME NEW ok \in BOOLEAN, NEW s, CreateMountTarget(s, ok) \/ DeleteMountTarget(s, ok)
      PROVE  EfsTypeOK'
  BY <1>5 DEF EfsTypeOK, LifeCycle, CreateMountTarget, DeleteMountTarget, Call, efs
<1>6. ASSUME NEW ok \in BOOLEAN, NEW p, CreateAccessPoint(p, ok) \/ DeleteAccessPoint(p, ok)
      PROVE  EfsTypeOK'
  BY <1>6 DEF EfsTypeOK, LifeCycle, CreateAccessPoint, DeleteAccessPoint, Call, efs
<1> QED
  BY <1>1, <1>2, <1>3, <1>4, <1>5, <1>6

(* The actions of FlywheelTask keep its types. *)
LEMMA TaskTypes ==
  ASSUME Task!TypeOK,
         \/ UNCHANGED tasks
         \/ \E t \in TaskIds : Task!Start(t) \/ Task!Record(t)
         \/ \E t \in TaskIds, o \in {"ok", "error"} : Task!HandOver(t, o)
  PROVE  Task!TypeOK'
  BY DEF Task!TypeOK, Task!Status, Task!Outcome, Task!Start, Task!Record, Task!HandOver,
     Task!Truth, tasks

(* What a step may do to the service and to the tasks.                     *)
SharedStep ==
    /\ \/ UNCHANGED efs
       \/ Environment
       \/ \E ok \in BOOLEAN :
             \/ CreateFileSystem(ok) \/ DeleteFileSystem(ok)
             \/ \E what \in Settings : Set(what, ok)
             \/ \E s : CreateMountTarget(s, ok) \/ DeleteMountTarget(s, ok)
             \/ \E p : CreateAccessPoint(p, ok) \/ DeleteAccessPoint(p, ok)
    /\ \/ UNCHANGED tasks
       \/ \E t \in TaskIds : Task!Start(t) \/ Task!Record(t)
       \/ \E t \in TaskIds, o \in {"ok", "error"} : Task!HandOver(t, o)

LEMMA NextShared ==
  ASSUME [Next]_vars
  PROVE  SharedStep
<1> USE DEF SharedStep, TaskIds
<1>1. \A from : Fail(from) => \E t \in TaskIds, o \in {"ok", "error"} : Task!HandOver(t, o)
  BY DEF Fail
<1>2. \A from : TryAgain(from) =>
                   \/ UNCHANGED tasks
                   \/ \E t \in TaskIds, o \in {"ok", "error"} : Task!HandOver(t, o)
  BY <1>1 DEF TryAgain
<1>3. CASE Request \/ RequestFilesystem
  BY <1>3 DEF Request, Accept, Refuse, RequestFilesystem, Advance
<1>4. CASE PollFilesystem \/ PollMounts \/ PollChild
  BY <1>2, <1>4 DEF PollFilesystem, PollMounts, PollChild, Advance
<1>5. CASE SetBackup \/ SetLifecycle \/ SetPolicy
  BY <1>1, <1>5 DEF SetBackup, SetLifecycle, SetPolicy, Advance, Settings
<1>6. CASE CreateMount
  BY <1>1, <1>6 DEF CreateMount, Advance
<1>7. CASE CreatePoint
  BY <1>1, <1>7 DEF CreatePoint
<1>8. CASE Return
  BY <1>8 DEF Return
<1>9. CASE RollBackSucceeds \/ RollBackTimesOut
  BY <1>9 DEF RollBackSucceeds, RollBackTimesOut
<1>10. CASE \E p \in AccessPoints : PollPoint(p)
  BY <1>10 DEF PollPoint, ChildEnds
<1>11. CASE RollBackStep
  BY <1>11 DEF RollBackStep, RollBackFilesystem, RollBackMounts, Unmount, AwaitUnmounted,
     RollBackDone
<1>12. CASE \E t \in TaskIds : TrackTask(t)
  BY <1>12 DEF TrackTask
<1>13. CASE ServiceStep
  BY <1>13 DEF ServiceStep
<1>14. CASE UNCHANGED vars
  BY <1>14 DEF vars
<1> QED
  BY <1>3, <1>4, <1>5, <1>6, <1>7, <1>8, <1>9, <1>10, <1>11, <1>12, <1>13, <1>14
     DEF Next, WorkerStep

(* What a step does to what is the creation's own.                         *)
LEMMA FailOwn ==
  ASSUME Own, NEW from \in AfterCreation \cup {"available"}, from # "returned", Fail(from)
  PROVE  Own'
<1> USE DEF Own, Fail, children, Failed, AfterCreation, AtMounts, AtPoints
<1>1. rbAt' = Len(stack) /\ rbAt' \in 0 .. 2
  BY Stacks
<1>2. Registered'
  BY <1>1 DEF Registered
<1> QED
  BY <1>1, <1>2 DEF Place, Ended

LEMMA TryAgainOwn ==
  ASSUME Own, NEW from \in AfterCreation \cup {"available"}, from # "returned", TryAgain(from)
  PROVE  Own'
<1>1. CASE Fail(from)
  BY <1>1, FailOwn
<1>2. CASE ~Fail(from)
  BY <1>2 DEF TryAgain, undo, Own, Registered, Failed
<1> QED
  BY <1>1, <1>2

LEMMA AdvanceOwn ==
  ASSUME Own, NEW from, NEW to \in Place, Advance(from, to), req' \in Requests,
         todo' \in (SUBSET Subnets) \cup (SUBSET AccessPoints),
         \/ from = "request" /\ to \in {"create", "refused"}
         \/ from = "create" /\ to \in {"available", "refused"}
         \/ from \in AfterCreation \ AtPoints /\ to \in AfterCreation \ AtPoints
         \/ from \in AtPoints /\ to \in AtPoints
  PROVE  Own'
<1> USE DEF Own, Advance, undo, Failed, AfterCreation, AtMounts, AtPoints
<1>1. Registered'
  BY DEF Registered
<1> QED
  BY <1>1

LEMMA OwnStep ==
  ASSUME Own, [Next]_vars
  PROVE  Own'
<1>0. UNCHANGED <<pc, req, todo, tries, undo>> => Own'
  BY DEF undo, Own, Registered, Failed
<1> DEFINE Loops == (SUBSET Subnets) \cup (SUBSET AccessPoints)
<1>1. CASE Request
  <2>1. CASE Refuse
    BY <2>1, AdvanceOwn DEF Refuse, Own, Place, Ended
  <2>2. ASSUME NEW r \in Requests, NEW oneZone \in BOOLEAN, Accept(r, oneZone) PROVE Own'
    <3>1. req' \in Requests
      BY <2>2 DEF Accept, Requests
    <3> QED
      BY <2>2, <3>1, AdvanceOwn DEF Accept, Own, Place, Ended
  <2> QED
    BY <1>1, <2>1, <2>2 DEF Request
<1>2. CASE RequestFilesystem
  BY <1>2, AdvanceOwn DEF RequestFilesystem, Own, Place, Ended, Waiting
<1>3. CASE PollFilesystem
  <2>1. CASE TryAgain("available")
    BY <2>1, TryAgainOwn DEF AfterCreation, AtMounts, AtPoints
  <2>2. CASE ~TryAgain("available")
    <3>1. /\ pc = "available" /\ pc' = "backup" /\ tries' = 0 /\ stack' = <<"filesystem">>
          /\ UNCHANGED <<req, todo, rb, rbAt, rbTodo, rbTries>>
      BY <1>3, <2>2 DEF PollFilesystem
    <3>2. Registered'
      BY <3>1 DEF Own, Registered, Failed, AfterCreation, AtMounts, AtPoints
    <3> QED
      BY <3>1, <3>2 DEF Own, Place
  <2> QED
    BY <2>1, <2>2
<1>4. CASE SetBackup \/ SetLifecycle \/ SetPolicy
  <2>1. req.subnets \in Loops
    BY DEF Own, Requests
  <2>2. CASE SetBackup
    BY <2>2, FailOwn, AdvanceOwn DEF SetBackup, Own, Place, AfterCreation, AtMounts, AtPoints
  <2>3. CASE SetLifecycle
    BY <2>3, FailOwn, AdvanceOwn DEF SetLifecycle, Own, Place, AfterCreation, AtMounts, AtPoints
  <2>4. CASE SetPolicy
    BY <2>1, <2>4, FailOwn, AdvanceOwn
       DEF SetPolicy, Own, Place, AfterCreation, AtMounts, AtPoints
  <2> QED
    BY <1>4, <2>2, <2>3, <2>4
<1>5. CASE CreateMount
  <2>1. CASE Fail("mounts")
    BY <2>1, FailOwn DEF AfterCreation, AtMounts, AtPoints
  <2>2. CASE ~Fail("mounts")
    <3>1. /\ \E s : todo' = todo \ {s} \/ todo' = todo
          /\ req' = req
          /\ Advance("mounts", "mounts") \/ Advance("mounts", "mounted")
      BY <1>5, <2>2 DEF CreateMount
    <3>2. todo' \in Loops
      BY <3>1 DEF Own
    <3>3. {"mounts", "mounted"} \subseteq AfterCreation \ AtPoints
      BY DEF AfterCreation, AtMounts, AtPoints
    <3> QED
      BY <3>1, <3>2, <3>3, AdvanceOwn DEF Own, Place, Waiting
  <2> QED
    BY <2>1, <2>2
<1>6. CASE PollMounts
  <2>1. CASE TryAgain("mounted")
    BY <2>1, TryAgainOwn DEF AfterCreation, AtMounts, AtPoints
  <2>2. CASE ~TryAgain("mounted")
    <3>1. /\ pc = "mounted" /\ pc' = "points" /\ tries' = 0 /\ todo' = req.points
          /\ stack' = Append(stack, "mounts")
          /\ UNCHANGED <<req, rb, rbAt, rbTodo, rbTries>>
      BY <1>6, <2>2 DEF PollMounts
    <3>2. stack = <<"filesystem">> /\ rb = "idle" /\ rbAt \in 0 .. 1
      <4>1. stack = <<"filesystem">> /\ rb = "idle"
        BY <3>1 DEF Own, Registered, Failed, AfterCreation, AtMounts, AtPoints
      <4>2. Len(stack) = 1
        BY <4>1, Stacks
      <4> QED
        BY <4>1, <4>2 DEF Own, Registered
    <3>3. stack' = <<"filesystem", "mounts">>
      BY <3>1, <3>2, Stacks
    <3>4. Registered'
      BY <3>1, <3>2, <3>3, Stacks DEF Own, Registered, Failed, AfterCreation, AtMounts, AtPoints
    <3>5. todo' \in Loops /\ pc' \in Place /\ tries' \in 0 .. Attempts - 1
      BY <3>1 DEF Own, Requests, Place
    <3> QED
      BY <3>1, <3>3, <3>4, <3>5 DEF Own
  <2> QED
    BY <2>1, <2>2
<1>7. CASE CreatePoint
  <2>1. CASE \E p \in todo : CreateAccessPoint(p, FALSE) /\ Fail("points")
    BY <2>1, FailOwn DEF AfterCreation, AtMounts, AtPoints
  <2>2. CASE pc = "points" /\ pc' = "child" /\ UNCHANGED <<req, todo, tries, undo>>
    BY <2>2 DEF undo, Own, Registered, Failed, AfterCreation, AtMounts, AtPoints, Place, Waiting
  <2> QED
    BY <1>7, <2>1, <2>2 DEF CreatePoint
<1>8. CASE PollChild
  <2>1. CASE TryAgain("child")
    BY <2>1, TryAgainOwn DEF AfterCreation, AtMounts, AtPoints
  <2>2. CASE ~TryAgain("child")
    <3>1. \A p : todo \ {p} \in Loops
      BY DEF Own
    <3> QED
      BY <1>8, <2>2, <3>1, AdvanceOwn
         DEF PollChild, Own, Place, Waiting, AfterCreation, AtMounts, AtPoints
  <2> QED
    BY <2>1, <2>2
<1>9. CASE Return
  BY <1>9 DEF Return, undo, Own, Registered, Failed, AfterCreation, AtMounts, AtPoints, Place, Ended
<1>10. CASE RollBackSucceeds \/ RollBackTimesOut
  BY <1>10 DEF RollBackSucceeds, RollBackTimesOut, undo, Own, Registered, Failed,
     AfterCreation, AtMounts, AtPoints, Place, Ended
<1>11. CASE RollBackStep
  <2>1. /\ UNCHANGED <<pc, req, todo, tries, stack>>
        /\ rb # "idle" /\ pc # "rolledback" /\ Failed
    BY <1>11 DEF RollBackStep, RollBackFilesystem, RollBackMounts, Unmount, AwaitUnmounted,
       RollBackDone, Own, Registered
  <2>2. NextRollBack /\ rbAt > 0 => Own'
    <3> SUFFICES ASSUME NextRollBack, rbAt > 0 PROVE Own'
      OBVIOUS
    <3>1. rbAt' \in 0 .. 2 /\ rbAt' <= Len(stack) /\ rbTries' \in 0 .. Attempts - 1
      BY Stacks DEF NextRollBack, Own, Registered
    <3> QED
      BY <2>1, <3>1 DEF NextRollBack, Own, Registered, Failed, AfterCreation, AtMounts, AtPoints
  <2>3. CASE RollBackFilesystem
    BY <1>11, <2>2, <2>3 DEF RollBackFilesystem
  <2>4. CASE RollBackMounts
    <3>1. rbAt = 2
      BY <2>4 DEF RollBackMounts, Own, Registered
    <3>2. rbTodo' \in SUBSET Subnets
      BY <2>4 DEF RollBackMounts, Own, Requests
    <3> QED
      BY <2>1, <2>4, <3>1, <3>2
         DEF RollBackMounts, Own, Registered, Failed, AfterCreation, AtMounts, AtPoints
  <2>5. CASE Unmount
    <3>1. rbAt = 2
      BY <2>5 DEF Unmount, Own, Registered
    <3>2. CASE NextRollBack
      BY <2>2, <3>1, <3>2
    <3>3. CASE ~NextRollBack
      <4>1. rb' \in {"unmount", "await"} /\ rbTodo' \subseteq rbTodo /\ UNCHANGED <<rbAt, rbTries>>
        BY <2>5, <3>3 DEF Unmount
      <4> QED
        BY <2>1, <3>1, <4>1 DEF Own, Registered, Failed, AfterCreation, AtMounts, AtPoints
    <3> QED
      BY <3>2, <3>3
  <2>6. CASE AwaitUnmounted
    <3>1. rbAt = 2 /\ rb = "await"
      BY <2>6 DEF AwaitUnmounted, Own, Registered
    <3>2. CASE NextRollBack
      BY <2>2, <3>1, <3>2
    <3>3. CASE ~NextRollBack
      <4>1. rbTries' \in 0 .. Attempts - 1 /\ UNCHANGED <<rb, rbAt, rbTodo>>
        BY <2>6, <3>3 DEF AwaitUnmounted, Own
      <4> QED
        BY <2>1, <3>1, <4>1 DEF Own, Registered, Failed, AfterCreation, AtMounts, AtPoints
    <3> QED
      BY <3>2, <3>3
  <2>7. CASE RollBackDone
    BY <2>1, <2>7 DEF RollBackDone, Own, Registered, Failed, AfterCreation, AtMounts, AtPoints
  <2> QED
    BY <1>11, <2>3, <2>4, <2>5, <2>6, <2>7 DEF RollBackStep
<1>12. CASE \/ \E p \in AccessPoints : PollPoint(p)
            \/ \E t \in TaskIds : TrackTask(t)
            \/ ServiceStep
            \/ UNCHANGED vars
  BY <1>0, <1>12 DEF PollPoint, TrackTask, ServiceStep, vars
<1> QED
  BY <1>1, <1>2, <1>3, <1>4, <1>5, <1>6, <1>7, <1>8, <1>9, <1>10, <1>11, <1>12
     DEF Next, WorkerStep

(* The goroutines of access points, and their attempts.                    *)
LEMMA ChildrenStep ==
  ASSUME [Next]_vars,
         child \in [AccessPoints -> {"none", "wait", "ended"}],
         childTries \in [AccessPoints -> 0 .. Attempts - 1]
  PROVE  /\ child' \in [AccessPoints -> {"none", "wait", "ended"}]
         /\ childTries' \in [AccessPoints -> 0 .. Attempts - 1]
<1> USE DEF children
<1>1. \A from : (Fail(from) \/ TryAgain(from)) => UNCHANGED children
  BY DEF Fail, TryAgain
<1>2. CASE Request \/ RequestFilesystem \/ PollFilesystem \/ PollMounts \/ PollChild
  BY <1>1, <1>2 DEF Request, Accept, Refuse, RequestFilesystem, PollFilesystem, PollMounts,
     PollChild, Advance
<1>3. CASE SetBackup \/ SetLifecycle \/ SetPolicy \/ CreateMount \/ Return
  BY <1>1, <1>3 DEF SetBackup, SetLifecycle, SetPolicy, CreateMount, Return, Advance
<1>4. CASE CreatePoint
  BY <1>1, <1>4 DEF CreatePoint
<1>5. ASSUME NEW p \in AccessPoints, PollPoint(p)
      PROVE  /\ child' \in [AccessPoints -> {"none", "wait", "ended"}]
             /\ childTries' \in [AccessPoints -> 0 .. Attempts - 1]
  BY <1>5 DEF PollPoint, ChildEnds
<1>6. CASE RollBackSucceeds \/ RollBackTimesOut \/ RollBackStep
  BY <1>6 DEF RollBackSucceeds, RollBackTimesOut, RollBackStep
<1>7. CASE (\E t \in TaskIds : TrackTask(t)) \/ ServiceStep \/ UNCHANGED vars
  BY <1>7 DEF TrackTask, ServiceStep, vars
<1> QED
  BY <1>2, <1>3, <1>4, <1>5, <1>6, <1>7 DEF Next, WorkerStep

LEMMA ControlStep == Control /\ [Next]_vars => Control'
<1> SUFFICES ASSUME Control, [Next]_vars PROVE Control'
  OBVIOUS
<1>1. EfsTypeOK' /\ Task!TypeOK'
  <2>1. SharedStep /\ EfsTypeOK /\ Task!TypeOK
    BY NextShared DEF Control, TypeOK
  <2>2. EfsTypeOK'
    BY <2>1, EfsTypes DEF SharedStep
  <2>3. Task!TypeOK'
    BY <2>1, TaskTypes DEF SharedStep
  <2> QED
    BY <2>2, <2>3
<1>2. Own'
  BY OwnStep DEF Control, TypeOK, Own
<1>3. /\ child' \in [AccessPoints -> {"none", "wait", "ended"}]
      /\ childTries' \in [AccessPoints -> 0 .. Attempts - 1]
  BY ChildrenStep DEF Control, TypeOK
<1> QED
  BY <1>1, <1>2, <1>3 DEF Control, TypeOK, Own

-----------------------------------------------------------------------------
(* How the goroutines end.                                                 *)

(* The access points of the creation are asked for one after the other.    *)
LEMMA PointsOnceStep ==
  ASSUME Control, PointsOnce, [Next]_vars
  PROVE  PointsOnce'
<1> USE DEF PointsOnce, Failed, AtPoints
<1>1. Failed' => PointsOnce'
  OBVIOUS
<1>2. \A from : Fail(from) => Failed'
  BY DEF Fail
<1>3. UNCHANGED <<pc, req, todo, child>> => PointsOnce'
  OBVIOUS
<1>4. \A from : TryAgain(from) => UNCHANGED <<pc, req, todo, child>> \/ Failed'
  BY <1>2 DEF TryAgain, children
<1>5. ASSUME pc \in {"create", "available", "backup", "lifecycle", "policy", "mounts"},
             pc' \notin {"request"} \cup AtPoints, UNCHANGED <<req, child>>
      PROVE  PointsOnce'
  BY <1>5
<1>6. CASE Request
  <2>1. CASE Refuse
    BY <2>1 DEF Refuse, Advance, children
  <2>2. ASSUME NEW r \in Requests, NEW oneZone \in BOOLEAN, Accept(r, oneZone)
        PROVE  PointsOnce'
    <3>1. pc = "request" /\ pc' = "create" /\ child' = child
      BY <2>2 DEF Accept, Advance, children
    <3>2. req'.points \in SUBSET AccessPoints
      BY <2>2 DEF Accept, Requests
    <3> QED
      BY <3>1, <3>2
  <2> QED
    BY <1>6, <2>1, <2>2 DEF Request
<1>7. CASE RequestFilesystem
  BY <1>5, <1>7 DEF RequestFilesystem, Advance, children
<1>8. CASE PollFilesystem
  <2>1. CASE TryAgain("available")
    BY <1>1, <1>3, <1>4, <2>1
  <2>2. CASE ~TryAgain("available")
    BY <1>5, <1>8, <2>2 DEF PollFilesystem, children
  <2> QED
    BY <2>1, <2>2
<1>9. CASE SetBackup
  BY <1>1, <1>2, <1>5, <1>9 DEF SetBackup, Advance, children
<1>10. CASE SetLifecycle
  BY <1>1, <1>2, <1>5, <1>10 DEF SetLifecycle, Advance, children
<1>11. CASE SetPolicy
  BY <1>1, <1>2, <1>5, <1>11 DEF SetPolicy, Advance, children
<1>12. CASE CreateMount
  BY <1>1, <1>2, <1>5, <1>12 DEF CreateMount, Advance, children
<1>13. CASE PollMounts
  <2>1. CASE TryAgain("mounted")
    BY <1>1, <1>3, <1>4, <2>1
  <2>2. CASE ~TryAgain("mounted")
    BY <1>13, <2>2 DEF PollMounts, children
  <2> QED
    BY <2>1, <2>2
<1>14. CASE CreatePoint
  <2>1. CASE \E p \in todo : CreateAccessPoint(p, FALSE) /\ Fail("points")
    BY <1>1, <1>2, <2>1
  <2>2. ASSUME NEW p \in todo, pc' = "child", child' = [child EXCEPT ![p] = "wait"],
               UNCHANGED <<req, todo>>
        PROVE  PointsOnce'
    <3>1. pc = "points" /\ p \in AccessPoints
      BY <1>14, <2>2 DEF CreatePoint, Control, TypeOK, Requests
    <3> QED
      BY <2>2, <3>1 DEF Control, TypeOK
  <2> QED
    BY <1>14, <2>1, <2>2 DEF CreatePoint
<1>15. CASE PollChild
  <2>1. CASE TryAgain("child")
    BY <1>1, <1>3, <1>4, <2>1
  <2>2. CASE ~TryAgain("child")
    <3>1. PICK p \in todo : child[p] # "none" /\ todo' = todo \ {p}
      BY <1>15, <2>2 DEF PollChild
    <3>2. pc = "child" /\ pc' = "points" /\ UNCHANGED <<req, child>>
      BY <1>15, <2>2 DEF PollChild, Advance, children
    <3> QED
      BY <3>1, <3>2
  <2> QED
    BY <2>1, <2>2
<1>16. CASE Return
  BY <1>16 DEF Return, children
<1>17. CASE RollBackSucceeds \/ RollBackTimesOut
  BY <1>1, <1>17 DEF RollBackSucceeds, RollBackTimesOut
<1>18. ASSUME NEW p \in AccessPoints, PollPoint(p) PROVE PointsOnce'
  <2>1. UNCHANGED <<pc, req, todo>> /\ child[p] = "wait"
    BY <1>18 DEF PollPoint
  <2>2. \A q \in AccessPoints : child'[q] = "none" <=> child[q] = "none"
    BY <1>18, <2>1 DEF PollPoint, ChildEnds, Control, TypeOK
  <2>3. req.points \subseteq AccessPoints
    BY DEF Control, TypeOK, Requests
  <2> QED
    BY <2>1, <2>2, <2>3
<1>19. CASE \/ RollBackStep \/ ServiceStep \/ UNCHANGED vars
            \/ \E t \in TaskIds : TrackTask(t)
  BY <1>3, <1>19 DEF RollBackStep, ServiceStep, TrackTask, vars, children
<1> QED
  BY <1>6, <1>7, <1>8, <1>9, <1>10, <1>11, <1>12, <1>13, <1>14, <1>15, <1>16, <1>17, <1>18,
     <1>19 DEF Next, WorkerStep

(* Most steps conclude nothing, ...                                        *)
Quietly ==
    /\ UNCHANGED tasks \/ (\E t \in TaskIds : Task!Start(t) \/ Task!Record(t))
    /\ pc = "returned" <=> pc' = "returned"
    /\ Failed <=> Failed'
    /\ \A p \in AccessPoints : child[p] = "ended" <=> child'[p] = "ended"

(* ... and the others take the worker or a child to its end.               *)
WorkerEnds ==
    /\ pc # "returned" /\ ~Failed /\ UNCHANGED child
    /\ \/ Task!HandOver(CreateTask, "ok") /\ pc' = "returned"
       \/ Task!HandOver(CreateTask, "error") /\ pc' = "rollback"

PointEnds(p) ==
    /\ UNCHANGED pc
    /\ child[p] = "wait" /\ child' = [child EXCEPT ![p] = "ended"]
    /\ \E o \in {"ok", "error"} : Task!HandOver(p, o)

LEMMA NextEnds ==
  ASSUME Control, PointsOnce, [Next]_vars
  PROVE  Quietly \/ WorkerEnds \/ \E p \in AccessPoints : PointEnds(p)
<1> DEFINE Final == {"returned", "rollback", "rolledback", "timedout"}
<1> USE DEF children
<1>1. ASSUME NEW from, from \notin Final, Fail(from) PROVE WorkerEnds
  BY <1>1 DEF Fail, WorkerEnds, Failed
<1>2. ASSUME NEW from, from \notin Final, TryAgain(from) PROVE Quietly \/ WorkerEnds
  BY <1>1, <1>2 DEF TryAgain, Quietly, Failed
<1>3. ASSUME NEW from, NEW to, from \notin Final, to \notin Final, Advance(from, to)
      PROVE  Quietly
  BY <1>3 DEF Advance, Quietly, Failed
<1>4. CASE Request \/ RequestFilesystem
  BY <1>3, <1>4 DEF Request, Accept, Refuse, RequestFilesystem
<1>5. CASE PollFilesystem
  <2>1. CASE TryAgain("available")
    BY <1>2, <2>1
  <2>2. CASE ~TryAgain("available")
    BY <1>5, <2>2 DEF PollFilesystem, Quietly, Failed
  <2> QED
    BY <2>1, <2>2
<1>6. CASE SetBackup \/ SetLifecycle \/ SetPolicy
  BY <1>1, <1>3, <1>6 DEF SetBackup, SetLifecycle, SetPolicy
<1>7. CASE CreateMount
  BY <1>1, <1>3, <1>7 DEF CreateMount
<1>8. CASE PollMounts
  <2>1. CASE TryAgain("mounted")
    BY <1>2, <2>1
  <2>2. CASE ~TryAgain("mounted")
    BY <1>8, <2>2 DEF PollMounts, Quietly, Failed
  <2> QED
    BY <2>1, <2>2
<1>9. CASE CreatePoint
  <2>1. CASE Fail("points")
    BY <1>1, <2>1
  <2>2. CASE ~Fail("points")
    <3>1. PICK p \in todo : child' = [child EXCEPT ![p] = "wait"]
      BY <1>9, <2>2 DEF CreatePoint
    <3>2. pc = "points" /\ pc' = "child" /\ UNCHANGED tasks
      BY <1>9, <2>2 DEF CreatePoint
    <3>3. child[p] = "none"
      BY <3>2 DEF PointsOnce
    <3> QED
      BY <3>1, <3>2, <3>3 DEF Quietly, Failed, Control, TypeOK
  <2> QED
    BY <2>1, <2>2
<1>10. CASE PollChild
  <2>1. CASE TryAgain("child")
    BY <1>2, <2>1
  <2>2. CASE ~TryAgain("child")
    BY <1>3, <1>10, <2>2 DEF PollChild
  <2> QED
    BY <2>1, <2>2
<1>11. CASE Return
  BY <1>11 DEF Return, WorkerEnds, Failed
<1>12. CASE RollBackSucceeds \/ RollBackTimesOut
  BY <1>12 DEF RollBackSucceeds, RollBackTimesOut, Quietly, Failed
<1>13. ASSUME NEW p \in AccessPoints, PollPoint(p) PROVE Quietly \/ PointEnds(p)
  <2>1. CASE UNCHANGED <<child, tasks>>
    BY <1>13, <2>1 DEF PollPoint, Quietly, Failed
  <2>2. CASE \E o \in {"ok", "error"} : ChildEnds(p, o)
    BY <1>13, <2>2 DEF PollPoint, ChildEnds, PointEnds
  <2> QED
    BY <1>13, <2>1, <2>2 DEF PollPoint
<1>14. CASE RollBackStep \/ ServiceStep \/ UNCHANGED vars
  BY <1>14 DEF RollBackStep, ServiceStep, vars, Quietly, Failed
<1>15. CASE \E t \in TaskIds : TrackTask(t)
  BY <1>15 DEF TrackTask, Quietly, Failed
<1> QED
  BY <1>4, <1>5, <1>6, <1>7, <1>8, <1>9, <1>10, <1>11, <1>12, <1>13, <1>14, <1>15
     DEF Next, WorkerStep

(* So a goroutine has concluded when it is at its end, ...                 *)
LEMMA ConcludedStep ==
  ASSUME Control, PointsOnce, Concluded, [Next]_vars
  PROVE  Concluded'
<1>0. CreateTask \in TaskIds /\ \A p \in AccessPoints : p \in TaskIds /\ p # CreateTask
  BY TaskIdsAssumption DEF TaskIds
<1>1. outcome \in [TaskIds -> {"pending", "ok", "error"}]
  BY DEF Control, TypeOK, Task!TypeOK, Task!Outcome
<1>2. CASE Quietly
  <2>1. outcome' = outcome
    BY <1>2 DEF Quietly, Task!Start, Task!Record, tasks
  <2> QED
    BY <1>2, <2>1 DEF Quietly, Concluded
<1>3. CASE WorkerEnds
  <2>1. \A p \in AccessPoints : outcome'[p] = outcome[p]
    BY <1>0, <1>1, <1>3 DEF WorkerEnds, Task!HandOver
  <2>2. \/ outcome'[CreateTask] = "ok" /\ pc' = "returned"
        \/ outcome'[CreateTask] = "error" /\ pc' = "rollback"
    BY <1>0, <1>1, <1>3 DEF WorkerEnds, Task!HandOver
  <2> QED
    BY <1>3, <2>1, <2>2 DEF WorkerEnds, Concluded, Failed
<1>4. ASSUME NEW p \in AccessPoints, PointEnds(p) PROVE Concluded'
  <2>1. outcome'[CreateTask] = outcome[CreateTask] /\ pc' = pc
    BY <1>0, <1>1, <1>4 DEF PointEnds, Task!HandOver
  <2>2. \A q \in AccessPoints :
          IF q = p THEN outcome'[q] # "pending" /\ child'[q] = "ended"
                   ELSE outcome'[q] = outcome[q] /\ child'[q] = child[q]
    BY <1>0, <1>1, <1>4 DEF PointEnds, Task!HandOver, Control, TypeOK
  <2> QED
    BY <2>1, <2>2 DEF Concluded, Failed
<1> QED
  BY <1>2, <1>3, <1>4, NextEnds

(* ... and has not concluded before, although nothing in the actions looks *)
(* whether it has.                                                         *)
LEMMA TasksStep ==
  ASSUME Control, PointsOnce, Concluded, [Next]_vars
  PROVE  [Task!Next]_(Task!vars)
<1> USE DEF Task!Next, Task!vars, tasks
<1>1. outcome \in [TaskIds -> {"pending", "ok", "error"}]
  BY DEF Control, TypeOK, Task!TypeOK, Task!Outcome
<1>2. CASE Quietly
  BY <1>2 DEF Quietly
<1>3. CASE WorkerEnds
  <2>1. CreateTask \in TaskIds /\ outcome[CreateTask] = "pending"
    BY <1>1, <1>3 DEF WorkerEnds, Concluded, TaskIds
  <2>2. Task!Conclude(CreateTask, "ok") \/ Task!Conclude(CreateTask, "error")
    BY <1>3, <2>1 DEF WorkerEnds, Task!Conclude
  <2> QED
    BY <2>1, <2>2
<1>4. ASSUME NEW p \in AccessPoints, PointEnds(p) PROVE Task!Next
  <2>1. p \in TaskIds /\ outcome[p] = "pending"
    BY <1>1, <1>4 DEF PointEnds, Concluded, TaskIds
  <2> QED
    BY <1>4, <2>1 DEF PointEnds, Task!Conclude
<1> QED
  BY <1>2, <1>3, <1>4, NextEnds

-----------------------------------------------------------------------------
(* Every step keeps the core of the invariant. *)
LEMMA NextCoreInv == CoreInv /\ Concluded /\ [Next]_vars => CoreInv'
<1> SUFFICES ASSUME CoreInv, Concluded, [Next]_vars PROVE CoreInv'
  OBVIOUS
<1>1. CASE Request
  BY <1>1, RequestStep
<1>2. CASE WorkerStep
  BY <1>2, RequestFilesystemStep, PollFilesystemStep, SettingStep, CreateMountStep,
     PollMountsStep, CreatePointStep, PollChildStep, ReturnStep, LeaveRollBackStep
     DEF WorkerStep
<1>3. CASE \E p \in AccessPoints : PollPoint(p)
  BY <1>3, PollPointStep
<1>4. CASE RollBackStep
  BY <1>4, RollBackKeeps
<1>5. CASE \E t \in TaskIds : TrackTask(t)
  BY <1>5, TrackTaskStep
<1>6. CASE ServiceStep
  BY <1>6, ServiceKeeps
<1>7. CASE UNCHANGED vars
  <2> USE <1>7 DEF vars, efs, undo, children, tasks
  <2>1. TypeOK'
    BY DEF CoreInv, TypeOK, EfsTypeOK, Task!TypeOK
  <2>2. Progress'
    BY DEF CoreInv, Progress, Mounts, AllMountsAvailable, Failed
  <2>3. Registered' /\ TasksTell'
    BY DEF CoreInv, Registered, TasksTell, Failed
  <2>4. ~Faulty /\ TimeoutFirst => Removal'
    BY DEF CoreInv, Removal, Mounts, AllMountsAvailable
  <2> QED
    BY <2>1, <2>2, <2>3, <2>4 DEF CoreInv
<1> QED
  BY <1>1, <1>2, <1>3, <1>4, <1>5, <1>6, <1>7 DEF Next

(* And every step keeps what the goroutine of an access point tells: only  *)
(* the rollback takes away an access point that was seen available.        *)
LEMMA PointStep ==
  ASSUME CoreInv, [Next]_vars, NEW p \in AccessPoints, PointTells(p)
  PROVE  PointTells(p)'
<1> SUFFICES ASSUME outcome'[p] = "ok", ~Failed' PROVE point'[p] = "available"
  BY DEF PointTells
<1> USE DEF PointTells, Failed, CoreInv, efs, tasks, undo, children
<1>1. CASE Request
  BY <1>1 DEF Request, Accept, Refuse, Advance
<1>2. CASE WorkerStep
  <2>1. \A from : ~Fail(from) /\ (TryAgain(from) => UNCHANGED <<pc, outcome>>)
    BY DEF Fail, TryAgain
  <2>2. CASE RequestFilesystem \/ SetBackup \/ SetLifecycle \/ SetPolicy \/ CreateMount
    BY <2>1, <2>2 DEF RequestFilesystem, CreateFileSystem, SetBackup, SetLifecycle, SetPolicy,
       Set, CreateMount, CreateMountTarget, Call, Advance
  <2>3. CASE PollFilesystem \/ PollMounts \/ PollChild
    BY <2>1, <2>3 DEF PollFilesystem, PollMounts, PollChild, Advance
  <2>4. CASE CreatePoint
    <3>1. PICK q \in todo : CreateAccessPoint(q, TRUE) /\ UNCHANGED outcome /\ pc = "points"
      BY <2>1, <2>4 DEF CreatePoint
    <3>2. point[q] = "none" /\ point' = [point EXCEPT ![q] = "creating"]
      BY <3>1 DEF CreateAccessPoint, Call
    <3> QED
      BY <3>1, <3>2 DEF TypeOK, EfsTypeOK
  <2>5. CASE Return
    <3>1. outcome'[p] = outcome[p]
      BY <2>5 DEF Return, Task!HandOver, TypeOK, Task!TypeOK, TaskIds
    <3> QED
      BY <2>5, <3>1 DEF Return
  <2>6. ~RollBackSucceeds /\ ~RollBackTimesOut
    BY DEF RollBackSucceeds, RollBackTimesOut
  <2> QED
    BY <1>2, <2>2, <2>3, <2>4, <2>5, <2>6 DEF WorkerStep
<1>3. ASSUME NEW q \in AccessPoints, PollPoint(q) PROVE point'[p] = "available"
  <2>1. UNCHANGED <<efs, pc>>
    BY <1>3 DEF PollPoint
  <2>2. outcome'[p] = outcome[p] \/ (q = p /\ point[p] = "available")
    BY <1>3 DEF PollPoint, ChildEnds, Task!HandOver, TypeOK, Task!TypeOK, TaskIds
  <2> QED
    BY <2>1, <2>2
<1>4. ~RollBackStep
  BY DEF RollBackStep, RollBackFilesystem, RollBackMounts, Unmount, AwaitUnmounted, RollBackDone,
     Registered
<1>5. CASE \E t \in TaskIds : TrackTask(t)
  BY <1>5 DEF TrackTask, Task!Start, Task!Record
<1>6. CASE ServiceStep
  BY <1>6, ServiceProgress DEF ServiceStep, Progress, TypeOK
<1>7. CASE UNCHANGED vars
  BY <1>7 DEF vars
<1> QED
  BY <1>1, <1>2, <1>3, <1>4, <1>5, <1>6, <1>7 DEF Next

(* IInv holds in every reachable state. *)
THEOREM Invariance == Spec => []IInv
<1>1. IInv /\ [Next]_vars => IInv'
  <2>1. CoreInv => Control
    BY DEF CoreInv, Control
  <2> QED
    BY <2>1, NextCoreInv, PointStep, PointsOnceStep, ConcludedStep DEF IInv
<1> QED
  BY <1>1, InitIInv, PTL DEF Spec

(* Type correctness. *)
THEOREM TypeCorrect == Spec => []TypeOK
<1>1. IInv => TypeOK
  BY DEF IInv, CoreInv
<1> QED
  BY <1>1, Invariance, PTL

(* A create whose task says completed has provided the filesystem, the     *)
(* settings, the mount targets and the access points of its request, and   *)
(* they are usable, whatever calls failed on the way.                      *)
THEOREM CompletedProvides == Spec => []CompletedMeansProvisioned
<1>1. IInv => CompletedMeansProvisioned
  <2> SUFFICES ASSUME IInv, status[CreateTask] = "completed"
               PROVE  /\ fs = "available"
                      /\ {"backup", "lifecycle"} \subseteq setting
                      /\ req.policy => "policy" \in setting
                      /\ \A s \in req.subnets : mount[s] = "available"
                      /\ \A p \in req.points :
                            point[p] = "available" /\ status[p] = "completed"
    BY DEF CompletedMeansProvisioned
  <2> USE DEF IInv, CoreInv, AfterCreation, AtMounts, AtPoints
  <2>1. pc = "returned"
    BY DEF TasksTell, TaskIds
  <2>2. /\ fs = "available" /\ {"backup", "lifecycle"} \subseteq setting
        /\ req.policy => "policy" \in setting
    BY <2>1 DEF Progress
  <2>3. \A s \in req.subnets : mount[s] = "available"
    BY <2>1 DEF Progress, AllMountsAvailable
  <2>4. \A p \in req.points : status[p] = "completed"
    BY <2>1 DEF Progress
  <2>5. \A p \in req.points : p \in AccessPoints
    BY DEF TypeOK, Requests
  <2>6. \A p \in req.points : point[p] = "available"
    BY <2>1, <2>4, <2>5 DEF TasksTell, TaskIds, Failed, PointTells
  <2> QED
    BY <2>2, <2>3, <2>4, <2>6
<1> QED
  BY <1>1, Invariance, PTL

(* As long as calls do not fail, and the attempts of a wait last longer    *)
(* than the rollback does, a create that failed past its mount targets and *)
(* whose rollback was logged as successful has had its filesystem deleted. *)
THEOREM RollBackRemoves ==
  ASSUME ~Faulty, TimeoutFirst
  PROVE  Spec => []RolledBackMeansRemoved
<1>1. IInv => RolledBackMeansRemoved
  BY DEF IInv, CoreInv, Removal, Registered, RolledBackMeansRemoved
<1> QED
  BY <1>1, Invariance, PTL
=============================================================================
