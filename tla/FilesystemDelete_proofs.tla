----------------------- MODULE FilesystemDelete_proofs -----------------------
(***************************************************************************)
(* Proofs about FilesystemDelete, for any number of requests, mount        *)
(* targets, access points, users and attempts, with or without failing     *)
(* calls.  The invariant has a part for types, a part that holds whatever  *)
(* fails, and a part that holds as long as nothing fails.                  *)
(***************************************************************************)
EXTENDS FilesystemDelete, TLAPS

USE ServiceAssumption, AttemptsAssumption, MaxCallsAssumption

(* Every initial filesystem, untouched by any request, satisfies IInv.     *)
LEMMA InitIInv == Init => IInv
<1> SUFFICES ASSUME Init PROVE IInv
  OBVIOUS
<1> USE DEF Init, Task!Init
<1>1. TypeOK
  BY DEF TypeOK, EfsTypeOK, LifeCycle, Settings, Task!TypeOK, Task!Status, Task!Outcome,
     Place, LoopSets
<1>2. Safe
  BY DEF Safe, OneWinner
<1>3. SafeWithoutFailures
  BY DEF SafeWithoutFailures, GoneMeansSomeoneDidIt, NoUserLeft, PointsTaken, Answered
<1>4. Concluded
  BY DEF Concluded
<1> QED
  BY <1>1, <1>2, <1>3, <1>4 DEF IInv

-----------------------------------------------------------------------------
(* Types.  First the service, then the tasks, then what a request does to  *)
(* its own place, loop, list and count.                                    *)

(* The calls of a request, and the service's own progress, keep its types. *)
LEMMA EfsTypes ==
  ASSUME EfsTypeOK,
         \/ UNCHANGED efs
         \/ Environment
         \/ \E ok \in BOOLEAN : \/ DeleteFileSystem(ok)
                                \/ \E s : DeleteMountTarget(s, ok)
                                \/ \E p : DeleteAccessPoint(p, ok)
  PROVE  EfsTypeOK'
<1> USE DEF EfsTypeOK, LifeCycle, efs
<1>1. CASE UNCHANGED efs
  BY <1>1
<1>2. CASE Environment
  BY <1>2 DEF Environment, FileSystemProgress, MountProgress, PointProgress, Created
<1>3. ASSUME NEW ok \in BOOLEAN, DeleteFileSystem(ok) PROVE EfsTypeOK'
  BY <1>3 DEF DeleteFileSystem, Call
<1>4. ASSUME NEW ok \in BOOLEAN, NEW s, DeleteMountTarget(s, ok) PROVE EfsTypeOK'
  BY <1>4 DEF DeleteMountTarget, Call
<1>5. ASSUME NEW ok \in BOOLEAN, NEW p, DeleteAccessPoint(p, ok) PROVE EfsTypeOK'
  BY <1>5 DEF DeleteAccessPoint, Call
<1> QED
  BY <1>1, <1>2, <1>3, <1>4, <1>5

(* The actions of FlywheelTask keep its types. *)
LEMMA TaskTypes ==
  ASSUME Task!TypeOK,
         \/ UNCHANGED tasks
         \/ \E r \in Requests :
               Task!Start(r) \/ Task!Record(r) \/ Task!HandOver(r, "ok") \/ Task!HandOver(r, "error")
  PROVE  Task!TypeOK'
  BY DEF Task!TypeOK, Task!Status, Task!Outcome, Task!Start, Task!Record, Task!HandOver,
     Task!Truth, tasks

(* Setting one number of one request's calls changes nothing else. *)
LEMMA LeftSet ==
  ASSUME left \in [Requests -> [Users -> Nat]], NEW r \in Requests, NEW u, NEW n,
         u \in Users => n \in Nat,
         left' = [left EXCEPT ![r][u] = n]
  PROVE  /\ \E f \in [Users -> Nat] : left' = [left EXCEPT ![r] = f]
         /\ \A q \in Requests : q # r => left'[q] = left[q]
         /\ \A v \in Users : v # u => left'[r][v] = left[r][v]
         /\ u \in Users => left'[r][u] = n
<1> DEFINE g == [left[r] EXCEPT ![u] = n]
<1>1. left' = [left EXCEPT ![r] = g]
  OBVIOUS
<1>2. g \in [Users -> Nat]
  <2>1. g = [v \in Users |-> IF v = u THEN n ELSE left[r][v]]
    OBVIOUS
  <2> QED
    BY <2>1
<1> QED
  BY <1>1, <1>2

(* What one step does to the calls of a request. *)
LeftStep(r) == left' = left \/ \E f \in [Users -> Nat] : left' = [left EXCEPT ![r] = f]

(* It keeps the type, and the calls of the others. *)
LEMMA LeftStepFacts ==
  ASSUME left \in [Requests -> [Users -> Nat]], NEW r \in Requests, LeftStep(r)
  PROVE  /\ left' \in [Requests -> [Users -> Nat]]
         /\ \A q \in Requests : q # r => left'[q] = left[q]
  BY DEF LeftStep

(* What one step of a request does to what is its own. *)
LocalStep(r) ==
    /\ at' = at \/ \E to \in Place : at' = [at EXCEPT ![r] = to]
    /\ tries' = tries \/ \E n \in Nat : tries' = [tries EXCEPT ![r] = n]
    /\ todo' = todo \/ \E S \in LoopSets : todo' = [todo EXCEPT ![r] = S]
    /\ seen' = seen \/ seen' = [seen EXCEPT ![r] = mount]
    /\ LeftStep(r)
    /\ touched' \in {touched, touched \cup {r}}
    /\ users' \in [Users -> Nat]

(* What one step of a request does to the service and to the tasks. *)
SharedStep(r) ==
    /\ \/ UNCHANGED efs
       \/ \E ok \in BOOLEAN : \/ DeleteFileSystem(ok)
                              \/ \E s : DeleteMountTarget(s, ok)
                              \/ \E p : DeleteAccessPoint(p, ok)
    /\ UNCHANGED tasks \/ Task!HandOver(r, "ok") \/ Task!HandOver(r, "error")

(* Every step of a request has that form for what is shared. *)
LEMMA RequestShared ==
  ASSUME NEW r \in Requests, RequestStep(r)
  PROVE  SharedStep(r)
<1> USE DEF SharedStep
<1>1. CASE CheckFilesystem(r) \/ CheckMounts(r) \/ ListPoints(r) \/ ListUsers(r) \/ ListMounts(r)
  BY <1>1 DEF CheckFilesystem, CheckMounts, ListPoints, ListUsers, ListMounts, Answer, Fail, tasks
<1>2. CASE DeletePoint(r)
  BY <1>2 DEF DeletePoint, Answer
<1>3. CASE LookUpUser(r) \/ StripUser(r)
  BY <1>3 DEF LookUpUser, StripUser, StripOne, LeaveUser, KeepOn, Answer, tasks
<1>4. CASE DeleteMount(r)
  BY <1>4 DEF DeleteMount, Answer, Fail
<1>5. CASE AwaitUnmounted(r)
  BY <1>5 DEF AwaitUnmounted, Answer, TryAgain, Fail
<1>6. CASE DeleteTheFilesystem(r)
  BY <1>6 DEF DeleteTheFilesystem, TryAgain, Fail, tasks
<1> QED
  BY <1>1, <1>2, <1>3, <1>4, <1>5, <1>6 DEF RequestStep

(* And for what is its own: nine shapes of a step, one for each operator   *)
(* the actions are made of.                                                *)
LEMMA RequestLocal ==
  ASSUME TypeOK, NEW r \in Requests, RequestStep(r)
  PROVE  LocalStep(r)
<1> USE DEF LocalStep, TypeOK, Place, Answered
<1>0. left' = left => LeftStep(r)
  BY DEF LeftStep
<1>1. \A from, to : Answer(r, from, to) /\ to \in Place /\ users' \in [Users -> Nat] => LocalStep(r)
  BY <1>0 DEF Answer, Advance
<1>2. \A from : Fail(r, from) /\ users' \in [Users -> Nat] => LocalStep(r)
  BY <1>0 DEF Fail, Advance
<1>3. \A from, n : TryAgain(r, from, n) /\ users' \in [Users -> Nat] => LocalStep(r)
  <2>1. tries[r] + 1 \in Nat
    OBVIOUS
  <2> QED
    BY <1>0, <1>2, <2>1 DEF TryAgain
<1>4. \A from, x : Drop(r, from, x) /\ touched' \in {touched, touched \cup {r}}
                      /\ LeftStep(r)
                      /\ users' \in [Users -> Nat] => LocalStep(r)
  <2>1. \A x : todo[r] \ {x} \in LoopSets
    BY DEF LoopSets
  <2> QED
    BY <2>1 DEF Drop
<1>5. CASE CheckFilesystem(r) \/ CheckMounts(r)
  BY <1>1, <1>5 DEF CheckFilesystem, CheckMounts
<1>6. CASE ListPoints(r)
  <2>1. Points \in LoopSets
    BY DEF Points, LoopSets
  <2> QED
    BY <1>0, <1>1, <1>6, <2>1 DEF ListPoints, Advance
<1>7. CASE DeletePoint(r)
  BY <1>0, <1>1, <1>4, <1>7 DEF DeletePoint
<1>8. CASE ListUsers(r)
  <2>1. UsersLeft \in LoopSets
    BY DEF LoopSets, UsersLeft
  <2>2. CASE Fail(r, "users")
    BY <1>2, <1>8, <2>2 DEF ListUsers
  <2>3. CASE ~Fail(r, "users")
    BY <1>0, <1>8, <2>1, <2>3 DEF ListUsers, Advance
  <2> QED
    BY <2>2, <2>3
<1>9. CASE LookUpUser(r)
  <2>1. ASSUME NEW u, left' = [left EXCEPT ![r][u] = users[u]], KeepOn, users' = users
        PROVE  LocalStep(r)
    <3>1. LeftStep(r)
      BY <2>1, LeftSet DEF LeftStep
    <3> QED
      BY <2>1, <3>1 DEF KeepOn
  <2> QED
    BY <1>0, <1>1, <1>4, <1>9, <2>1 DEF LookUpUser
<1>10. CASE StripUser(r)
  <2>1. PICK u \in Users : StripOne(r, u)
    BY <1>10 DEF StripUser
  <2>2. users[u] \in Nat /\ left[r][u] \in Nat
    OBVIOUS
  <2>3. users' \in [Users -> Nat]
    BY <2>1, <2>2 DEF StripOne
  <2>4. LeftStep(r)
    <3>1. \E n \in Nat : left' = [left EXCEPT ![r][u] = n]
      BY <2>1, <2>2, SMTT(20) DEF StripOne, LeaveUser
    <3> QED
      BY <3>1, LeftSet DEF LeftStep
  <2>5. LeaveUser(r, u) \/ KeepOn
    BY <2>1 DEF StripOne
  <2> QED
    BY <1>4, <2>3, <2>4, <2>5 DEF LeaveUser, KeepOn
<1>11. CASE ListMounts(r)
  <2>1. Mounts \in LoopSets
    BY DEF Mounts, LoopSets
  <2>2. CASE Fail(r, "list")
    BY <1>2, <1>11, <2>2 DEF ListMounts
  <2>3. CASE ~Fail(r, "list")
    BY <1>0, <1>11, <2>1, <2>3 DEF ListMounts, Advance
  <2> QED
    BY <2>2, <2>3
<1>12. CASE DeleteMount(r)
  BY <1>0, <1>1, <1>2, <1>4, <1>12 DEF DeleteMount
<1>13. CASE AwaitUnmounted(r)
  BY <1>1, <1>3, <1>13 DEF AwaitUnmounted
<1>14. CASE DeleteTheFilesystem(r)
  BY <1>0, <1>3, <1>14 DEF DeleteTheFilesystem, Advance
<1> QED
  BY <1>5, <1>6, <1>7, <1>8, <1>9, <1>10, <1>11, <1>12, <1>13, <1>14 DEF RequestStep

(* Every step keeps the types. *)
LEMMA TypeStep == TypeOK /\ [Next]_vars => TypeOK'
<1> SUFFICES ASSUME TypeOK, [Next]_vars PROVE TypeOK'
  OBVIOUS
<1>1. ASSUME NEW r \in Requests, RequestStep(r) PROVE TypeOK'
  <2>1. EfsTypeOK'
    BY <1>1, RequestShared, EfsTypes DEF SharedStep, TypeOK
  <2>2. Task!TypeOK'
    BY <1>1, RequestShared, TaskTypes DEF SharedStep, TypeOK
  <2>3. LocalStep(r)
    BY <1>1, RequestLocal
  <2>4. mount \in [Subnets -> LifeCycle]
    BY DEF TypeOK, EfsTypeOK
  <2>5. left' \in [Requests -> [Users -> Nat]]
    BY <2>3, LeftStepFacts DEF LocalStep, TypeOK
  <2>6. at' \in [Requests -> Place] /\ tries' \in [Requests -> Nat]
    BY <2>3 DEF LocalStep, TypeOK
  <2>7. todo' \in [Requests -> LoopSets]
    BY <2>3 DEF LocalStep, TypeOK
  <2>8. seen' \in [Requests -> [Subnets -> LifeCycle]]
    <3>1. seen' = seen \/ seen' = [seen EXCEPT ![r] = mount]
      BY <2>3 DEF LocalStep
    <3>2. seen \in [Requests -> [Subnets -> LifeCycle]]
      BY DEF TypeOK
    <3> QED
      BY <2>4, <3>1, <3>2
  <2>9. users' \in [Users -> Nat] /\ touched' \in SUBSET Requests
    BY <2>3 DEF LocalStep, TypeOK
  <2> QED
    BY <2>1, <2>2, <2>5, <2>6, <2>7, <2>8, <2>9 DEF TypeOK
<1>2. ASSUME NEW r \in Requests, TrackTask(r) PROVE TypeOK'
  <2>1. Task!TypeOK'
    BY <1>2, TaskTypes DEF TrackTask, TypeOK
  <2>2. EfsTypeOK'
    BY <1>2, EfsTypes DEF TrackTask, TypeOK
  <2> QED
    BY <1>2, <2>1, <2>2 DEF TrackTask, TypeOK, local
<1>3. ASSUME ServiceStep \/ UNCHANGED vars PROVE TypeOK'
  <2>1. Task!TypeOK'
    BY <1>3, TaskTypes DEF ServiceStep, TypeOK, vars
  <2>2. EfsTypeOK'
    BY <1>3, EfsTypes DEF ServiceStep, TypeOK, vars
  <2> QED
    BY <1>3, <2>1, <2>2 DEF ServiceStep, TypeOK, local, vars
<1> QED
  BY <1>1, <1>2, <1>3 DEF Next

(* The invariant's first part: type correctness. *)
THEOREM TypeCorrect == Spec => []TypeOK
<1>1. Init => TypeOK
  BY InitIInv DEF IInv
<1> QED
  BY <1>1, TypeStep, PTL DEF Spec

-----------------------------------------------------------------------------
(* What the client that polls the task of a request is told.               *)

(* A step of a request leaves its task alone, or takes it to its end.      *)
End == {"returned", "failed"}

LEMMA RequestEnds ==
  ASSUME TypeOK, NEW r \in Requests, RequestStep(r)
  PROVE  /\ at[r] \notin End
         /\ \/ at'[r] \notin End /\ UNCHANGED tasks
            \/ at'[r] = "returned" /\ Task!HandOver(r, "ok")
            \/ at'[r] = "failed" /\ Task!HandOver(r, "error")
<1> USE DEF TypeOK, End
<1>1. \A from : Fail(r, from) => at'[r] = "failed" /\ Task!HandOver(r, "error") /\ at[r] = from
  BY DEF Fail, Advance
<1>2. \A from, to : Answer(r, from, to) => at'[r] = to /\ UNCHANGED tasks /\ at[r] = from
  BY DEF Answer, Advance
<1>3. \A from, n : TryAgain(r, from, n) =>
          Fail(r, from) \/ (UNCHANGED <<at, tasks>> /\ at[r] = from)
  BY DEF TryAgain, tasks
<1>4. CASE CheckFilesystem(r) \/ CheckMounts(r)
  BY <1>2, <1>4 DEF CheckFilesystem, CheckMounts
<1>5. CASE ListPoints(r)
  BY <1>2, <1>5 DEF ListPoints, Advance
<1>6. CASE DeletePoint(r)
  <2>1. CASE Answer(r, "unpoint", "broken") \/ Answer(r, "unpoint", "users")
    BY <1>2, <2>1
  <2>2. ASSUME NEW p, Drop(r, "unpoint", p), UNCHANGED tasks
        PROVE  at[r] = "unpoint" /\ at'[r] = "unpoint" /\ UNCHANGED tasks
    BY <2>2 DEF Drop
  <2> QED
    BY <1>6, <2>1, <2>2 DEF DeletePoint
<1>7. CASE ListUsers(r) \/ ListMounts(r)
  BY <1>1, <1>7 DEF ListUsers, ListMounts, Advance
<1>8. CASE LookUpUser(r)
  BY <1>2, <1>8 DEF LookUpUser, AtLoop, KeepOn, Drop, tasks
<1>9. CASE StripUser(r)
  BY <1>9 DEF StripUser, StripOne, LeaveUser, KeepOn, Drop, tasks
<1>10. CASE DeleteMount(r)
  <2>1. CASE Fail(r, "unmount") \/ Answer(r, "unmount", "await")
    BY <1>1, <1>2, <2>1
  <2>2. ASSUME NEW s, Drop(r, "unmount", s), UNCHANGED tasks
        PROVE  at[r] = "unmount" /\ at'[r] = "unmount" /\ UNCHANGED tasks
    BY <2>2 DEF Drop
  <2> QED
    BY <1>10, <2>1, <2>2 DEF DeleteMount
<1>11. CASE AwaitUnmounted(r)
  BY <1>1, <1>2, <1>3, <1>11 DEF AwaitUnmounted
<1>12. CASE DeleteTheFilesystem(r)
  <2>1. CASE TryAgain(r, "delete", DeleteAttempts)
    BY <1>1, <1>3, <2>1
  <2>2. CASE Advance(r, "delete", "returned") /\ Task!HandOver(r, "ok")
    BY <2>2 DEF Advance
  <2> QED
    BY <1>12, <2>1, <2>2 DEF DeleteTheFilesystem
<1> QED
  BY <1>4, <1>5, <1>6, <1>7, <1>8, <1>9, <1>10, <1>11, <1>12 DEF RequestStep

(* So it has concluded when it is at its end, ...                          *)
LEMMA ConcludedStep == TypeOK /\ Concluded /\ [Next]_vars => Concluded'
<1> SUFFICES ASSUME TypeOK, Concluded, [Next]_vars PROVE Concluded'
  OBVIOUS
<1> USE DEF Concluded
<1>1. ASSUME NEW r \in Requests, RequestStep(r) PROVE Concluded'
  <2>1. \A q \in Requests : q # r => at'[q] = at[q] /\ outcome'[q] = outcome[q]
    BY <1>1, RequestLocal, RequestEnds
       DEF LocalStep, Task!HandOver, TypeOK, Task!TypeOK, tasks
  <2>2. /\ outcome'[r] = "ok" <=> at'[r] = "returned"
        /\ outcome'[r] = "error" <=> at'[r] = "failed"
    BY <1>1, RequestEnds DEF End, Task!HandOver, TypeOK, Task!TypeOK, tasks
  <2> QED
    BY <2>1, <2>2
<1>2. ASSUME NEW r \in Requests, TrackTask(r) PROVE Concluded'
  BY <1>2 DEF TrackTask, Task!Start, Task!Record, local
<1>3. ASSUME ServiceStep \/ UNCHANGED vars PROVE Concluded'
  BY <1>3 DEF ServiceStep, local, tasks, vars
<1> QED
  BY <1>1, <1>2, <1>3 DEF Next

(* ... and has never concluded before, although nothing in its actions     *)
(* looks: every one of them is over at its end.                            *)
LEMMA RequestConcludes ==
  ASSUME TypeOK, Concluded, NEW r \in Requests, RequestStep(r)
  PROVE  UNCHANGED tasks \/ Task!Conclude(r, "ok") \/ Task!Conclude(r, "error")
<1>1. outcome[r] = "pending"
  BY RequestEnds DEF End, Concluded, TypeOK, Task!TypeOK, Task!Outcome
<1> QED
  BY <1>1, RequestEnds DEF Task!Conclude

(* Every task of a deletion keeps FlywheelTask's promise. *)
THEOREM TasksKeepPromise == Spec => Task!Spec
<1>1. Init => TypeOK /\ Concluded /\ Task!Init
  BY InitIInv DEF IInv, Init
<1>2. TypeOK /\ Concluded /\ [Next]_vars => [Task!Next]_(Task!vars)
  <2> SUFFICES ASSUME TypeOK, Concluded, [Next]_vars PROVE [Task!Next]_(Task!vars)
    OBVIOUS
  <2> USE DEF Task!Next, Task!vars, tasks
  <2>1. ASSUME NEW r \in Requests, RequestStep(r) PROVE [Task!Next]_(Task!vars)
    BY <2>1, RequestConcludes
  <2>2. ASSUME NEW r \in Requests, TrackTask(r) PROVE Task!Next
    BY <2>2 DEF TrackTask
  <2>3. ServiceStep \/ UNCHANGED vars => UNCHANGED tasks
    BY DEF ServiceStep, vars
  <2> QED
    BY <2>1, <2>2, <2>3 DEF Next
<1> QED
  BY <1>1, <1>2, TypeStep, ConcludedStep, PTL DEF Spec, Task!Spec

-----------------------------------------------------------------------------
(* What holds whatever fails. *)

(* A deletion of the filesystem is never taken back, and no mount target   *)
(* appears after it.                                                       *)
LEMMA DeletionIsFinal ==
  ASSUME EfsTypeOK,
         fs # "none",
         fs \in {"deleting", "deleted"} => Mounts = {},
         \/ UNCHANGED efs
         \/ Environment
         \/ \E ok \in BOOLEAN : \/ DeleteFileSystem(ok)
                                \/ \E s : DeleteMountTarget(s, ok)
                                \/ \E p : DeleteAccessPoint(p, ok)
  PROVE  /\ fs' # "none"
         /\ fs' \in {"deleting", "deleted"} => Mounts' = {}
         /\ fs \in {"deleting", "deleted"} => fs' \in {"deleting", "deleted"}
<1> USE DEF EfsTypeOK, efs, Mounts
<1>1. CASE UNCHANGED efs
  BY <1>1
<1>2. CASE Environment
  <2>1. CASE FileSystemProgress
    BY <2>1 DEF FileSystemProgress, Created
  <2>2. ASSUME NEW s \in Subnets, MountProgress(s)
        PROVE  fs' = fs /\ (Mounts = {} => Mounts' = {})
    BY <2>2 DEF MountProgress
  <2>3. ASSUME NEW p \in AccessPoints, PointProgress(p)
        PROVE  fs' = fs /\ Mounts' = Mounts
    BY <2>3 DEF PointProgress
  <2> QED
    BY <1>2, <2>1, <2>2, <2>3 DEF Environment
<1>3. ASSUME NEW ok \in BOOLEAN, DeleteFileSystem(ok)
      PROVE  \/ UNCHANGED efs
             \/ fs' = "deleting" /\ Mounts = {} /\ mount' = mount
  BY <1>3 DEF DeleteFileSystem, Call
<1>4. ASSUME NEW ok \in BOOLEAN, NEW s, DeleteMountTarget(s, ok)
      PROVE  fs' = fs /\ (Mounts = {} => Mounts' = {})
  BY <1>4 DEF DeleteMountTarget, Call
<1>5. ASSUME NEW ok \in BOOLEAN, NEW p, DeleteAccessPoint(p, ok)
      PROVE  fs' = fs /\ Mounts' = Mounts
  BY <1>5 DEF DeleteAccessPoint, Call
<1> QED
  BY <1>1, <1>2, <1>3, <1>4, <1>5

(* Only one step tells a request of success: the one in which its deletion *)
(* of an available filesystem without mount targets was accepted.          *)
LEMMA SuccessIsDeletion ==
  ASSUME NEW r \in Requests, RequestStep(r), Task!TypeOK, outcome'[r] = "ok", outcome[r] # "ok"
  PROVE  /\ fs = "available"
         /\ fs' = "deleting"
<1> USE DEF Task!TypeOK, Task!HandOver
<1>1. \A from : Fail(r, from) => outcome'[r] = "error"
  BY DEF Fail
<1>2. \A from, n : TryAgain(r, from, n) => outcome'[r] # "ok"
  BY <1>1 DEF TryAgain, tasks
<1>3. DeleteTheFilesystem(r)
  <2>1. ~CheckFilesystem(r) /\ ~CheckMounts(r) /\ ~ListPoints(r)
    BY DEF CheckFilesystem, CheckMounts, ListPoints, Answer, tasks
  <2>2. ~DeletePoint(r) /\ ~LookUpUser(r) /\ ~StripUser(r)
    BY DEF DeletePoint, LookUpUser, StripUser, StripOne, LeaveUser, KeepOn, Answer, tasks
  <2>3. ~ListUsers(r) /\ ~ListMounts(r)
    BY <1>1 DEF ListUsers, ListMounts, tasks
  <2>4. ~DeleteMount(r)
    BY <1>1 DEF DeleteMount, Answer, tasks
  <2>5. ~AwaitUnmounted(r)
    BY <1>2 DEF AwaitUnmounted, Answer, tasks
  <2> QED
    BY <2>1, <2>2, <2>3, <2>4, <2>5 DEF RequestStep
<1>4. DeleteFileSystem(TRUE)
  BY <1>2, <1>3 DEF DeleteTheFilesystem
<1> QED
  BY <1>4 DEF DeleteFileSystem, Call

(* Every step keeps what holds whatever fails. *)
LEMMA SafeStep == TypeOK /\ Concluded /\ Safe /\ [Next]_vars => Safe'
<1> SUFFICES ASSUME TypeOK, Concluded, Safe, [Next]_vars PROVE Safe'
  OBVIOUS
<1>1. EfsTypeOK /\ Task!TypeOK
  BY DEF TypeOK
<1>2. ASSUME NEW r \in Requests, RequestStep(r) PROVE Safe'
  <2>1. /\ fs' # "none"
        /\ fs' \in {"deleting", "deleted"} => Mounts' = {}
        /\ fs \in {"deleting", "deleted"} => fs' \in {"deleting", "deleted"}
    BY <1>1, <1>2, RequestShared, DeletionIsFinal DEF SharedStep, Safe
  <2>2. /\ \A q \in Requests : q # r => outcome'[q] = outcome[q]
        /\ outcome[r] # "pending" => outcome'[r] = outcome[r]
        /\ status' = status
    BY <1>1, <1>2, RequestConcludes DEF Task!Conclude, Task!HandOver, Task!TypeOK, tasks
  <2>3. outcome'[r] = "ok" /\ outcome[r] # "ok" => fs = "available" /\ fs' = "deleting"
    BY <1>1, <1>2, SuccessIsDeletion
  <2>4. \A q \in Requests : outcome'[q] = "ok" => fs' \in {"deleting", "deleted"}
    BY <2>1, <2>2, <2>3 DEF Safe
  <2>5. \A q \in Requests : status'[q] = "completed" => outcome'[q] = "ok"
    BY <2>2 DEF Safe
  <2>6. OneWinner'
    BY <2>2, <2>3 DEF Safe, OneWinner
  <2>7. ASSUME NEW q \in Requests, at'[q] \in {"request", "mounts", "points", "refused"}
        PROVE  q \notin touched'
    <3> USE DEF TypeOK, Safe
    <3>1. CASE DeletePoint(r)
      BY <1>2, <2>7, <3>1 DEF DeletePoint, Drop, Answer, Advance
    <3>2. CASE CheckFilesystem(r) \/ CheckMounts(r) \/ ListPoints(r)
      BY <2>7, <3>2 DEF CheckFilesystem, CheckMounts, ListPoints, Answer, Advance
    <3>3. CASE ListUsers(r) \/ ListMounts(r)
      BY <2>7, <3>3 DEF ListUsers, ListMounts, Fail, Advance
    <3>4. CASE LookUpUser(r) \/ StripUser(r)
      BY <2>7, <3>4 DEF LookUpUser, StripUser, StripOne, LeaveUser, KeepOn, AtLoop, Drop,
         Answer, Advance
    <3>5. CASE DeleteMount(r)
      BY <2>7, <3>5 DEF DeleteMount, Drop, Answer, Fail, Advance
    <3>6. CASE AwaitUnmounted(r) \/ DeleteTheFilesystem(r)
      BY <2>7, <3>6 DEF AwaitUnmounted, DeleteTheFilesystem, TryAgain, Answer, Fail, Advance
    <3> QED
      BY <1>2, <3>1, <3>2, <3>3, <3>4, <3>5, <3>6 DEF RequestStep
  <2> QED
    BY <2>1, <2>4, <2>5, <2>6, <2>7 DEF Safe
<1>3. ASSUME NEW r \in Requests, TrackTask(r) PROVE Safe'
  <2>1. \A q \in Requests : status'[q] = "completed" => outcome'[q] = "ok"
    BY <1>1, <1>3 DEF TrackTask, Task!Start, Task!Record, Task!Truth, Task!TypeOK,
       Task!Outcome, Safe
  <2>2. outcome' = outcome
    BY <1>3 DEF TrackTask, Task!Start, Task!Record
  <2> QED
    BY <1>3, <2>1, <2>2 DEF TrackTask, local, efs, Safe, OneWinner, Mounts
<1>4. ASSUME ServiceStep \/ UNCHANGED vars PROVE Safe'
  <2>1. /\ fs' # "none"
        /\ fs' \in {"deleting", "deleted"} => Mounts' = {}
        /\ fs \in {"deleting", "deleted"} => fs' \in {"deleting", "deleted"}
    BY <1>1, <1>4, DeletionIsFinal DEF ServiceStep, vars, Safe
  <2> QED
    BY <1>4, <2>1 DEF ServiceStep, vars, local, tasks, Safe, OneWinner
<1> QED
  BY <1>2, <1>3, <1>4 DEF Next

-----------------------------------------------------------------------------
(* What holds as long as calls do not fail. *)

(* Without failing calls, the step that deletes the filesystem is the one  *)
(* that concludes a request with success, after all the others of it.      *)
LEMMA DeletionIsSuccess ==
  ASSUME TypeOK, ~Faulty, NEW r \in Requests, RequestStep(r), fs' # fs
  PROVE  at[r] = "delete" /\ outcome'[r] = "ok"
<1>1. \A s, ok : DeleteMountTarget(s, ok) => fs' = fs
  BY DEF DeleteMountTarget, Call, efs
<1>2. \A p, ok : DeleteAccessPoint(p, ok) => fs' = fs
  BY DEF DeleteAccessPoint, Call, efs
<1>3. DeleteTheFilesystem(r)
  <2>1. ~CheckFilesystem(r) /\ ~CheckMounts(r) /\ ~ListPoints(r)
    BY DEF CheckFilesystem, CheckMounts, ListPoints, efs
  <2>2. ~ListUsers(r) /\ ~LookUpUser(r) /\ ~StripUser(r) /\ ~ListMounts(r) /\ ~AwaitUnmounted(r)
    BY DEF ListUsers, LookUpUser, StripUser, ListMounts, AwaitUnmounted, efs
  <2>3. ~DeletePoint(r)
    BY <1>2 DEF DeletePoint, efs
  <2>4. ~DeleteMount(r)
    BY <1>1 DEF DeleteMount, efs
  <2> QED
    BY <2>1, <2>2, <2>3, <2>4 DEF RequestStep
<1>4. ~DeleteFileSystem(FALSE)
  BY DEF DeleteFileSystem, Call, efs
<1> QED
  BY <1>3, <1>4 DEF DeleteTheFilesystem, Advance, Task!HandOver, TypeOK, Task!TypeOK

(* No other step of a request has to do with the users.                    *)
LEMMA OtherStep ==
  ASSUME NEW r \in Requests, RequestStep(r), ~LookUpUser(r), ~StripUser(r)
  PROVE  UNCHANGED <<users, left>>
<1>1. CASE CheckFilesystem(r) \/ CheckMounts(r) \/ ListPoints(r) \/ DeletePoint(r)
  BY <1>1 DEF CheckFilesystem, CheckMounts, ListPoints, DeletePoint, Answer
<1>2. CASE ListUsers(r) \/ ListMounts(r) \/ DeleteMount(r)
  BY <1>2 DEF ListUsers, ListMounts, DeleteMount, Answer, Fail
<1>3. CASE AwaitUnmounted(r) \/ DeleteTheFilesystem(r)
  BY <1>3 DEF AwaitUnmounted, DeleteTheFilesystem, TryAgain, Answer, Fail
<1> QED
  BY <1>1, <1>2, <1>3 DEF RequestStep

(* And the places after the users are reached only from there.             *)
LEMMA OtherPlace ==
  ASSUME TypeOK, NEW r \in Requests, RequestStep(r),
         ~ListUsers(r), ~LookUpUser(r), ~StripUser(r)
  PROVE  /\ at[r] # "unuser" /\ at'[r] # "unuser"
         /\ at'[r] \in {"list", "unmount", "await", "delete"} =>
               at[r] \in {"list", "unmount", "await", "delete"}
<1> USE DEF TypeOK
<1>1. CASE CheckFilesystem(r) \/ CheckMounts(r) \/ ListPoints(r)
  BY <1>1 DEF CheckFilesystem, CheckMounts, ListPoints, Answer, Advance
<1>2. CASE DeletePoint(r)
  BY <1>2 DEF DeletePoint, Drop, Answer, Advance
<1>3. CASE ListMounts(r)
  BY <1>3 DEF ListMounts, Fail, Advance
<1>4. CASE DeleteMount(r)
  BY <1>4 DEF DeleteMount, Drop, Answer, Fail, Advance
<1>5. CASE AwaitUnmounted(r)
  BY <1>5 DEF AwaitUnmounted, TryAgain, Answer, Fail, Advance
<1>6. CASE DeleteTheFilesystem(r)
  BY <1>6 DEF DeleteTheFilesystem, TryAgain, Fail, Advance
<1> QED
  BY <1>1, <1>2, <1>3, <1>4, <1>5, <1>6 DEF RequestStep

(* The session for the users may make every call that deleting one takes. *)
LEMMA MayDeleteUsers == Permitted(LookUpActions) /\ Permitted(StripActions)
  BY DEF Permitted, LookUpActions, StripActions, UserDeleteActions

(* What a call for a user does as long as calls do not fail.               *)
LEMMA StripFacts ==
  ASSUME TypeOK, ~Faulty, NEW r \in Requests, NEW u \in Users, StripOne(r, u)
  PROVE  /\ \A v \in Users : v # u => users'[v] = users[v] /\ left'[r][v] = left[r][v]
         /\ \A q \in Requests : q # r => left'[q] = left[q]
         /\ \/ users'[u] = users[u] - 1 /\ left[r][u] = users[u] /\ left'[r][u] = users'[u]
            \/ users'[u] = users[u] /\ users[u] < left[r][u] /\ left'[r][u] \in {0, users[u]}
         /\ at' = at
         /\ \/ todo' = todo /\ left'[r][u] # 0
            \/ todo' = [todo EXCEPT ![r] = @ \ {u}] /\ left'[r][u] = 0
<1> USE DEF TypeOK
<1>1. users[u] \in Nat /\ left[r][u] \in Nat
  OBVIOUS
<1>2. \E n \in Nat : left' = [left EXCEPT ![r][u] = n]
  BY <1>1 DEF StripOne, LeaveUser
<1>3. /\ \A v \in Users : v # u => left'[r][v] = left[r][v]
      /\ \A q \in Requests : q # r => left'[q] = left[q]
  BY <1>2, LeftSet
<1>4. \A n \in Nat : left' = [left EXCEPT ![r][u] = n] => left'[r][u] = n
  BY LeftSet
<1>5. \A v \in Users : v # u => users'[v] = users[v]
  BY DEF StripOne
<1>6. CASE users[u] = left[r][u] /\ left[r][u] = 1
  BY <1>1, <1>3, <1>4, <1>5, <1>6, MayDeleteUsers DEF StripOne, LeaveUser, Drop
<1>7. CASE users[u] = left[r][u] /\ left[r][u] # 1
  <2>1. left' = [left EXCEPT ![r][u] = @ - 1] /\ left[r][u] - 1 \in Nat \ {0}
    BY <1>1, <1>7, MayDeleteUsers DEF StripOne
  <2>2. left'[r][u] = left[r][u] - 1
    BY <1>4, <2>1
  <2> QED
    BY <1>1, <1>3, <1>5, <1>7, <2>1, <2>2, MayDeleteUsers DEF StripOne, KeepOn
<1>8. CASE users[u] # left[r][u]
  <2>1. users' = users /\ users[u] < left[r][u]
    BY <1>1, <1>8, MayDeleteUsers DEF StripOne
  <2>2. CASE left' = [left EXCEPT ![r][u] = users[u]] /\ KeepOn /\ 0 < users[u]
    BY <1>1, <1>3, <1>4, <2>1, <2>2 DEF KeepOn
  <2>3. CASE LeaveUser(r, u)
    BY <1>1, <1>3, <1>4, <2>1, <2>3 DEF LeaveUser, Drop
  <2> QED
    BY <1>1, <1>8, <2>1, <2>2, <2>3 DEF StripOne
<1> QED
  BY <1>6, <1>7, <1>8

(* A user that is handled stays handled until it is gone: what somebody's  *)
(* call removes is the next call of that somebody, too.                    *)
LEMMA HandledStays ==
  ASSUME TypeOK, SafeWithoutFailures, ~Faulty, NEW r \in Requests, RequestStep(r),
         NEW v \in Users, Handled(v)
  PROVE  Handled(v)'
<1> USE DEF TypeOK
<1>1. CASE StripUser(r)
  <2>1. PICK u \in Users : StripOne(r, u)
    BY <1>1 DEF StripUser
  <2>2. CASE u # v
    <3>1. users'[v] = users[v] /\ left'[r][v] = left[r][v]
      BY <2>1, <2>2, StripFacts
    <3>2. \A q \in Requests : q # r => left'[q] = left[q]
      BY <2>1, StripFacts
    <3> QED
      BY <3>1, <3>2 DEF Handled
  <2>3. CASE u = v /\ users'[u] = users[u] - 1
    <3>1. left'[r][v] = users'[v]
      BY <2>1, <2>3, StripFacts
    <3> QED
      BY <3>1 DEF Handled
  <2>4. CASE u = v /\ users'[u] = users[u] /\ users[u] < left[r][u]
    <3>1. users[v] # 0 => \E q \in Requests : q # r /\ left[q][v] = users[v]
      BY <2>4 DEF Handled
    <3> QED
      BY <2>1, <2>4, <3>1, StripFacts DEF Handled
  <2> QED
    BY <2>1, <2>2, <2>3, <2>4, StripFacts
<1>2. CASE LookUpUser(r)
  <2>1. users' = users
    BY <1>2 DEF LookUpUser
  <2>2. left' = left \/ \E u : left' = [left EXCEPT ![r][u] = users[u]]
    BY <1>2 DEF LookUpUser, Answer
  <2>3. ASSUME NEW u, left' = [left EXCEPT ![r][u] = users[u]]
        PROVE  \A q \in Requests : left'[q][v] \in {left[q][v], users[v]}
    BY <2>3, LeftSet
  <2> QED
    BY <2>1, <2>2, <2>3 DEF Handled
<1>3. CASE ~StripUser(r) /\ ~LookUpUser(r)
  <2>1. UNCHANGED <<users, left>>
    BY <1>3, OtherStep
  <2> QED
    BY <2>1 DEF Handled
<1> QED
  BY <1>1, <1>2, <1>3

(* The users a request has to go on with, after one of its steps.          *)
LEMMA UsersOfRequest ==
  ASSUME TypeOK, Safe, SafeWithoutFailures, ~Faulty, NEW r \in Requests, RequestStep(r)
  PROVE  /\ at'[r] = "unuser" => \A u \in Users \ todo'[r] : Handled(u)'
         /\ at'[r] \in {"list", "unmount", "await", "delete"} => \A u \in Users : Handled(u)'
         /\ \A u \in Users : left'[r][u] # 0 =>
               at'[r] = "unuser" /\ u \in todo'[r] /\ Handled(u)'
<1> USE DEF TypeOK, SafeWithoutFailures
<1>1. \A u \in Users : Handled(u) => Handled(u)'
  BY HandledStays
<1>2. \A u \in Users : users'[u] = 0 => Handled(u)'
  BY DEF Handled
<1>3. CASE ListUsers(r)
  <2>1. users' = users /\ left' = left
    BY <1>3 DEF ListUsers, Fail
  <2>2. at[r] = "users" /\ at'[r] \in {"unuser", "failed"}
    BY <1>3 DEF ListUsers, Fail, Advance
  <2>3. at'[r] = "unuser" => todo'[r] = UsersLeft
    BY <1>3 DEF ListUsers, Fail, Advance
  <2>4. \A u \in Users \ UsersLeft : users[u] = 0
    BY DEF UsersLeft
  <2> QED
    BY <1>2, <2>1, <2>2, <2>3, <2>4
<1>4. CASE LookUpUser(r)
  <2>1. users' = users /\ at[r] = "unuser" /\ \A u \in Users : left[r][u] = 0
    BY <1>4 DEF LookUpUser, AtLoop
  <2>2. CASE todo[r] = {} /\ Answer(r, "unuser", "list")
    BY <1>1, <2>1, <2>2 DEF Answer, Advance
  <2>3. ASSUME NEW u \in todo[r], left' = [left EXCEPT ![r][u] = users[u]], KeepOn
        PROVE  /\ at'[r] = "unuser" /\ todo'[r] = todo[r]
               /\ \A v \in Users : left'[r][v] # 0 => v \in todo'[r] /\ Handled(v)'
    <3>1. at'[r] = "unuser" /\ todo'[r] = todo[r]
      BY <2>1, <2>3 DEF KeepOn
    <3>2. \A v \in Users : left'[r][v] # 0 => v = u /\ left'[r][v] = users[v]
      BY <2>1, <2>3, LeftSet
    <3> QED
      BY <2>1, <3>1, <3>2 DEF Handled
  <2>4. ASSUME NEW u \in todo[r], ~Known \/ users[u] = 0, Drop(r, "unuser", u), left' = left
        PROVE  /\ at'[r] = "unuser" /\ todo'[r] = todo[r] \ {u}
               /\ u \in Users => Handled(u)
    <3>1. ~Known => \A v \in Users : Handled(v)
      BY DEF Known, Safe, NoUserLeft
    <3> QED
      BY <2>1, <2>4, <3>1 DEF Drop, Handled
  <2>5. CASE \E u \in todo[r] : left' = [left EXCEPT ![r][u] = users[u]] /\ KeepOn
    BY <1>1, <2>1, <2>3, <2>5
  <2>6. CASE \E u \in todo[r] : (~Known \/ users[u] = 0) /\ Drop(r, "unuser", u) /\ left' = left
    BY <1>1, <2>1, <2>4, <2>6
  <2> QED
    BY <1>4, <2>2, <2>5, <2>6, MayDeleteUsers DEF LookUpUser
<1>5. CASE StripUser(r)
  <2>1. PICK u \in Users : StripOne(r, u)
    BY <1>5 DEF StripUser
  <2>2. at[r] = "unuser" /\ at'[r] = "unuser" /\ left[r][u] # 0
    <3>1. at[r] = "unuser" /\ left[r][u] # 0
      BY <1>5, <2>1 DEF StripUser, StripOne
    <3> QED
      BY <2>1, <3>1, StripFacts
  <2>3. Handled(u)'
    BY <1>1, <2>2
  <2>5. \A v \in Users : v # u => left'[r][v] = left[r][v] /\ users'[v] = users[v]
    BY <2>1, StripFacts
  <2>6. \/ todo'[r] = todo[r] /\ left'[r][u] # 0
        \/ todo'[r] = todo[r] \ {u} /\ left'[r][u] = 0
    BY <2>1, StripFacts
  <2> QED
    BY <1>1, <2>2, <2>3, <2>5, <2>6
<1>6. CASE ~ListUsers(r) /\ ~LookUpUser(r) /\ ~StripUser(r)
  <2>1. UNCHANGED <<users, left>>
    BY <1>6, OtherStep
  <2>2. at[r] # "unuser" /\ at'[r] # "unuser"
    BY <1>6, OtherPlace
  <2>3. at'[r] \in {"list", "unmount", "await", "delete"} =>
          at[r] \in {"list", "unmount", "await", "delete"}
    BY <1>6, OtherPlace
  <2> QED
    BY <1>1, <2>1, <2>2, <2>3
<1> QED
  BY <1>3, <1>4, <1>5, <1>6

(* What a step of a request does to the access points as long as calls do  *)
(* not fail: nothing, unless it is at them and deletes one it has listed.  *)
LEMMA PointsKept ==
  ASSUME NEW r \in Requests, RequestStep(r), ~DeletePoint(r)
  PROVE  UNCHANGED <<point, touched>>
<1>1. CASE CheckFilesystem(r) \/ CheckMounts(r) \/ ListPoints(r)
  BY <1>1 DEF CheckFilesystem, CheckMounts, ListPoints, Answer, efs
<1>2. CASE ListUsers(r) \/ LookUpUser(r) \/ StripUser(r) \/ ListMounts(r)
  BY <1>2 DEF ListUsers, LookUpUser, StripUser, StripOne, LeaveUser, KeepOn, ListMounts,
     Answer, Fail, efs
<1>3. CASE DeleteMount(r)
  BY <1>3 DEF DeleteMount, DeleteMountTarget, Call, Answer, Fail, efs
<1>4. CASE AwaitUnmounted(r) \/ DeleteTheFilesystem(r)
  BY <1>4 DEF AwaitUnmounted, DeleteTheFilesystem, DeleteFileSystem, Call, TryAgain, Answer,
     Fail, efs
<1> QED
  BY <1>1, <1>2, <1>3, <1>4 DEF RequestStep

(* And where it is afterwards. *)
LEMMA PointsPlace ==
  ASSUME TypeOK, NEW r \in Requests, RequestStep(r), ~DeletePoint(r)
  PROVE  /\ at'[r] # "broken"
         /\ at'[r] = "unpoint" => at[r] = "points" /\ todo'[r] = Points
         /\ at'[r] \in Answered => at[r] \in Answered
<1> USE DEF TypeOK, Answered
<1>1. CASE CheckFilesystem(r) \/ CheckMounts(r) \/ ListPoints(r)
  BY <1>1 DEF CheckFilesystem, CheckMounts, ListPoints, Answer, Advance
<1>2. CASE ListUsers(r) \/ ListMounts(r)
  BY <1>2 DEF ListUsers, ListMounts, Fail, Advance
<1>3. CASE LookUpUser(r) \/ StripUser(r)
  BY <1>3 DEF LookUpUser, AtLoop, StripUser, StripOne, LeaveUser, KeepOn, Drop, Answer, Advance
<1>4. CASE DeleteMount(r)
  BY <1>4 DEF DeleteMount, Drop, Answer, Fail, Advance
<1>5. CASE AwaitUnmounted(r) \/ DeleteTheFilesystem(r)
  BY <1>5 DEF AwaitUnmounted, DeleteTheFilesystem, TryAgain, Answer, Fail, Advance
<1> QED
  BY <1>1, <1>2, <1>3, <1>4, <1>5 DEF RequestStep

LEMMA PointsOfRequest ==
  ASSUME TypeOK, Safe, PointsTaken, ~Faulty, NEW r \in Requests, RequestStep(r)
  PROVE  PointsTaken'
<1>0. \A q \in Requests : q # r => at'[q] = at[q] /\ todo'[q] = todo[q]
  <2>1. LocalStep(r)
    BY RequestLocal
  <2> QED
    BY <2>1 DEF LocalStep, TypeOK
<1> USE DEF TypeOK, EfsTypeOK
<1>1. CASE ~DeletePoint(r)
  <2>1. UNCHANGED <<point, touched>>
    BY <1>1, PointsKept
  <2>2. /\ at'[r] # "broken"
        /\ at'[r] = "unpoint" => at[r] = "points" /\ todo'[r] = Points
        /\ at'[r] \in Answered => at[r] \in Answered
    BY <1>1, PointsPlace
  <2>3. at[r] = "points" => \A p \in Points : Taken(p) => Others(r)
    BY DEF Points, Taken, Others, PointsTaken, Safe
  <2>4. \A p \in AccessPoints \ Points : Taken(p)
    BY DEF Points, Taken
  <2>5. Points \subseteq AccessPoints
    BY DEF Points
  <2> QED
    BY <1>0, <2>1, <2>2, <2>3, <2>4, <2>5 DEF PointsTaken, Taken, Others
<1>2. CASE DeletePoint(r)
  <2>0. at[r] = "unpoint" /\ todo[r] \subseteq AccessPoints
    BY <1>2 DEF DeletePoint, PointsTaken
  <2>1. ASSUME NEW p \in todo[r], DeleteAccessPoint(p, TRUE), Drop(r, "unpoint", p),
               touched' = touched \cup {r}
        PROVE  PointsTaken'
    <3>1. p \in AccessPoints /\ point' = [point EXCEPT ![p] = "deleting"]
      BY <2>0, <2>1 DEF DeleteAccessPoint, Call
    <3>2. at' = at /\ todo'[r] = todo[r] \ {p}
      BY <2>1 DEF Drop
    <3>3. /\ \A q \in AccessPoints : q # p => point'[q] = point[q]
          /\ point'[p] = "deleting"
      BY <3>1
    <3>4. \A q \in Requests : q # r => Others(q)'
      BY <2>1 DEF Others
    <3>5. \A q \in Requests : Others(q) => Others(q)'
      BY <2>1 DEF Others
    <3>6. /\ \A q \in AccessPoints : Taken(q) => Taken(q)'
          /\ Taken(p)'
      BY <3>3 DEF Taken
    <3>7. \A q \in todo'[r] : Taken(q)' => Others(r)'
      BY <2>0, <3>2, <3>3, <3>5 DEF Taken, PointsTaken
    <3> QED
      BY <1>0, <2>0, <2>1, <3>2, <3>4, <3>5, <3>6, <3>7 DEF PointsTaken
  <2>2. ASSUME NEW p \in todo[r], DeleteAccessPoint(p, FALSE), Answer(r, "unpoint", "broken")
        PROVE  PointsTaken'
    <3>1. UNCHANGED <<point, touched, todo>> /\ at'[r] = "broken"
      BY <2>2 DEF DeleteAccessPoint, Call, efs, Answer, Advance
    <3>2. point[p] \notin {"creating", "available", "error"}
      BY <2>2 DEF DeleteAccessPoint, Call
    <3>3. Taken(p)
      BY <2>0, <3>2 DEF Taken, LifeCycle
    <3>4. Others(r)
      BY <2>0, <3>3 DEF PointsTaken
    <3> QED
      BY <1>0, <3>1, <3>4 DEF PointsTaken, Taken, Others, Answered
  <2>3. CASE todo[r] = {} /\ UNCHANGED efs /\ Answer(r, "unpoint", "users")
    <3>1. UNCHANGED <<point, touched, todo>> /\ at'[r] = "users"
      BY <2>3 DEF efs, Answer, Advance
    <3> QED
      BY <1>0, <2>0, <2>3, <3>1 DEF PointsTaken, Taken, Others
  <2> QED
    BY <1>2, <2>1, <2>2, <2>3 DEF DeletePoint
<1> QED
  BY <1>1, <1>2

(* The service only finishes what was begun; when it finishes the deletion *)
(* of the filesystem, the access points went before it.                    *)
LEMMA PointsOfService ==
  ASSUME TypeOK, Concluded, PointsTaken, GoneMeansSomeoneDidIt, ~Faulty,
         ServiceStep \/ UNCHANGED vars
  PROVE  PointsTaken'
<1> USE DEF TypeOK, EfsTypeOK
<1>0. UNCHANGED <<at, todo, touched>>
  BY DEF ServiceStep, local, vars
<1>1. \A p \in AccessPoints : point'[p] # point[p] => point'[p] # "deleting"
  BY DEF ServiceStep, Environment, FileSystemProgress, MountProgress, PointProgress, Created,
     vars, efs
<1>2. ASSUME NEW p \in AccessPoints PROVE Taken(p) <=> Taken(p)'
  <2>1. CASE FileSystemProgress /\ fs = "deleting"
    <3>1. PICK q \in Requests : outcome[q] = "ok"
      BY <2>1 DEF GoneMeansSomeoneDidIt
    <3>2. at[q] \in Answered
      BY <3>1 DEF Concluded, Answered
    <3> QED
      BY <2>1, <3>2 DEF FileSystemProgress, PointsTaken, Taken
  <2>2. CASE ~(FileSystemProgress /\ fs = "deleting")
    BY <2>2 DEF ServiceStep, Environment, FileSystemProgress, MountProgress, PointProgress,
       Created, Taken, vars, efs
  <2> QED
    BY <2>1, <2>2
<1> QED
  BY <1>0, <1>1, <1>2 DEF PointsTaken, Others

(* Every step keeps what holds as long as calls do not fail. *)
LEMMA SafeWithoutFailuresStep ==
  ASSUME TypeOK, Concluded, Safe, SafeWithoutFailures, ~Faulty, [Next]_vars
  PROVE  SafeWithoutFailures'
<1> USE DEF SafeWithoutFailures, GoneMeansSomeoneDidIt, NoUserLeft
<1>1. ASSUME NEW r \in Requests, RequestStep(r) PROVE SafeWithoutFailures'
  <2>1. \A u \in Users : Handled(u) => Handled(u)'
    BY <1>1, HandledStays
  <2>2. \A q \in Requests : q # r => at'[q] = at[q] /\ todo'[q] = todo[q] /\ left'[q] = left[q]
    <3>1. LocalStep(r)
      BY <1>1, RequestLocal
    <3>2. \A q \in Requests : q # r => left'[q] = left[q]
      BY <3>1, LeftStepFacts DEF LocalStep, TypeOK
    <3> QED
      BY <3>1, <3>2 DEF LocalStep, TypeOK
  <2>3. \A q \in Requests : outcome[q] = "ok" => outcome'[q] = "ok"
    BY <1>1, RequestConcludes DEF Task!Conclude, Task!HandOver, TypeOK, Task!TypeOK, tasks
  <2>4. fs' # fs => at[r] = "delete" /\ outcome'[r] = "ok"
    BY <1>1, DeletionIsSuccess
  <2>5. GoneMeansSomeoneDidIt'
    BY <2>3, <2>4
  <2>6. NoUserLeft'
    BY <2>1, <2>4
  <2>7. ASSUME NEW q \in Requests
        PROVE  /\ at'[q] = "unuser" => \A u \in Users \ todo'[q] : Handled(u)'
               /\ at'[q] \in {"list", "unmount", "await", "delete"} => \A u \in Users : Handled(u)'
               /\ \A u \in Users : left'[q][u] # 0 =>
                     at'[q] = "unuser" /\ u \in todo'[q] /\ Handled(u)'
    <3>1. CASE q = r
      BY <1>1, <3>1, UsersOfRequest
    <3>2. CASE q # r
      BY <2>1, <2>2, <3>2
    <3> QED
      BY <3>1, <3>2
  <2>8. PointsTaken'
    BY <1>1, PointsOfRequest
  <2> QED
    BY <2>5, <2>6, <2>7, <2>8
<1>2. ASSUME NEW r \in Requests, TrackTask(r) PROVE SafeWithoutFailures'
  BY <1>2 DEF TrackTask, Task!Start, Task!Record, local, efs, Handled, PointsTaken, Taken, Others
<1>3. ASSUME ServiceStep \/ UNCHANGED vars PROVE SafeWithoutFailures'
  <2>1. fs' \in {"deleting", "deleted"} => fs \in {"deleting", "deleted"}
    BY <1>3 DEF ServiceStep, Environment, FileSystemProgress, MountProgress,
       PointProgress, Created, vars, efs
  <2>2. PointsTaken'
    BY <1>3, PointsOfService
  <2> QED
    BY <1>3, <2>1, <2>2 DEF ServiceStep, local, tasks, vars, Handled
<1> QED
  BY <1>1, <1>2, <1>3 DEF Next

-----------------------------------------------------------------------------
(* IInv holds in every reachable state. *)
THEOREM Invariance == Spec => []IInv
<1>1. IInv /\ [Next]_vars => IInv'
  BY TypeStep, ConcludedStep, SafeStep, SafeWithoutFailuresStep DEF IInv
<1> QED
  BY <1>1, InitIInv, PTL DEF Spec

(* A completed task means that the filesystem was deleted, and its mount   *)
(* targets with it, however many requests race and whatever fails.         *)
THEOREM CompletedDeletes == Spec => []CompletedMeansDeleted
<1>1. IInv => CompletedMeansDeleted
  BY DEF IInv, Safe, CompletedMeansDeleted
<1> QED
  BY <1>1, Invariance, PTL

(* At most one of the racing requests is told that it deleted the          *)
(* filesystem.                                                             *)
THEOREM AtMostOneWinner == Spec => []OneWinner
<1>1. IInv => OneWinner
  BY DEF IInv, Safe
<1> QED
  BY <1>1, Invariance, PTL

(* A request that was turned down deleted no access point, and one that    *)
(* breaks off between them without a failing call met another deletion.    *)
THEOREM ErrorsAreHarmless == Spec => []NoHalfDeletion
<1>1. touched \in SUBSET Requests =>
         \A r \in Requests : Others(r) => \E q \in Requests \ {r} : q \in touched
  BY DEF Others
<1>2. IInv => NoHalfDeletion
  BY <1>1 DEF IInv, TypeOK, Safe, SafeWithoutFailures, PointsTaken, NoHalfDeletion
<1> QED
  BY <1>2, Invariance, PTL

(* Without failing calls, the filesystem is gone only if a request that    *)
(* deleted it has said so.                                                 *)
THEOREM DeletionIsAccounted ==
  ASSUME ~Faulty
  PROVE  Spec => []GoneMeansSomeoneDidIt
<1>1. IInv => GoneMeansSomeoneDidIt
  BY DEF IInv, SafeWithoutFailures
<1> QED
  BY <1>1, Invariance, PTL

(* Without failing calls, no user outlives the filesystem, also when       *)
(* several deletions are at the same user and each leaves it to another.   *)
THEOREM NoUserOutlives ==
  ASSUME ~Faulty
  PROVE  Spec => []NoUserLeft
<1>1. IInv => NoUserLeft
  BY DEF IInv, SafeWithoutFailures
<1> QED
  BY <1>1, Invariance, PTL
=============================================================================
