----------------------- MODULE FilesystemLife_proofs ------------------------
(***************************************************************************)
(* Proofs about FilesystemLife, for any subnets, access points, deletions, *)
(* users, attempts and times.  They rest on those about FilesystemCreate:  *)
(* until a deletion passes its checks, the core of its invariant holds     *)
(* here too.                                                               *)
(***************************************************************************)
EXTENDS FilesystemLife, FilesystemCreate_proofs

-----------------------------------------------------------------------------
(* What stands until a deletion passes its checks.                         *)
Quiet == \A r \in Deletions : ~Accepted(r)

Stands ==
    /\ at = [r \in Deletions |-> at[r]]
    /\ Quiet => CoreInv /\ \A p \in AccessPoints \ dropped : PointTells(p)

(* A deletion that has not passed its checks has changed nothing but its   *)
(* place, and one that has is never turned down.                           *)
LEMMA DeletionPlace ==
  ASSUME NEW r \in Deletions, DeletionStep(r), at = [q \in Deletions |-> at[q]]
  PROVE  /\ at' = [q \in Deletions |-> at'[q]]
         /\ Accepted(r)' \/ (~Accepted(r) /\ UNCHANGED efs)
         /\ \A q \in Deletions \ {r} : at'[q] = at[q]
<1> USE DEF Accepted, Delete!Answer, Delete!Advance, Delete!Fail, efs
<1>1. CASE Delete!CheckFilesystem(r) \/ Delete!CheckMounts(r) \/ Delete!ListPoints(r)
  BY <1>1 DEF Delete!CheckFilesystem, Delete!CheckMounts, Delete!ListPoints, Delete!efs
<1>2. CASE Delete!DeletePoint(r)
  BY <1>2 DEF Delete!DeletePoint, Delete!Drop
<1>3. CASE Delete!ListUsers(r) \/ Delete!ListMounts(r)
  BY <1>3 DEF Delete!ListUsers, Delete!ListMounts
<1>4. CASE Delete!LookUpUser(r) \/ Delete!StripUser(r)
  <2>1. at[r] = "unuser" /\ (UNCHANGED at \/ at' = [at EXCEPT ![r] = "list"])
    BY <1>4 DEF Delete!LookUpUser, Delete!AtLoop, Delete!StripUser, Delete!StripOne,
       Delete!LeaveUser, Delete!Drop, Delete!KeepOn
  <2> QED
    BY <2>1
<1>5. CASE Delete!DeleteMount(r)
  BY <1>5 DEF Delete!DeleteMount, Delete!Drop
<1>6. CASE Delete!AwaitUnmounted(r) \/ Delete!DeleteTheFilesystem(r)
  BY <1>6 DEF Delete!AwaitUnmounted, Delete!DeleteTheFilesystem, Delete!TryAgain
<1>7. CASE Delete!TrackTask(r)
  BY <1>7 DEF Delete!TrackTask, Delete!local, Delete!Answered, Delete!efs
<1> QED
  BY <1>1, <1>2, <1>3, <1>4, <1>5, <1>6, <1>7 DEF DeletionStep, Delete!RequestStep

(* The core says nothing of access points but their type: it stands        *)
(* whatever becomes of them.                                               *)
LEMMA PointFrame ==
  ASSUME CoreInv, EfsTypeOK',
         UNCHANGED <<fs, mount, setting, pc, req, todo, tries, childTries, undo, tasks>>,
         child' \in [AccessPoints -> {"none", "wait", "ended"}]
  PROVE  CoreInv'
<1> USE DEF CoreInv, undo, tasks
<1>1. TypeOK'
  BY DEF TypeOK, Task!TypeOK
<1>2. Progress'
  BY DEF Progress, Mounts, AllMountsAvailable, Failed
<1>3. Registered' /\ TasksTell'
  BY DEF Registered, TasksTell, Failed
<1>4. ~Faulty /\ TimeoutFirst => Removal'
  BY DEF Removal, Mounts, AllMountsAvailable
<1> QED
  BY <1>1, <1>2, <1>3, <1>4

(* A request for access points changes nothing but the one it is about.    *)
LEMMA PointRequest ==
  ASSUME TypeOK, NEW q \in AccessPoints, RequestPoint(q) \/ DropPoint(q)
  PROVE  /\ UNCHANGED <<fs, mount, setting, pc, req, todo, tries, childTries, undo, tasks>>
         /\ UNCHANGED deletion
         /\ child' = child \/ child' = [child EXCEPT ![q] = "wait"]
         /\ \E s \in LifeCycle : point' = [point EXCEPT ![q] = s]
         /\ EfsTypeOK'
<1> USE DEF creation, children
<1>1. CASE RequestPoint(q)
  <2>1. /\ UNCHANGED <<pc, req, todo, tries, childTries, undo, tasks>>
        /\ UNCHANGED deletion
        /\ child' = child \/ child' = [child EXCEPT ![q] = "wait"]
    BY <1>1 DEF RequestPoint
  <2>2. point' = point \/ point' = [point EXCEPT ![q] = "creating"]
    BY <1>1 DEF RequestPoint, CreateAccessPoint, Call, efs
  <2>3. UNCHANGED <<fs, mount, setting>>
    BY <1>1 DEF RequestPoint, CreateAccessPoint, Call, efs
  <2> QED
    BY <2>1, <2>2, <2>3 DEF TypeOK, EfsTypeOK, LifeCycle
<1>2. CASE DropPoint(q)
  <2>1. point' = point \/ point' = [point EXCEPT ![q] = "deleting"]
    BY <1>2 DEF DropPoint, DeleteAccessPoint, Call, efs
  <2>2. UNCHANGED <<fs, mount, setting>> /\ UNCHANGED creation /\ UNCHANGED deletion
    BY <1>2 DEF DropPoint, DeleteAccessPoint, Call, efs
  <2> QED
    BY <2>1, <2>2 DEF TypeOK, EfsTypeOK, LifeCycle
<1> QED
  BY <1>1, <1>2

(* The requests for access points touch none that was completed, unless    *)
(* they are to delete it.                                                  *)
LEMMA PointRequests ==
  ASSUME CoreInv, \A p \in AccessPoints \ dropped : PointTells(p),
         NEW q \in AccessPoints, RequestPoint(q) \/ DropPoint(q)
  PROVE  CoreInv' /\ \A p \in AccessPoints \ dropped' : PointTells(p)'
<1> USE DEF creation, undo, tasks, children
<1>1. /\ UNCHANGED <<fs, mount, setting, pc, req, todo, tries, childTries, undo, tasks>>
      /\ child' = child \/ child' = [child EXCEPT ![q] = "wait"]
      /\ \E s \in LifeCycle : point' = [point EXCEPT ![q] = s]
      /\ EfsTypeOK'
  BY PointRequest DEF CoreInv
<1>2. CoreInv'
  BY <1>1, PointFrame DEF CoreInv, TypeOK
<1>3. ASSUME NEW p \in AccessPoints \ dropped' PROVE PointTells(p)'
  <2>1. CASE RequestPoint(q)
    <3>1. p \notin dropped /\ PointTells(p)
      BY <2>1, <1>3 DEF RequestPoint
    <3>2. point' = point \/ (point[q] = "none" /\ point' = [point EXCEPT ![q] = "creating"])
      BY <2>1 DEF RequestPoint, CreateAccessPoint, Call, efs
    <3> QED
      BY <1>1, <3>1, <3>2 DEF PointTells, Failed, CoreInv, TypeOK, EfsTypeOK
  <2>2. CASE DropPoint(q)
    <3>1. p \notin dropped /\ (p # q \/ point' = point)
      BY <2>2, <1>3 DEF DropPoint
    <3> QED
      BY <1>1, <3>1 DEF PointTells, Failed, CoreInv, TypeOK, EfsTypeOK
  <2> QED
    BY <2>1, <2>2
<1> QED
  BY <1>2, <1>3

LEMMA StandsStep ==
  ASSUME ConcludedAtEnd, Stands, [LifeNext]_lifeVars
  PROVE  Stands'
<1>1. ASSUME NEW r \in Deletions, DeletionStep(r) PROVE Stands'
  <2>1. Quiet' => Quiet /\ UNCHANGED efs
    BY <1>1, DeletionPlace DEF Stands, Quiet, Accepted
  <2>2. UNCHANGED <<creation, dropped>>
    BY <1>1 DEF DeletionStep
  <2>3. ASSUME Quiet' PROVE UNCHANGED vars
    BY <2>1, <2>2, <2>3 DEF creation, vars
  <2>4. ASSUME Quiet'
        PROVE  CoreInv' /\ \A p \in AccessPoints \ dropped' : PointTells(p)'
    BY <2>1, <2>2, <2>3, <2>4, NextCoreInv, PointStep DEF Stands, ConcludedAtEnd
  <2> QED
    BY <1>1, <2>4, DeletionPlace DEF Stands
<1>2. ASSUME NEW p \in AccessPoints, RequestPoint(p) \/ DropPoint(p) PROVE Stands'
  <2>1. UNCHANGED at
    BY <1>2 DEF RequestPoint, DropPoint, deletion
  <2> QED
    BY <1>2, <2>1, PointRequests DEF Stands, Quiet, Accepted
<1>3. ASSUME [Next]_vars, UNCHANGED <<deletion, dropped>> PROVE Stands'
  <2>1. UNCHANGED <<at, dropped>>
    BY <1>3 DEF deletion
  <2> QED
    BY <1>3, <2>1, NextCoreInv, PointStep DEF Stands, Quiet, Accepted, ConcludedAtEnd
<1>4. UNCHANGED lifeVars => UNCHANGED vars /\ UNCHANGED <<deletion, dropped>>
  BY DEF lifeVars, creation, vars
<1> QED
  BY <1>1, <1>2, <1>3, <1>4 DEF LifeNext, CreationStep

-----------------------------------------------------------------------------
(* How the filesystem of a creation that failed ends.                      *)

(* A deletion that may have taken a mount target away, or has given up.    *)
Unmounting(r) == at[r] \in {"unmount", "await", "delete", "returned", "failed"}

Untouched == \A r \in Deletions : ~Unmounting(r)

(* Up to then the core of the invariant stands, since it says nothing of   *)
(* access points: the rollback finds the mount targets that it relies on.  *)
Remains ==
    /\ at = [r \in Deletions |-> at[r]]
    /\ Untouched => CoreInv
    /\ \A r \in Deletions : at[r] = "returned" => Gone

(* Until it gets there a deletion changes nothing but access points, and   *)
(* there it stays; it returns without an error when it has deleted the     *)
(* filesystem.                                                             *)
LEMMA DeletionUnmounts ==
  ASSUME NEW r \in Deletions, DeletionStep(r), at = [q \in Deletions |-> at[q]]
  PROVE  /\ Unmounting(r) => Unmounting(r)'
         /\ \/ Unmounting(r)'
            \/ /\ UNCHANGED <<fs, mount, setting>>
               /\ \/ point' = point
                  \/ \E p : point' = [point EXCEPT ![p] = "deleting"]
         /\ at'[r] = "returned" => at[r] = "returned" \/ fs' = "deleting"
         /\ fs' = fs \/ fs' = "deleting"
<1> USE DEF Unmounting, Delete!Answer, Delete!Advance, Delete!Fail, efs, Delete!efs
<1>1. CASE Delete!CheckFilesystem(r) \/ Delete!CheckMounts(r) \/ Delete!ListPoints(r)
  BY <1>1 DEF Delete!CheckFilesystem, Delete!CheckMounts, Delete!ListPoints
<1>2. CASE Delete!DeletePoint(r)
  BY <1>2 DEF Delete!DeletePoint, Delete!Drop, Delete!DeleteAccessPoint, Delete!Call
<1>3. CASE Delete!ListUsers(r) \/ Delete!ListMounts(r)
  BY <1>3 DEF Delete!ListUsers, Delete!ListMounts
<1>4. CASE Delete!LookUpUser(r) \/ Delete!StripUser(r)
  <2>1. /\ at[r] = "unuser" /\ (UNCHANGED at \/ at' = [at EXCEPT ![r] = "list"])
        /\ UNCHANGED efs
    BY <1>4 DEF Delete!LookUpUser, Delete!AtLoop, Delete!StripUser, Delete!StripOne,
       Delete!LeaveUser, Delete!Drop, Delete!KeepOn
  <2> QED
    BY <2>1
<1>5. CASE Delete!DeleteMount(r)
  BY <1>5 DEF Delete!DeleteMount, Delete!Drop, Delete!DeleteMountTarget, Delete!Call
<1>6. CASE Delete!AwaitUnmounted(r)
  BY <1>6 DEF Delete!AwaitUnmounted, Delete!TryAgain
<1>7. CASE Delete!DeleteTheFilesystem(r)
  BY <1>7 DEF Delete!DeleteTheFilesystem, Delete!TryAgain, Delete!DeleteFileSystem, Delete!Call
<1>8. CASE Delete!TrackTask(r)
  BY <1>8 DEF Delete!TrackTask, Delete!local
<1> QED
  BY <1>1, <1>2, <1>3, <1>4, <1>5, <1>6, <1>7, <1>8 DEF DeletionStep, Delete!RequestStep

(* The creation does not bring the filesystem back.                        *)
LEMMA GoneStays == Gone /\ [Next]_vars => Gone'
<1> SUFFICES ASSUME Gone, [Next]_vars PROVE Gone'
  OBVIOUS
<1> USE DEF Gone, efs
<1>1. CASE Request \/ UNCHANGED vars
  BY <1>1 DEF Request, Accept, Refuse, vars
<1>2. CASE RequestFilesystem \/ SetBackup \/ SetLifecycle \/ SetPolicy \/ CreateMount
  BY <1>2 DEF RequestFilesystem, CreateFileSystem, SetBackup, SetLifecycle, SetPolicy,
     Set, CreateMount, CreateMountTarget, Call
<1>3. CASE PollFilesystem \/ PollMounts \/ CreatePoint \/ PollChild \/ Return
  BY <1>3 DEF PollFilesystem, PollMounts, CreatePoint, CreateAccessPoint, Call, PollChild, Return
<1>4. CASE RollBackSucceeds \/ RollBackTimesOut
  BY <1>4 DEF RollBackSucceeds, RollBackTimesOut
<1>5. CASE RollBackStep
  BY <1>5 DEF RollBackStep, RollBackFilesystem, RollBackMounts, Unmount, AwaitUnmounted,
     RollBackDone, DeleteFileSystem, DeleteMountTarget, Call
<1>6. CASE ServiceStep
  BY <1>6 DEF ServiceStep, Environment, FileSystemProgress, MountProgress, PointProgress
<1>7. CASE (\E p \in AccessPoints : PollPoint(p)) \/ \E t \in TaskIds : TrackTask(t)
  BY <1>7 DEF PollPoint, TrackTask
<1> QED
  BY <1>1, <1>2, <1>3, <1>4, <1>5, <1>6, <1>7 DEF Next, WorkerStep

LEMMA RemainsStep ==
  ASSUME ConcludedAtEnd, Remains, [LifeNext]_lifeVars
  PROVE  Remains'
<1> USE DEF Remains
<1>1. ASSUME NEW r \in Deletions, DeletionStep(r) PROVE Remains'
  <2>1. /\ at' = [q \in Deletions |-> at'[q]]
        /\ \A q \in Deletions \ {r} : at'[q] = at[q]
    BY <1>1, DeletionPlace
  <2>2. ASSUME Untouched' PROVE CoreInv'
    <3>1. Untouched /\ CoreInv
      BY <1>1, <2>1, <2>2, DeletionUnmounts DEF Untouched, Unmounting
    <3>2. /\ UNCHANGED <<fs, mount, setting>>
          /\ \/ point' = point
             \/ \E p : point' = [point EXCEPT ![p] = "deleting"]
      BY <1>1, <2>2, DeletionUnmounts DEF Untouched
    <3>3. UNCHANGED <<pc, req, todo, tries, child, childTries, undo, tasks>>
      BY <1>1 DEF DeletionStep, creation, children
    <3>4. EfsTypeOK'
      BY <3>1, <3>2 DEF CoreInv, TypeOK, EfsTypeOK, LifeCycle
    <3> QED
      BY <3>1, <3>2, <3>3, <3>4, PointFrame DEF CoreInv, TypeOK
  <2>3. \A q \in Deletions : at'[q] = "returned" => Gone'
    BY <1>1, <2>1, DeletionUnmounts DEF Gone
  <2> QED
    BY <2>1, <2>2, <2>3
<1>2. ASSUME NEW p \in AccessPoints, RequestPoint(p) \/ DropPoint(p) PROVE Remains'
  <2>1. UNCHANGED <<at, fs>>
    BY <1>2 DEF RequestPoint, DropPoint, CreateAccessPoint, DeleteAccessPoint, Call, efs, deletion
  <2>2. ASSUME CoreInv PROVE CoreInv'
    BY <1>2, <2>2, PointRequest, PointFrame DEF CoreInv, TypeOK
  <2> QED
    BY <2>1, <2>2 DEF Untouched, Unmounting, Gone
<1>3. ASSUME [Next]_vars, UNCHANGED <<deletion, dropped>> PROVE Remains'
  <2>1. UNCHANGED at
    BY <1>3 DEF deletion
  <2>2. Gone => Gone'
    BY <1>3, GoneStays
  <2> QED
    BY <1>3, <2>1, <2>2, NextCoreInv DEF Untouched, Unmounting, ConcludedAtEnd
<1>4. UNCHANGED lifeVars => UNCHANGED vars /\ UNCHANGED <<deletion, dropped>>
  BY DEF lifeVars, creation, vars
<1> QED
  BY <1>1, <1>2, <1>3, <1>4 DEF LifeNext, CreationStep

-----------------------------------------------------------------------------
(* Types.  Those of the creation rest on its own control alone; those of   *)
(* the deletions are kept by each of their steps.                          *)

(* Setting one number of one request's calls keeps their type. *)
LEMMA LeftSet ==
  ASSUME left \in [Deletions -> [Users -> Nat]], NEW r \in Deletions, NEW u, NEW n,
         u \in Users => n \in Nat,
         left' = [left EXCEPT ![r][u] = n]
  PROVE  \E f \in [Users -> Nat] : left' = [left EXCEPT ![r] = f]
<1> DEFINE g == [left[r] EXCEPT ![u] = n]
<1>1. left' = [left EXCEPT ![r] = g]
  OBVIOUS
<1>2. g \in [Users -> Nat]
  <2>1. g = [v \in Users |-> IF v = u THEN n ELSE left[r][v]]
    OBVIOUS
  <2> QED
    BY <2>1
<1> QED
  BY <1>1, <1>2

(* What one step does to the calls of a request. *)
LeftStep(r) == left' = left \/ \E f \in [Users -> Nat] : left' = [left EXCEPT ![r] = f]

(* What one step of a request does to what is its own. *)
DeletionLocal(r) ==
    /\ at' = at \/ \E to \in Delete!Place : at' = [at EXCEPT ![r] = to]
    /\ \/ triesToDelete' = triesToDelete
       \/ \E n \in Nat : triesToDelete' = [triesToDelete EXCEPT ![r] = n]
    /\ \/ toDelete' = toDelete
       \/ \E S \in Delete!LoopSets : toDelete' = [toDelete EXCEPT ![r] = S]
    /\ seen' = seen \/ seen' = [seen EXCEPT ![r] = mount]
    /\ LeftStep(r)
    /\ touched' \in {touched, touched \cup {r}}
    /\ users' \in [Users -> Nat]

(* What one step of a request does to the service and to the tasks. *)
DeletionShared(r) ==
    /\ \/ UNCHANGED Delete!efs
       \/ \E ok \in BOOLEAN : \/ Delete!DeleteFileSystem(ok)
                              \/ \E s : Delete!DeleteMountTarget(s, ok)
                              \/ \E p : Delete!DeleteAccessPoint(p, ok)
    /\ UNCHANGED Delete!tasks \/ Delete!Task!HandOver(r, "ok") \/ Delete!Task!HandOver(r, "error")

(* Every step of a request has that form for what is shared. *)
LEMMA DeletionSharedStep ==
  ASSUME NEW r \in Deletions, Delete!RequestStep(r)
  PROVE  DeletionShared(r)
<1> USE DEF DeletionShared
<1>1. CASE \/ Delete!CheckFilesystem(r) \/ Delete!CheckMounts(r) \/ Delete!ListPoints(r)
           \/ Delete!ListUsers(r) \/ Delete!ListMounts(r)
  BY <1>1 DEF Delete!CheckFilesystem, Delete!CheckMounts, Delete!ListPoints,
     Delete!ListUsers, Delete!ListMounts, Delete!Answer, Delete!Fail, Delete!tasks
<1>2. CASE Delete!DeletePoint(r)
  BY <1>2 DEF Delete!DeletePoint, Delete!Answer
<1>3. CASE Delete!LookUpUser(r) \/ Delete!StripUser(r)
  BY <1>3 DEF Delete!LookUpUser, Delete!StripUser, Delete!StripOne, Delete!LeaveUser,
     Delete!KeepOn, Delete!Answer, Delete!tasks
<1>4. CASE Delete!DeleteMount(r)
  BY <1>4 DEF Delete!DeleteMount, Delete!Answer, Delete!Fail
<1>5. CASE Delete!AwaitUnmounted(r)
  BY <1>5 DEF Delete!AwaitUnmounted, Delete!Answer, Delete!TryAgain, Delete!Fail
<1>6. CASE Delete!DeleteTheFilesystem(r)
  BY <1>6 DEF Delete!DeleteTheFilesystem, Delete!TryAgain, Delete!Fail, Delete!tasks
<1> QED
  BY <1>1, <1>2, <1>3, <1>4, <1>5, <1>6 DEF Delete!RequestStep

(* And for what is its own, by the operators the actions are made of.      *)
LEMMA DeletionLocalStep ==
  ASSUME Delete!TypeOK, NEW r \in Deletions, Delete!RequestStep(r)
  PROVE  DeletionLocal(r)
<1> USE DEF DeletionLocal, Delete!TypeOK, Delete!Place, Delete!Answered
<1>0. left' = left => LeftStep(r)
  BY DEF LeftStep
<1>1. \A from, to : Delete!Answer(r, from, to) /\ to \in Delete!Place
                      /\ users' \in [Users -> Nat] => DeletionLocal(r)
  BY <1>0 DEF Delete!Answer, Delete!Advance
<1>2. \A from : Delete!Fail(r, from) /\ users' \in [Users -> Nat] => DeletionLocal(r)
  BY <1>0 DEF Delete!Fail, Delete!Advance
<1>3. \A from, n : Delete!TryAgain(r, from, n) /\ users' \in [Users -> Nat] => DeletionLocal(r)
  <2>1. triesToDelete[r] + 1 \in Nat
    OBVIOUS
  <2> QED
    BY <1>0, <1>2, <2>1 DEF Delete!TryAgain
<1>4. \A from, x : Delete!Drop(r, from, x) /\ touched' \in {touched, touched \cup {r}}
                      /\ LeftStep(r)
                      /\ users' \in [Users -> Nat] => DeletionLocal(r)
  <2>1. \A x : toDelete[r] \ {x} \in Delete!LoopSets
    BY DEF Delete!LoopSets
  <2> QED
    BY <2>1 DEF Delete!Drop
<1>5. CASE Delete!CheckFilesystem(r) \/ Delete!CheckMounts(r)
  BY <1>1, <1>5 DEF Delete!CheckFilesystem, Delete!CheckMounts
<1>6. CASE Delete!ListPoints(r)
  <2>1. Delete!Points \in Delete!LoopSets
    BY DEF Delete!Points, Delete!LoopSets
  <2> QED
    BY <1>0, <1>1, <1>6, <2>1 DEF Delete!ListPoints, Delete!Advance
<1>7. CASE Delete!DeletePoint(r)
  BY <1>0, <1>1, <1>4, <1>7 DEF Delete!DeletePoint
<1>8. CASE Delete!ListUsers(r)
  <2>1. Delete!UsersLeft \in Delete!LoopSets
    BY DEF Delete!LoopSets, Delete!UsersLeft
  <2>2. CASE Delete!Fail(r, "users")
    BY <1>2, <1>8, <2>2 DEF Delete!ListUsers
  <2>3. CASE ~Delete!Fail(r, "users")
    BY <1>0, <1>8, <2>1, <2>3 DEF Delete!ListUsers, Delete!Advance
  <2> QED
    BY <2>2, <2>3
<1>9. CASE Delete!LookUpUser(r)
  <2>1. ASSUME NEW u, left' = [left EXCEPT ![r][u] = users[u]], Delete!KeepOn, users' = users
        PROVE  DeletionLocal(r)
    <3>1. LeftStep(r)
      BY <2>1, LeftSet DEF LeftStep
    <3> QED
      BY <2>1, <3>1 DEF Delete!KeepOn
  <2> QED
    BY <1>0, <1>1, <1>4, <1>9, <2>1 DEF Delete!LookUpUser
<1>10. CASE Delete!StripUser(r)
  <2>1. PICK u \in Users : Delete!StripOne(r, u)
    BY <1>10 DEF Delete!StripUser
  <2>2. users[u] \in Nat /\ left[r][u] \in Nat
    OBVIOUS
  <2>3. users' \in [Users -> Nat]
    BY <2>1, <2>2 DEF Delete!StripOne
  <2>4. LeftStep(r)
    <3>1. \E n \in Nat : left' = [left EXCEPT ![r][u] = n]
      BY <2>1, <2>2 DEF Delete!StripOne, Delete!LeaveUser
    <3> QED
      BY <3>1, LeftSet DEF LeftStep
  <2>5. Delete!LeaveUser(r, u) \/ Delete!KeepOn
    BY <2>1 DEF Delete!StripOne
  <2> QED
    BY <1>4, <2>3, <2>4, <2>5 DEF Delete!LeaveUser, Delete!KeepOn
<1>11. CASE Delete!ListMounts(r)
  <2>1. Delete!Mounts \in Delete!LoopSets
    BY DEF Delete!Mounts, Delete!LoopSets
  <2>2. CASE Delete!Fail(r, "list")
    BY <1>2, <1>11, <2>2 DEF Delete!ListMounts
  <2>3. CASE ~Delete!Fail(r, "list")
    BY <1>0, <1>11, <2>1, <2>3 DEF Delete!ListMounts, Delete!Advance
  <2> QED
    BY <2>2, <2>3
<1>12. CASE Delete!DeleteMount(r)
  BY <1>0, <1>1, <1>2, <1>4, <1>12 DEF Delete!DeleteMount
<1>13. CASE Delete!AwaitUnmounted(r)
  BY <1>1, <1>3, <1>13 DEF Delete!AwaitUnmounted
<1>14. CASE Delete!DeleteTheFilesystem(r)
  BY <1>0, <1>3, <1>14 DEF Delete!DeleteTheFilesystem, Delete!Advance
<1> QED
  BY <1>5, <1>6, <1>7, <1>8, <1>9, <1>10, <1>11, <1>12, <1>13, <1>14 DEF Delete!RequestStep

LEMMA DeletionTypes ==
  ASSUME Delete!TypeOK, NEW r \in Deletions, DeletionStep(r)
  PROVE  Delete!TypeOK'
<1>1. ASSUME Delete!RequestStep(r) PROVE Delete!TypeOK'
  <2>1. DeletionShared(r)
    BY <1>1, DeletionSharedStep
  <2>2. Delete!EfsTypeOK'
    BY <2>1 DEF DeletionShared, Delete!TypeOK, Delete!EfsTypeOK, Delete!LifeCycle, Delete!efs,
       Delete!DeleteFileSystem, Delete!DeleteMountTarget, Delete!DeleteAccessPoint, Delete!Call
  <2>3. Delete!Task!TypeOK'
    BY <2>1 DEF DeletionShared, Delete!TypeOK, Delete!Task!TypeOK, Delete!Task!Outcome,
       Delete!Task!HandOver, Delete!tasks
  <2>4. DeletionLocal(r)
    BY <1>1, DeletionLocalStep
  <2>5. mount \in [Subnets -> Delete!LifeCycle]
    BY DEF Delete!TypeOK, Delete!EfsTypeOK
  <2>6. /\ at' \in [Deletions -> Delete!Place] /\ triesToDelete' \in [Deletions -> Nat]
        /\ toDelete' \in [Deletions -> Delete!LoopSets]
    BY <2>4 DEF DeletionLocal, Delete!TypeOK
  <2>7. left' \in [Deletions -> [Users -> Nat]]
    BY <2>4 DEF DeletionLocal, LeftStep, Delete!TypeOK
  <2>8. seen' \in [Deletions -> [Subnets -> Delete!LifeCycle]]
    BY <2>4, <2>5 DEF DeletionLocal, Delete!TypeOK
  <2>9. users' \in [Users -> Nat] /\ touched' \in SUBSET Deletions
    BY <2>4 DEF DeletionLocal, Delete!TypeOK
  <2> QED
    BY <2>2, <2>3, <2>6, <2>7, <2>8, <2>9 DEF Delete!TypeOK
<1>2. ASSUME Delete!TrackTask(r) PROVE Delete!TypeOK'
  <2>1. Delete!Task!TypeOK'
    BY <1>2 DEF Delete!TrackTask, Delete!TypeOK, Delete!Task!TypeOK, Delete!Task!Status,
       Delete!Task!Outcome, Delete!Task!Truth, Delete!Task!Start, Delete!Task!Record
  <2> QED
    BY <1>2, <2>1 DEF Delete!TrackTask, Delete!TypeOK, Delete!EfsTypeOK, Delete!efs, Delete!local
<1> QED
  BY <1>1, <1>2 DEF DeletionStep

(* Both see the same service, before a step and after it.                  *)
LEMMA SameEfs == (Delete!EfsTypeOK <=> EfsTypeOK) /\ (Delete!EfsTypeOK' <=> EfsTypeOK')
  BY DEF Delete!EfsTypeOK, EfsTypeOK, Delete!LifeCycle, LifeCycle, Delete!Settings, Settings

Typed == Control /\ Delete!TypeOK /\ dropped \in SUBSET AccessPoints

LEMMA TypedStep == Typed /\ [LifeNext]_lifeVars => Typed'
<1> SUFFICES ASSUME Typed, [LifeNext]_lifeVars PROVE Typed'
  OBVIOUS
<1> USE DEF Typed
<1>1. EfsTypeOK' /\ UNCHANGED deletion => Delete!TypeOK'
  <2>1. EfsTypeOK' => Delete!EfsTypeOK'
    BY SameEfs
  <2> QED
    BY <2>1 DEF deletion, Delete!TypeOK, Delete!Task!TypeOK
<1>2. ASSUME NEW r \in Deletions, DeletionStep(r) PROVE Typed'
  <2>1. Delete!TypeOK'
    BY <1>2, DeletionTypes
  <2>2. EfsTypeOK'
    BY <2>1, SameEfs DEF Delete!TypeOK
  <2> QED
    BY <1>2, <2>1, <2>2 DEF DeletionStep, creation, undo, tasks, children, Control, TypeOK,
       Task!TypeOK, Registered, Failed
<1>3. ASSUME NEW p \in AccessPoints, RequestPoint(p) \/ DropPoint(p) PROVE Typed'
  <2>1. /\ UNCHANGED <<pc, req, todo, tries, childTries, undo, tasks>>
        /\ UNCHANGED deletion /\ EfsTypeOK'
        /\ child' \in [AccessPoints -> {"none", "wait", "ended"}]
    BY <1>3, PointRequest DEF Control, TypeOK
  <2>2. Control'
    BY <2>1 DEF undo, tasks, Control, TypeOK, Task!TypeOK, Registered, Failed
  <2>3. dropped' \in SUBSET AccessPoints
    BY <1>3 DEF RequestPoint, DropPoint
  <2> QED
    BY <1>1, <2>1, <2>2, <2>3
<1>4. ASSUME [Next]_vars, UNCHANGED <<deletion, dropped>> PROVE Typed'
  <2>1. Control'
    BY <1>4, ControlStep
  <2> QED
    BY <1>1, <1>4, <2>1 DEF Control, TypeOK
<1>5. UNCHANGED lifeVars => UNCHANGED vars /\ UNCHANGED <<deletion, dropped>>
  BY DEF lifeVars, creation, vars
<1> QED
  BY <1>2, <1>3, <1>4, <1>5 DEF LifeNext, CreationStep

-----------------------------------------------------------------------------
(* The filesystem comes once and goes once, and the tasks tell by whom.    *)
Accounts == ConcludedAtEnd /\ MadeBefore /\ PointsOnce

(* What a step may do, in terms of Provisioning. *)
Kept == [Promise!Next]_(Promise!vars)

(* A step of the creation or of the service that ends nothing and deletes  *)
(* nothing.                                                                *)
LEMMA QuietStep ==
  ASSUME ConcludedAtEnd, MadeBefore, UNCHANGED <<outcome, child, deletion>>,
         pc = "returned" <=> pc' = "returned", Failed <=> Failed', resource' = resource,
         fs' = "none" => pc' \in {"request", "create", "refused"}
  PROVE  ConcludedAtEnd' /\ MadeBefore' /\ Kept
<1>1. ConcludedAtEnd'
  BY DEF ConcludedAtEnd, Concluded, Delete!Concluded, deletion
<1>2. fs' = "none" => fs = "none"
  BY DEF resource, Gone
<1>3. MadeBefore'
  BY <1>2 DEF MadeBefore, deletion
<1> QED
  BY <1>1, <1>3 DEF Kept, Promise!vars, deletion

(* The creation ends, where it has not ended before.                       *)
Over == {"returned", "rollback", "rolledback", "timedout"}

LEMMA EndStep ==
  ASSUME Typed, ConcludedAtEnd, MadeBefore, NEW o \in {"ok", "error"},
         Task!HandOver(CreateTask, o), UNCHANGED <<fs, child, deletion>>,
         pc \notin {"request", "create", "refused", "returned"}, ~Failed,
         o = "ok" => pc' = "returned", o = "error" => pc' = "rollback"
  PROVE  ConcludedAtEnd' /\ MadeBefore' /\ Kept
<1>1. /\ outcome[CreateTask] = "pending" /\ outcome'[CreateTask] = o
      /\ \A p \in AccessPoints : outcome'[p] = outcome[p]
  BY TaskIdsAssumption DEF Task!HandOver, Typed, Control, TypeOK, Task!TypeOK, Task!Outcome,
     TaskIds, ConcludedAtEnd, Concluded
<1>2. ConcludedAtEnd'
  BY <1>1 DEF ConcludedAtEnd, Concluded, Delete!Concluded, deletion, Failed
<1>3. fs # "none" /\ MadeBefore'
  BY DEF MadeBefore
<1>4. Promise!Conclude(o)
  BY <1>1, <1>3 DEF Promise!Conclude, resource, Gone, deletion
<1> QED
  BY <1>2, <1>3, <1>4 DEF Kept, Promise!Next

LEMMA FailEnds ==
  ASSUME Typed, ConcludedAtEnd, MadeBefore, UNCHANGED <<fs, deletion>>, NEW from, Fail(from),
         from \notin {"request", "create", "refused"} \cup Over
  PROVE  ConcludedAtEnd' /\ MadeBefore' /\ Kept
  BY EndStep DEF Fail, children, Failed, Over

LEMMA RetryEnds ==
  ASSUME Typed, ConcludedAtEnd, MadeBefore, UNCHANGED <<fs, deletion>>, NEW from, TryAgain(from),
         from \notin {"request", "create", "refused"} \cup Over
  PROVE  ConcludedAtEnd' /\ MadeBefore' /\ Kept
<1>1. CASE Fail(from)
  BY <1>1, FailEnds
<1>2. CASE ~Fail(from)
  <2>1. UNCHANGED <<pc, outcome, child>>
    BY <1>2 DEF TryAgain, children, tasks
  <2> QED
    BY <1>2, <2>1, QuietStep
       DEF Failed, resource, Gone, MadeBefore, Over, TryAgain
<1> QED
  BY <1>1, <1>2

LEMMA AdvanceEnds ==
  ASSUME ConcludedAtEnd, MadeBefore, UNCHANGED <<fs, deletion>>, NEW from, NEW to,
         Advance(from, to), {from, to} \cap Over = {},
         to \in {"create", "refused"} \/ from \notin {"request", "create", "refused"}
  PROVE  ConcludedAtEnd' /\ MadeBefore' /\ Kept
  BY QuietStep DEF Advance, children, tasks, Over, Failed, resource, Gone, MadeBefore

(* Every step of the creation, and of the service.                         *)
LEMMA CreationKeeps ==
  ASSUME Typed, ConcludedAtEnd, MadeBefore, PointsOnce, [Next]_vars, UNCHANGED deletion
  PROVE  ConcludedAtEnd' /\ MadeBefore' /\ Kept
<1> DEFINE Goal == ConcludedAtEnd' /\ MadeBefore' /\ Kept
<1> USE DEF efs, Over
<1>1. CASE Request \/ UNCHANGED vars
  <2>1. /\ UNCHANGED <<fs, outcome, child>>
        /\ pc' = pc \/ (pc = "request" /\ pc' \in {"create", "refused"})
    <3>1. CASE Request
      BY <3>1 DEF Request, Accept, Refuse, Advance, children, tasks
    <3>2. CASE UNCHANGED vars
      BY <3>2 DEF vars, children, tasks
    <3> QED
      BY <1>1, <3>1, <3>2
  <2> QED
    BY <2>1, QuietStep DEF Failed, resource, Gone, MadeBefore
<1>2. CASE RequestFilesystem
  <2>1. /\ pc = "create" /\ pc' \in {"available", "refused"} /\ UNCHANGED <<outcome, child>>
        /\ \/ fs = "none" /\ fs' = "creating"
           \/ fs' = fs /\ pc' = "refused"
    BY <1>2 DEF RequestFilesystem, CreateFileSystem, Call, Advance, children, tasks
  <2>2. CASE fs' = fs /\ pc' = "refused"
    BY <2>1, <2>2, QuietStep DEF Failed, resource, Gone
  <2>3. CASE fs = "none" /\ fs' = "creating"
    <3>1. outcome[CreateTask] = "pending"
      BY <2>1 DEF ConcludedAtEnd, Concluded, Failed, Typed, Control, TypeOK, Task!TypeOK, Task!Outcome, TaskIds
    <3>2. Promise!Make
      BY <2>1, <2>3, <3>1 DEF Promise!Make, resource, Gone, deletion
    <3> QED
      BY <2>1, <2>3, <3>2
         DEF Kept, Promise!Next, ConcludedAtEnd, Concluded, Delete!Concluded, MadeBefore, Failed,
            deletion
  <2> QED
    BY <2>1, <2>2, <2>3
<1>3. CASE PollFilesystem
  <2>1. CASE TryAgain("available")
    BY <1>3, <2>1, RetryEnds DEF PollFilesystem
  <2>2. CASE ~TryAgain("available")
    BY <1>3, <2>2, QuietStep DEF PollFilesystem, children, tasks, Failed, resource, Gone, MadeBefore
  <2> QED
    BY <2>1, <2>2
<1>4. CASE SetBackup
  BY <1>4, FailEnds, AdvanceEnds DEF SetBackup, Set, Call
<1>5. CASE SetLifecycle
  BY <1>5, FailEnds, AdvanceEnds DEF SetLifecycle, Set, Call
<1>6. CASE SetPolicy
  BY <1>6, FailEnds, AdvanceEnds DEF SetPolicy, Set, Call
<1>7. CASE CreateMount
  BY <1>7, FailEnds, AdvanceEnds DEF CreateMount, CreateMountTarget, Call
<1>8. CASE PollMounts
  <2>1. CASE TryAgain("mounted")
    BY <1>8, <2>1, RetryEnds DEF PollMounts
  <2>2. CASE ~TryAgain("mounted")
    BY <1>8, <2>2, QuietStep DEF PollMounts, children, tasks, Failed, resource, Gone, MadeBefore
  <2> QED
    BY <2>1, <2>2
<1>9. CASE CreatePoint
  <2>1. PICK p \in todo :
          \/ /\ CreateAccessPoint(p, TRUE)
             /\ pc' = "child"
             /\ child' = [child EXCEPT ![p] = "wait"]
             /\ UNCHANGED <<req, todo, tries, childTries, undo, tasks>>
          \/ CreateAccessPoint(p, FALSE) /\ Fail("points")
    BY <1>9 DEF CreatePoint
  <2>2. UNCHANGED fs
    BY <2>1 DEF CreateAccessPoint, Call
  <2>3. CASE Fail("points")
    BY <2>2, <2>3, FailEnds
  <2>4. CASE ~Fail("points")
    <3>1. /\ pc = "points" /\ pc' = "child" /\ UNCHANGED outcome
          /\ child' = [child EXCEPT ![p] = "wait"]
      BY <1>9, <2>1, <2>4 DEF CreatePoint, tasks
    <3>2. child[p] = "none" /\ p \in AccessPoints
      BY <3>1 DEF PointsOnce, Typed, Control, TypeOK, Requests
    <3>3. ConcludedAtEnd'
      BY <3>1, <3>2 DEF ConcludedAtEnd, Concluded, Delete!Concluded, Failed, deletion, Typed,
         Control, TypeOK
    <3> QED
      BY <2>2, <3>1, <3>3 DEF MadeBefore, Kept, Promise!vars, resource, Gone, deletion
  <2> QED
    BY <2>3, <2>4
<1>10. CASE PollChild
  <2>1. CASE TryAgain("child")
    BY <1>10, <2>1, RetryEnds DEF PollChild
  <2>2. CASE ~TryAgain("child")
    BY <1>10, <2>2, AdvanceEnds DEF PollChild
  <2> QED
    BY <2>1, <2>2
<1>11. CASE Return
  BY <1>11, EndStep DEF Return, children, Failed
<1>12. CASE RollBackSucceeds \/ RollBackTimesOut
  BY <1>12, QuietStep
     DEF RollBackSucceeds, RollBackTimesOut, children, tasks, Failed, resource, Gone, MadeBefore
<1>13. ASSUME NEW p \in AccessPoints, PollPoint(p) PROVE Goal
  <2>1. UNCHANGED <<fs, pc>>
    BY <1>13 DEF PollPoint
  <2>2. CASE UNCHANGED <<outcome, child>>
    BY <2>1, <2>2, QuietStep DEF Failed, resource, Gone, MadeBefore
  <2>3. CASE \E o \in {"ok", "error"} : ChildEnds(p, o)
    <3>1. PICK o \in {"ok", "error"} :
            /\ outcome' = [outcome EXCEPT ![p] = o]
            /\ child' = [child EXCEPT ![p] = "ended"]
      BY <2>3 DEF ChildEnds, Task!HandOver
    <3>2. /\ outcome'[CreateTask] = outcome[CreateTask]
          /\ \A q \in AccessPoints : /\ outcome'[q] = IF q = p THEN o ELSE outcome[q]
                                     /\ child'[q] = IF q = p THEN "ended" ELSE child[q]
      BY <3>1, TaskIdsAssumption DEF Typed, Control, TypeOK, Task!TypeOK, TaskIds
    <3>3. ConcludedAtEnd'
      BY <2>1, <3>2 DEF ConcludedAtEnd, Concluded, Delete!Concluded, Failed, deletion
    <3> QED
      BY <2>1, <3>2, <3>3 DEF MadeBefore, Kept, Promise!vars, resource, Gone, deletion
  <2> QED
    BY <1>13, <2>2, <2>3 DEF PollPoint, tasks
<1>14. CASE RollBackStep
  <2>1. UNCHANGED <<pc, outcome, child>> /\ Failed
    BY <1>14 DEF RollBackStep, RollBackFilesystem, RollBackMounts, Unmount, AwaitUnmounted,
       RollBackDone, children, tasks, Typed, Control, Registered
  <2>2. fs' = fs \/ (fs = "available" /\ fs' = "deleting")
    <3>1. CASE RollBackFilesystem
      BY <3>1 DEF RollBackFilesystem, DeleteFileSystem, Call
    <3>2. CASE Unmount
      BY <3>2 DEF Unmount, DeleteMountTarget, Call
    <3>3. CASE RollBackMounts \/ AwaitUnmounted \/ RollBackDone
      BY <3>3 DEF RollBackMounts, AwaitUnmounted, RollBackDone
    <3> QED
      BY <1>14, <3>1, <3>2, <3>3 DEF RollBackStep
  <2>3. CASE fs' = fs
    BY <2>1, <2>3, QuietStep DEF Failed, resource, Gone, MadeBefore
  <2>4. CASE fs = "available" /\ fs' = "deleting"
    <3>1. Promise!Undo
      BY <2>1, <2>4 DEF Promise!Undo, ConcludedAtEnd, Concluded, resource, Gone, deletion
    <3> QED
      BY <2>1, <2>4, <3>1
         DEF Kept, Promise!Next, ConcludedAtEnd, Concluded, Delete!Concluded, MadeBefore, Failed,
            deletion
  <2> QED
    BY <2>2, <2>3, <2>4
<1>15. CASE \E t \in TaskIds : TrackTask(t)
  BY <1>15, QuietStep
     DEF TrackTask, Task!Start, Task!Record, children, Failed, resource, Gone, MadeBefore
<1>16. CASE ServiceStep
  <2>1. UNCHANGED <<pc, outcome, child>>
    BY <1>16 DEF ServiceStep, children, tasks
  <2>2. resource' = resource /\ (fs' = "none" => fs = "none")
    BY <1>16 DEF ServiceStep, Environment, FileSystemProgress, MountProgress, PointProgress,
       Created, resource, Gone
  <2> QED
    BY <2>1, <2>2, QuietStep DEF Failed, MadeBefore
<1> QED
  BY <1>1, <1>2, <1>3, <1>4, <1>5, <1>6, <1>7, <1>8, <1>9, <1>10, <1>11, <1>12, <1>13, <1>14,
     <1>15, <1>16 DEF Next, WorkerStep

(* A deletion ends once, and deletes once.  Each step of one, in terms of  *)
(* Provisioning.                                                           *)
LEMMA DeletionKeeps ==
  ASSUME Typed, ConcludedAtEnd, MadeBefore, NEW r \in Deletions, DeletionStep(r)
  PROVE  ConcludedAtEnd' /\ MadeBefore' /\ Kept
<1> DEFINE Goal == ConcludedAtEnd' /\ MadeBefore' /\ Kept
<1>0. /\ UNCHANGED <<pc, outcome, child>>
      /\ at \in [Deletions -> Delete!Place]
      /\ deleteOutcome \in [Deletions -> {"pending", "ok", "error"}]
  BY DEF DeletionStep, creation, children, tasks, Typed, Delete!TypeOK, Delete!Task!TypeOK,
     Delete!Task!Outcome
<1>1. ASSUME NEW from, NEW to, at[r] = from, at' = [at EXCEPT ![r] = to],
             UNCHANGED <<fs, deleteOutcome>>,
             {from, to} \cap {"returned", "failed"} = {},
             fs # "none" \/ to = "refused"
      PROVE  Goal
  <2>1. ConcludedAtEnd'
    BY <1>0, <1>1 DEF ConcludedAtEnd, Concluded, Delete!Concluded, Failed
  <2>2. MadeBefore'
    BY <1>0, <1>1 DEF MadeBefore
  <2> QED
    BY <1>0, <1>1, <2>1, <2>2 DEF Kept, Promise!vars, resource, Gone
<1>2. ASSUME NEW from, from \notin {"request", "refused", "returned", "failed"}, Delete!Fail(r, from),
             fs' = fs \/ (Faulty /\ fs = "available" /\ fs' = "deleting")
      PROVE  Goal
  <2>1. /\ at[r] = from /\ at' = [at EXCEPT ![r] = "failed"]
        /\ deleteOutcome[r] = "pending"
        /\ deleteOutcome' = [deleteOutcome EXCEPT ![r] = "error"]
    BY <1>0, <1>2 DEF Delete!Fail, Delete!Advance, Delete!Task!HandOver, ConcludedAtEnd,
       Delete!Concluded
  <2>2. fs # "none"
    BY <1>2, <2>1 DEF MadeBefore
  <2>3. ConcludedAtEnd'
    BY <1>0, <1>2, <2>1 DEF ConcludedAtEnd, Concluded, Delete!Concluded, Failed
  <2>4. MadeBefore'
    BY <1>2, <2>2 DEF MadeBefore
  <2>5. Promise!GiveUp(r) \/ Promise!LoseAnswer(r)
    BY <1>0, <1>2, <2>1, <2>2 DEF Promise!GiveUp, Promise!LoseAnswer, resource, Gone
  <2> QED
    BY <2>3, <2>4, <2>5 DEF Kept, Promise!Next
<1>3. UNCHANGED <<fs, at, deleteOutcome>> => Goal
  BY <1>0 DEF ConcludedAtEnd, Concluded, Delete!Concluded, MadeBefore, Failed, Kept, Promise!vars, resource, Gone
<1>4. \A from, to : Delete!Answer(r, from, to) =>
          /\ at[r] = from /\ at' = [at EXCEPT ![r] = to]
          /\ UNCHANGED deleteOutcome
  BY DEF Delete!Answer, Delete!Advance, Delete!tasks
<1>5. at[r] \notin {"request", "refused"} => fs # "none"
  BY DEF MadeBefore
<1> USE DEF Delete!efs
<1>6. CASE Delete!CheckFilesystem(r) \/ Delete!CheckMounts(r)
  BY <1>1, <1>4, <1>5, <1>6 DEF Delete!CheckFilesystem, Delete!CheckMounts
<1>7. CASE Delete!ListPoints(r)
  BY <1>1, <1>4, <1>5, <1>7 DEF Delete!ListPoints, Delete!Advance, Delete!tasks
<1>8. CASE Delete!DeletePoint(r)
  BY <1>1, <1>3, <1>4, <1>5, <1>8 DEF Delete!DeletePoint, Delete!DeleteAccessPoint,
     Delete!Call, Delete!Drop, Delete!tasks
<1>9. CASE Delete!ListUsers(r)
  BY <1>1, <1>2, <1>5, <1>9 DEF Delete!ListUsers, Delete!Advance, Delete!tasks
<1>10. CASE Delete!LookUpUser(r)
  BY <1>1, <1>3, <1>4, <1>5, <1>10 DEF Delete!LookUpUser, Delete!AtLoop, Delete!KeepOn,
     Delete!Drop, Delete!tasks
<1>11. CASE Delete!StripUser(r)
  BY <1>3, <1>11 DEF Delete!StripUser, Delete!StripOne, Delete!LeaveUser, Delete!KeepOn,
     Delete!Drop, Delete!tasks
<1>12. CASE Delete!ListMounts(r)
  BY <1>1, <1>2, <1>5, <1>12 DEF Delete!ListMounts, Delete!Advance, Delete!tasks
<1>13. CASE Delete!DeleteMount(r)
  BY <1>1, <1>2, <1>3, <1>4, <1>5, <1>13 DEF Delete!DeleteMount, Delete!DeleteMountTarget,
     Delete!Call, Delete!Drop, Delete!tasks
<1>14. CASE Delete!AwaitUnmounted(r)
  BY <1>1, <1>2, <1>3, <1>4, <1>5, <1>14 DEF Delete!AwaitUnmounted, Delete!TryAgain, Delete!tasks
<1>15. CASE Delete!DeleteTheFilesystem(r)
  <2>1. CASE /\ Delete!DeleteFileSystem(TRUE)
             /\ Delete!Advance(r, "delete", "returned")
             /\ Delete!Task!HandOver(r, "ok")
    <3>1. /\ at[r] = "delete" /\ at' = [at EXCEPT ![r] = "returned"]
          /\ deleteOutcome[r] = "pending"
          /\ deleteOutcome' = [deleteOutcome EXCEPT ![r] = "ok"]
          /\ fs = "available" /\ fs' = "deleting"
      BY <1>0, <2>1 DEF Delete!DeleteFileSystem, Delete!Call, Delete!Advance,
         Delete!Task!HandOver, ConcludedAtEnd, Delete!Concluded
    <3>2. ConcludedAtEnd' /\ MadeBefore'
      BY <1>0, <3>1 DEF ConcludedAtEnd, Concluded, Delete!Concluded, MadeBefore, Failed
    <3>3. Promise!Remove(r)
      BY <1>0, <3>1 DEF Promise!Remove, resource, Gone
    <3> QED
      BY <3>2, <3>3 DEF Kept, Promise!Next
  <2>2. CASE Delete!DeleteFileSystem(FALSE) /\ Delete!TryAgain(r, "delete", DeleteAttempts)
    <3>1. fs' = fs \/ (Faulty /\ fs = "available" /\ fs' = "deleting")
      BY <2>2 DEF Delete!DeleteFileSystem, Delete!Call
    <3>2. CASE Delete!Fail(r, "delete")
      BY <1>2, <3>1, <3>2
    <3>3. CASE ~Delete!Fail(r, "delete")
      <4>1. at[r] = "delete" /\ UNCHANGED <<at, deleteOutcome>>
        BY <2>2, <3>3 DEF Delete!TryAgain, Delete!tasks
      <4>2. deleteOutcome[r] = "pending"
        BY <1>0, <4>1 DEF ConcludedAtEnd, Delete!Concluded
      <4>3. fs' # fs => Promise!LoseAnswer(r) /\ ConcludedAtEnd' /\ MadeBefore'
        BY <1>0, <3>1, <4>1, <4>2
           DEF Promise!LoseAnswer, resource, Gone, ConcludedAtEnd, Concluded, Delete!Concluded,
              MadeBefore, Failed
      <4> QED
        BY <1>3, <4>1, <4>3 DEF Kept, Promise!Next
    <3> QED
      BY <3>2, <3>3
  <2> QED
    BY <1>15, <2>1, <2>2 DEF Delete!DeleteTheFilesystem
<1>16. CASE Delete!TrackTask(r)
  BY <1>3, <1>16 DEF Delete!TrackTask, Delete!local, Delete!Task!Start, Delete!Task!Record
<1> QED
  BY <1>6, <1>7, <1>8, <1>9, <1>10, <1>11, <1>12, <1>13, <1>14, <1>15, <1>16
     DEF DeletionStep, Delete!RequestStep

(* Every step, of whomever. *)
LEMMA AccountsStep ==
  ASSUME Typed, Accounts, [LifeNext]_lifeVars
  PROVE  Accounts' /\ Kept
<1> USE DEF Accounts
<1>1. ASSUME NEW r \in Deletions, DeletionStep(r) PROVE Accounts' /\ Kept
  <2>1. UNCHANGED <<pc, req, todo, child>>
    BY <1>1 DEF DeletionStep, creation, children
  <2>2. PointsOnce'
    BY <2>1 DEF PointsOnce, Failed
  <2> QED
    BY <1>1, <2>2, DeletionKeeps
<1>2. ASSUME NEW p \in AccessPoints, RequestPoint(p) PROVE Accounts' /\ Kept
  <2>1. /\ UNCHANGED <<fs, pc, req, todo, outcome, at, deleteOutcome>>
        /\ pc # "request" /\ p \notin req.points /\ child[p] = "none"
        /\ child' = child \/ child' = [child EXCEPT ![p] = "wait"]
    BY <1>2 DEF RequestPoint, CreateAccessPoint, Call, efs, tasks, deletion
  <2>2. \A q \in AccessPoints \ {p} : child'[q] = child[q]
    BY <2>1 DEF Typed, Control, TypeOK
  <2>3. child'[p] # "ended"
    BY <2>1 DEF Typed, Control, TypeOK
  <2>4. ConcludedAtEnd'
    BY <2>1, <2>2, <2>3 DEF ConcludedAtEnd, Concluded, Delete!Concluded, Failed
  <2>5. req.points \subseteq AccessPoints
    BY DEF Typed, Control, TypeOK, Requests
  <2>6. PointsOnce'
    BY <2>1, <2>2, <2>5 DEF PointsOnce, Failed, AtPoints
  <2> QED
    BY <2>1, <2>4, <2>6 DEF MadeBefore, Kept, Promise!vars, resource, Gone
<1>3. ASSUME NEW p \in AccessPoints, DropPoint(p) PROVE Accounts' /\ Kept
  <2>1. UNCHANGED <<fs, pc, req, todo, child, outcome, deletion>>
    BY <1>3 DEF DropPoint, DeleteAccessPoint, Call, efs, creation, children, tasks
  <2>2. PointsOnce'
    BY <2>1 DEF PointsOnce, Failed
  <2> QED
    BY <2>1, <2>2, QuietStep DEF resource, Gone, MadeBefore, Failed
<1>4. ASSUME [Next]_vars, UNCHANGED <<deletion, dropped>> PROVE Accounts' /\ Kept
  BY <1>4, CreationKeeps, PointsOnceStep DEF Typed
<1>5. UNCHANGED lifeVars => UNCHANGED vars /\ UNCHANGED <<deletion, dropped>>
  BY DEF lifeVars, creation, vars
<1> QED
  BY <1>1, <1>2, <1>3, <1>4, <1>5 DEF LifeNext, CreationStep

LEMMA LifeStart == LifeInit => Typed /\ Accounts /\ Promise!Init
<1> SUFFICES ASSUME LifeInit PROVE Typed /\ Accounts /\ Promise!Init
  OBVIOUS
<1>1. Control
  BY InitIInv DEF LifeInit, IInv, CoreInv, Control
<1>2. Delete!TypeOK
  BY <1>1, SameEfs DEF LifeInit, Control, TypeOK, Delete!TypeOK, Delete!Task!Init,
     Delete!Task!TypeOK, Delete!Task!Status, Delete!Task!Outcome, Delete!Place,
     Delete!LoopSets, Delete!LifeCycle
<1>3. Typed
  BY <1>1, <1>2 DEF LifeInit, Typed
<1>4. /\ fs = "none" /\ pc = "request" /\ req.points = {}
      /\ outcome = [t \in TaskIds |-> "pending"]
      /\ child = [p \in AccessPoints |-> "none"]
      /\ at = [r \in Deletions |-> "request"]
      /\ deleteOutcome = [r \in Deletions |-> "pending"]
  BY DEF LifeInit, Init, NothingYet, Task!Init, Delete!Task!Init
<1>5. Accounts
  BY <1>4 DEF Accounts, ConcludedAtEnd, Concluded, Delete!Concluded, MadeBefore, PointsOnce,
     Failed, TaskIds
<1>6. Promise!Init
  BY <1>4 DEF Promise!Init, resource, TaskIds
<1> QED
  BY <1>3, <1>5, <1>6

LEMMA LifeStep == Typed /\ Accounts /\ [LifeNext]_lifeVars => (Typed /\ Accounts)' /\ Kept
  BY TypedStep, AccountsStep

(* What was completed stands, however many deletions are asked for and     *)
(* whatever calls fail, until one of them passes its checks.               *)
THEOREM CompletionStands == LifeSpec => []CompletedStands
<1>1. LifeInit => Stands
  BY InitIInv DEF LifeInit, Stands, IInv
<1>2. Stands => CompletedStands
  <2> SUFFICES ASSUME Stands, Quiet
               PROVE  /\ status[CreateTask] = "completed" =>
                            /\ fs = "available"
                            /\ \A s \in req.subnets : mount[s] = "available"
                            /\ \A p \in req.points \ dropped : point[p] = "available"
                      /\ \A p \in AccessPoints \ dropped :
                            status[p] = "completed" /\ ~Failed => point[p] = "available"
    BY DEF CompletedStands, Quiet
  <2> USE DEF Stands, CoreInv, AfterCreation, AtMounts, AtPoints
  <2>1. \A p \in AccessPoints \ dropped :
            status[p] = "completed" /\ ~Failed => point[p] = "available"
    BY DEF TasksTell, TaskIds, PointTells
  <2>2. ASSUME status[CreateTask] = "completed"
        PROVE  /\ fs = "available"
               /\ \A s \in req.subnets : mount[s] = "available"
               /\ \A p \in req.points \ dropped : point[p] = "available"
    <3>1. pc = "returned"
      BY <2>2 DEF TasksTell, TaskIds
    <3>2. fs = "available" /\ \A s \in req.subnets : mount[s] = "available"
      BY <3>1 DEF Progress, AllMountsAvailable
    <3>3. \A p \in req.points : p \in AccessPoints /\ status[p] = "completed"
      BY <3>1 DEF Progress, TypeOK, Requests
    <3> QED
      BY <2>1, <3>1, <3>2, <3>3 DEF Failed
  <2> QED
    BY <2>1, <2>2
<1>3. Accounts /\ Stands /\ [LifeNext]_lifeVars => Stands'
  BY StandsStep DEF Accounts
<1> QED
  BY <1>1, <1>2, <1>3, LifeStart, LifeStep, PTL DEF LifeSpec

(* The inductive invariant of creation, deletions and requests together:   *)
(* types, the rollback's stack, who has concluded, and that each access    *)
(* point of the creation is asked for once.                                *)
THEOREM LifeInvariance == LifeSpec => []LifeInv
<1>1. Typed /\ Accounts => LifeInv
  BY DEF Typed, Control, Accounts, LifeInv, LifeTypeOK
<1> QED
  BY <1>1, LifeStart, LifeStep, PTL DEF LifeSpec

(* Creation, rollback, deletions and requests implement Provisioning.      *)
THEOREM LifeRefinement == LifeSpec => ImplementsProvisioning
<1>1. Kept <=> [Promise!Next]_(Promise!vars)
  BY DEF Kept
<1> QED
  BY <1>1, LifeStart, LifeStep, PTL DEF LifeSpec, ImplementsProvisioning, Promise!Spec

-----------------------------------------------------------------------------
(* Who tells of the end: Provisioning does, if no answer is lost.          *)
LEMMA ToldStep ==
  ASSUME ~Faulty, Typed, GoneIsTold, Kept
  PROVE  GoneIsTold'
<1>0. /\ deleteOutcome \in [Deletions -> {"pending", "ok", "error"}]
      /\ Gone <=> resource = "gone"
      /\ Gone' <=> resource' = "gone"
  BY DEF Typed, Delete!TypeOK, Delete!Task!TypeOK, Delete!Task!Outcome, resource, Gone
<1>1. CASE Promise!Make \/ Promise!Undo
  BY <1>0, <1>1 DEF Promise!Make, Promise!Undo, GoneIsTold
<1>2. CASE Promise!Conclude("ok") \/ Promise!Conclude("error")
  BY <1>0, <1>2 DEF Promise!Conclude, GoneIsTold
<1>3. ASSUME NEW r \in Deletions, Promise!Remove(r) \/ Promise!GiveUp(r) \/ Promise!LoseAnswer(r)
      PROVE  GoneIsTold'
  BY <1>0, <1>3 DEF Promise!Remove, Promise!GiveUp, Promise!LoseAnswer, GoneIsTold
<1>4. CASE UNCHANGED Promise!vars
  BY <1>0, <1>4 DEF Promise!vars, GoneIsTold
<1> QED
  BY <1>1, <1>2, <1>3, <1>4 DEF Kept, Promise!Next

(* As long as calls do not fail, a filesystem that is gone went with the   *)
(* word of a deletion, or with a creation that is known to have failed.    *)
THEOREM GoneIsAccounted ==
  ASSUME ~Faulty
  PROVE  LifeSpec => []GoneIsTold
<1>1. LifeInit => GoneIsTold
  BY DEF LifeInit, Init, NothingYet, GoneIsTold, Gone
<1>2. Typed /\ Accounts /\ GoneIsTold /\ [LifeNext]_lifeVars
         => (Typed /\ Accounts /\ GoneIsTold)'
  BY LifeStep, ToldStep
<1> QED
  BY <1>1, <1>2, LifeStart, PTL DEF LifeSpec

(* As long as calls do not fail, and the attempts of a wait last longer    *)
(* than the rollback does: what is left of the filesystem, or not, is what *)
(* the tasks of its creation and of its deletions tell.                    *)
THEOREM EndIsAccounted ==
  ASSUME ~Faulty, TimeoutFirst
  PROVE  LifeSpec => []EndIsTold
<1>1. LifeInit => Remains
  BY InitIInv DEF LifeInit, Remains, IInv
<1>2. Remains => RolledBackOrTold
  <2> SUFFICES ASSUME Remains, pc = "rolledback", Len(stack) = 2
               PROVE  \/ Gone
                      \/ \E r \in Deletions : at[r] \in {"unmount", "await", "delete", "failed"}
    BY DEF RolledBackOrTold
  <2>1. CASE Untouched
    BY <2>1 DEF Remains, CoreInv, Removal, Registered, Gone
  <2>2. CASE ~Untouched
    BY <2>2 DEF Untouched, Unmounting, Remains
  <2> QED
    BY <2>1, <2>2
<1>3. LifeSpec => []GoneIsTold
  BY GoneIsAccounted
<1>4. Accounts /\ Remains /\ [LifeNext]_lifeVars => Remains'
  BY RemainsStep DEF Accounts
<1> QED
  BY <1>1, <1>2, <1>3, <1>4, LifeStart, LifeStep, PTL DEF LifeSpec, EndIsTold

-----------------------------------------------------------------------------
(* What the clients that poll the tasks are told.                          *)

(* A deletion concludes where its handler or its goroutine ends, and at no *)
(* end does it take another step.                                          *)
LEMMA DeletionEnds ==
  ASSUME Delete!TypeOK, NEW r \in Deletions, Delete!RequestStep(r)
  PROVE  \/ UNCHANGED Delete!tasks
         \/ at[r] \notin {"returned", "failed"}
<1> USE DEF Delete!Advance
<1>1. CASE \/ Delete!CheckFilesystem(r) \/ Delete!CheckMounts(r) \/ Delete!ListPoints(r)
           \/ Delete!DeletePoint(r)
  BY <1>1 DEF Delete!CheckFilesystem, Delete!CheckMounts, Delete!ListPoints,
     Delete!DeletePoint, Delete!Answer, Delete!Drop
<1>2. CASE Delete!ListUsers(r) \/ Delete!ListMounts(r)
  BY <1>2 DEF Delete!ListUsers, Delete!ListMounts, Delete!Fail
<1>3. CASE Delete!LookUpUser(r) \/ Delete!StripUser(r)
  BY <1>3 DEF Delete!LookUpUser, Delete!AtLoop, Delete!StripUser, Delete!StripOne
<1>4. CASE Delete!DeleteMount(r) \/ Delete!AwaitUnmounted(r) \/ Delete!DeleteTheFilesystem(r)
  BY <1>4 DEF Delete!DeleteMount, Delete!AwaitUnmounted, Delete!DeleteTheFilesystem,
     Delete!Answer, Delete!Drop, Delete!Fail, Delete!TryAgain
<1> QED
  BY <1>1, <1>2, <1>3, <1>4 DEF Delete!RequestStep

(* So nobody concludes a task that was concluded before, although nothing  *)
(* in the actions looks whether it was.                                    *)
LEMMA LifeTasksStep ==
  ASSUME Typed, Accounts, [LifeNext]_lifeVars
  PROVE  [Task!Next]_(Task!vars) /\ [Delete!Task!Next]_(Delete!Task!vars)
<1> USE DEF Task!vars, Delete!Task!vars, tasks, Delete!tasks, deletion
<1>1. ASSUME NEW r \in Deletions, DeletionStep(r)
      PROVE  UNCHANGED tasks /\ [Delete!Task!Next]_(Delete!Task!vars)
  <2>1. UNCHANGED tasks
    BY <1>1 DEF DeletionStep, creation
  <2>2. CASE Delete!RequestStep(r)
    <3>1. DeletionShared(r)
      BY <2>2, DeletionSharedStep
    <3>2. CASE UNCHANGED Delete!tasks
      BY <2>1, <3>2
    <3>3. CASE ~UNCHANGED Delete!tasks
      <4>1. at[r] \notin {"returned", "failed"}
        BY <2>2, <3>3, DeletionEnds DEF Typed
      <4>2. deleteOutcome[r] = "pending"
        BY <4>1 DEF Typed, Accounts, ConcludedAtEnd, Delete!Concluded, Delete!TypeOK,
           Delete!Task!TypeOK, Delete!Task!Outcome
      <4> QED
        BY <2>1, <3>1, <3>3, <4>2 DEF DeletionShared, Delete!Task!Next, Delete!Task!Conclude
    <3> QED
      BY <3>2, <3>3
  <2>3. CASE Delete!TrackTask(r)
    BY <2>1, <2>3 DEF Delete!TrackTask, Delete!Task!Next
  <2> QED
    BY <1>1, <2>1, <2>2, <2>3 DEF DeletionStep
<1>2. ASSUME NEW p \in AccessPoints, RequestPoint(p) \/ DropPoint(p)
      PROVE  UNCHANGED <<tasks, Delete!tasks>>
  BY <1>2 DEF RequestPoint, DropPoint, creation
<1>3. ASSUME [Next]_vars, UNCHANGED deletion
      PROVE  [Task!Next]_(Task!vars) /\ UNCHANGED Delete!tasks
  BY <1>3, TasksStep DEF Typed, Accounts, ConcludedAtEnd
<1>4. UNCHANGED lifeVars => UNCHANGED vars /\ UNCHANGED deletion
  BY DEF lifeVars, creation, vars
<1> QED
  BY <1>1, <1>2, <1>3, <1>4 DEF LifeNext, CreationStep

(* The orchestrations only hand over how they ended; that they keep the    *)
(* promise of FlywheelTask comes of where they do: the creation, each of   *)
(* its access points and each deletion hand it over once, however they get *)
(* in each other's way.                                                    *)
THEOREM TasksKeepPromise == LifeSpec => Task!Spec /\ Delete!Task!Spec
<1>1. LifeInit => Task!Init
  BY DEF LifeInit, Init
<1>2. LifeInit => Delete!Task!Init
  BY DEF LifeInit
<1>3. Typed /\ Accounts /\ [LifeNext]_lifeVars => [Task!Next]_(Task!vars)
  BY LifeTasksStep
<1>4. Typed /\ Accounts /\ [LifeNext]_lifeVars => [Delete!Task!Next]_(Delete!Task!vars)
  BY LifeTasksStep
<1>5. LifeSpec => Task!Spec
  BY <1>1, <1>3, LifeStart, LifeStep, PTL DEF LifeSpec, Task!Spec
<1>6. LifeSpec => Delete!Task!Spec
  BY <1>2, <1>4, LifeStart, LifeStep, PTL DEF LifeSpec, Delete!Task!Spec
<1> QED
  BY <1>5, <1>6

(* So a status that a client reads as final says how the goroutine ended   *)
(* that the task stands for: it is over, and has returned with or without  *)
(* an error.                                                               *)
FinalIsOver ==
    /\ status[CreateTask] = "completed" => pc = "returned"
    /\ status[CreateTask] = "failed" => Failed
    /\ \A p \in AccessPoints : status[p] \in Task!Final => child[p] = "ended"
    /\ \A r \in Deletions :
          /\ deleteStatus[r] = "completed" => at[r] = "returned"
          /\ deleteStatus[r] = "failed" => at[r] = "failed"

THEOREM StatusTellsEnd == LifeSpec => []FinalIsOver
<1> DEFINE Truth == Task!StatusIsTruth /\ Delete!Task!StatusIsTruth
<1>1. LifeInit => Truth
  BY DEF LifeInit, Init, Task!Init, Delete!Task!Init, Task!StatusIsTruth, Delete!Task!StatusIsTruth,
     Task!Final, Delete!Task!Final
<1>2. Typed /\ Accounts /\ Truth /\ [LifeNext]_lifeVars => Truth'
  <2> SUFFICES ASSUME Typed, Accounts, Truth, [LifeNext]_lifeVars PROVE Truth'
    OBVIOUS
  <2>1. Task!TypeOK /\ Delete!Task!TypeOK
    BY DEF Typed, Control, TypeOK, Delete!TypeOK
  <2>2. Task!StatusIsTruth'
    BY <2>1, LifeTasksStep DEF Task!Next, Task!vars, Task!Start, Task!Conclude, Task!HandOver,
       Task!Record, Task!Final, Task!Truth, Task!TypeOK, Task!StatusIsTruth
  <2>3. Delete!Task!StatusIsTruth'
    BY <2>1, LifeTasksStep DEF Delete!Task!Next, Delete!Task!vars, Delete!Task!Start,
       Delete!Task!Conclude, Delete!Task!HandOver, Delete!Task!Record, Delete!Task!Final,
       Delete!Task!Truth, Delete!Task!TypeOK, Delete!Task!StatusIsTruth
  <2> QED
    BY <2>2, <2>3
<1>3. Typed /\ Accounts /\ Truth => FinalIsOver
  <2> SUFFICES ASSUME Typed, Accounts, Truth PROVE FinalIsOver
    OBVIOUS
  <2>1. \A t \in TaskIds : outcome[t] \in {"pending", "ok", "error"}
    BY DEF Typed, Control, TypeOK, Task!TypeOK, Task!Outcome
  <2>2. \A r \in Deletions : deleteOutcome[r] \in {"pending", "ok", "error"}
    BY DEF Typed, Delete!TypeOK, Delete!Task!TypeOK, Delete!Task!Outcome
  <2> QED
    BY <2>1, <2>2 DEF Accounts, ConcludedAtEnd, Concluded, Delete!Concluded, FinalIsOver, TaskIds, Task!StatusIsTruth,
       Task!Truth, Task!Final, Delete!Task!StatusIsTruth, Delete!Task!Truth, Delete!Task!Final
<1> QED
  BY <1>1, <1>2, <1>3, LifeStart, LifeStep, PTL DEF LifeSpec
=============================================================================
