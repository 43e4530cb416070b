-------------------------- MODULE FilesystemCreate --------------------------
(***************************************************************************)
(* filesystemCreate of api/orchestration_filesystem.go, from the request   *)
(* to the end of its goroutine (the worker), with the goroutines it        *)
(* starts: one accessPointCreate for each access point, each with a task   *)
(* of its own, and the rollback of api/server.go.                          *)
(*                                                                         *)
(* The tracker of each task is abstracted to FlywheelTask, which           *)
(* TaskTracker implements.  The waits are those of retry: a bounded number *)
(* of attempts with growing sleeps, during which the service may make any  *)
(* progress, or none.                                                      *)
(***************************************************************************)
EXTENDS EFS, Sequences

CONSTANTS
    Attempts,           \* attempts of every retry of this file, 10 in the code
    Sleep,              \* seconds of its first sleep, 2 in the code
    RollBackSeconds     \* what rollBack waits for its tasks, 120 in the code

ASSUME RetryAssumption ==
    /\ Attempts \in Nat \ {0}
    /\ Sleep \in Nat \ {0}
    /\ RollBackSeconds \in Nat

VARIABLES
    pc,             \* where the worker is
    req,            \* the request it serves
    todo,           \* subnets or access points its current loop has left
    tries,          \* failed attempts of its current retry
    child,          \* where the goroutine of each access point is
    childTries,     \* failed attempts of its retry
    stack,          \* rollBackTasks
    rb,             \* where the rollback's goroutine is
    rbAt,           \* tasks of the stack it has left, the last one first
    rbTodo,         \* mount targets it has left to delete
    rbTries,        \* failed attempts of its retry
    status,         \* the tasks, see FlywheelTask
    outcome

undo == <<stack, rb, rbAt, rbTodo, rbTries>>
children == <<child, childTries>>
tasks == <<status, outcome>>
vars == <<efs, pc, req, todo, tries, children, undo, tasks>>

CreateTask == "create"
TaskIds == {CreateTask} \cup AccessPoints

ASSUME TaskIdsAssumption == CreateTask \notin AccessPoints

Task == INSTANCE FlywheelTask WITH Tasks <- TaskIds

Waiting == {"available", "mounted", "child"}
Ended == {"refused", "returned", "rolledback", "timedout"}
Place == {"request", "create", "backup", "lifecycle", "policy", "mounts",
          "points", "rollback"} \cup Waiting \cup Ended

Requests == [subnets : SUBSET Subnets, points : SUBSET AccessPoints, policy : BOOLEAN]

TypeOK ==
    /\ EfsTypeOK
    /\ Task!TypeOK
    /\ pc \in Place
    /\ req \in Requests
    /\ todo \in (SUBSET Subnets) \cup (SUBSET AccessPoints)
    /\ tries \in 0 .. Attempts - 1
    /\ child \in [AccessPoints -> {"none", "wait", "ended"}]
    /\ childTries \in [AccessPoints -> 0 .. Attempts - 1]
    /\ stack \in {<<>>, <<"filesystem">>, <<"filesystem", "mounts">>}
    /\ rb \in {"idle", "next", "unmount", "await", "finished"}
    /\ rbAt \in 0 .. 2
    /\ rbTodo \in SUBSET Subnets
    /\ rbTries \in 0 .. Attempts - 1

Init ==
    /\ NothingYet
    /\ Task!Init
    /\ pc = "request"
    /\ req = [subnets |-> {}, points |-> {}, policy |-> FALSE]
    /\ todo = {}
    /\ tries = 0
    /\ child = [p \in AccessPoints |-> "none"]
    /\ childTries = [p \in AccessPoints |-> 0]
    /\ stack = <<>>
    /\ rb = "idle"
    /\ rbAt = 0
    /\ rbTodo = {}
    /\ rbTries = 0

(* A retry that has failed n times has slept at least this long. *)
Slept(n) == Sleep * (2^n - 1)

-----------------------------------------------------------------------------
(* The worker goes on, and nothing but its place, and the service, change. *)
Advance(from, to) ==
    /\ pc = from
    /\ pc' = to
    /\ tries' = 0
    /\ UNCHANGED <<children, undo, tasks>>

(* The worker hands over an error and returns: the deferred function finds *)
(* the error and starts rollBack.                                          *)
Fail(from) ==
    /\ pc = from
    /\ pc' = "rollback"
    /\ tries' = 0
    /\ rb' = "next"
    /\ rbAt' = Len(stack)
    /\ Task!HandOver(CreateTask, "error")
    /\ UNCHANGED <<req, todo, children, stack, rbTodo, rbTries>>

(* Mutants: one attempt too many, and no end of them. *)
TryOnceMore(from) ==
    \/ /\ pc = from
       /\ tries + 1 <= Attempts
       /\ tries' = tries + 1
       /\ UNCHANGED <<pc, req, todo, children, undo, tasks>>
    \/ tries = Attempts /\ Fail(from)

TryForEver(from) == pc = from /\ UNCHANGED vars

(* One more attempt has failed; after the last one retry gives up. *)
TryAgain(from) ==
    \/ /\ pc = from
       /\ tries + 1 < Attempts
       /\ tries' = tries + 1
       /\ UNCHANGED <<pc, req, todo, children, undo, tasks>>
    \/ tries + 1 = Attempts /\ Fail(from)

-----------------------------------------------------------------------------
(* A request that passes the validation.  For one zone, a subnet is picked *)
(* from those of the request; subnetAzs refuses a request without any.     *)
Accept(r, oneZone) ==
    /\ Advance("request", "create")
    /\ IF oneZone
       THEN \E s \in r.subnets : req' = [r EXCEPT !.subnets = {s}]
       ELSE req' = r
    /\ UNCHANGED <<efs, todo>>

(* A request that fails the validation, or for which no role or zone is    *)
(* found: nothing was done.                                                *)
Refuse == Advance("request", "refused") /\ UNCHANGED <<efs, req, todo>>

(* The last call of the handler: from here on the client has a task. *)
RequestFilesystem ==
    /\ \/ CreateFileSystem(TRUE) /\ Advance("create", "available")
       \/ CreateFileSystem(FALSE) /\ Advance("create", "refused")
    /\ UNCHANGED <<req, todo>>

(* Wait for the filesystem, then register its deletion for the rollback. *)
PollFilesystem ==
    /\ \/ /\ fs = "available"
          /\ pc = "available"
          /\ pc' = "backup"
          /\ tries' = 0
          /\ stack' = <<"filesystem">>
          /\ UNCHANGED <<req, todo, children, rb, rbAt, rbTodo, rbTries, tasks>>
       \/ (fs # "available" \/ Faulty) /\ TryAgain("available")
    /\ UNCHANGED efs

SetBackup ==
    \/ Set("backup", TRUE) /\ Advance("backup", "lifecycle") /\ UNCHANGED <<req, todo>>
    \/ Set("backup", FALSE) /\ Fail("backup")

SetLifecycle ==
    \/ Set("lifecycle", TRUE) /\ Advance("lifecycle", "policy") /\ UNCHANGED <<req, todo>>
    \/ Set("lifecycle", FALSE) /\ Fail("lifecycle")

SetPolicy ==
    \/ /\ IF req.policy THEN Set("policy", TRUE) ELSE UNCHANGED efs
       /\ Advance("policy", "mounts")
       /\ todo' = req.subnets
       /\ UNCHANGED req
    \/ req.policy /\ Set("policy", FALSE) /\ Fail("policy")

CreateMount ==
    /\ pc = "mounts"
    /\ \/ \E s \in todo :
             \/ /\ CreateMountTarget(s, TRUE)
                /\ Advance("mounts", "mounts")
                /\ todo' = todo \ {s}
                /\ UNCHANGED req
             \/ CreateMountTarget(s, FALSE) /\ Fail("mounts")
       \/ todo = {} /\ Advance("mounts", "mounted") /\ UNCHANGED <<efs, req, todo>>

(* Mutants: mount targets need not be available; their deletion is         *)
(* registered where it will be rolled back last.                           *)
PollMountsListed ==
    /\ \/ /\ Known
          /\ pc = "mounted"
          /\ pc' = "points"
          /\ tries' = 0
          /\ todo' = req.points
          /\ stack' = Append(stack, "mounts")
          /\ UNCHANGED <<req, children, rb, rbAt, rbTodo, rbTries, tasks>>
       \/ ~Known /\ TryAgain("mounted")
    /\ UNCHANGED efs

PollMountsFirst ==
    /\ \/ /\ Known /\ AllMountsAvailable
          /\ pc = "mounted"
          /\ pc' = "points"
          /\ tries' = 0
          /\ todo' = req.points
          /\ stack' = <<"mounts">> \o stack
          /\ UNCHANGED <<req, children, rb, rbAt, rbTodo, rbTries, tasks>>
       \/ (~Known \/ ~AllMountsAvailable) /\ TryAgain("mounted")
    /\ UNCHANGED efs

(* Wait for the mount targets, then register their deletion, which is      *)
(* rolled back first.                                                      *)
PollMounts ==
    /\ \/ /\ Known /\ AllMountsAvailable
          /\ pc = "mounted"
          /\ pc' = "points"
          /\ tries' = 0
          /\ todo' = req.points
          /\ stack' = Append(stack, "mounts")
          /\ UNCHANGED <<req, children, rb, rbAt, rbTodo, rbTries, tasks>>
       \/ (~Known \/ ~AllMountsAvailable \/ Faulty) /\ TryAgain("mounted")
    /\ UNCHANGED efs

(* accessPointCreate leaves a goroutine behind that waits for the access   *)
(* point, and the worker waits for that goroutine's task.                  *)
CreatePoint ==
    /\ pc = "points"
    /\ \E p \in todo :
        \/ /\ CreateAccessPoint(p, TRUE)
           /\ pc' = "child"
           /\ child' = [child EXCEPT ![p] = "wait"]
           /\ UNCHANGED <<req, todo, tries, childTries, undo, tasks>>
        \/ CreateAccessPoint(p, FALSE) /\ Fail("points")

(* Mutant: a task that has failed ends the wait like one that completed. *)
PollChildFinal ==
    /\ pc = "child"
    /\ \E p \in {q \in todo : child[q] # "none"} :
          \/ /\ status[p] \in Task!Final
             /\ Advance("child", "points")
             /\ todo' = todo \ {p}
             /\ UNCHANGED req
          \/ status[p] \notin Task!Final /\ TryAgain("child")
    /\ UNCHANGED efs

(* A task that has failed is polled again like one that is still running.  *)
PollChild ==
    /\ pc = "child"
    /\ \E p \in {q \in todo : child[q] # "none"} :
          \/ /\ status[p] = "completed"
             /\ Advance("child", "points")
             /\ todo' = todo \ {p}
             /\ UNCHANGED req
          \/ (status[p] # "completed" \/ Faulty) /\ TryAgain("child")
    /\ UNCHANGED efs

(* The worker returns without an error: its task is complete. *)
Return ==
    /\ pc = "points" /\ todo = {}
    /\ pc' = "returned"
    /\ Task!HandOver(CreateTask, "ok")
    /\ UNCHANGED <<efs, req, todo, tries, children, undo>>

-----------------------------------------------------------------------------
(* The goroutine of an access point polls it. *)
ChildEnds(p, o) ==
    /\ child' = [child EXCEPT ![p] = "ended"]
    /\ Task!HandOver(p, o)
    /\ UNCHANGED childTries

PollPoint(p) ==
    /\ child[p] = "wait"
    /\ \/ point[p] = "available" /\ ChildEnds(p, "ok")
       \/ /\ point[p] # "available" \/ Faulty
          /\ \/ /\ childTries[p] + 1 < Attempts
                /\ childTries' = [childTries EXCEPT ![p] = @ + 1]
                /\ UNCHANGED <<child, tasks>>
             \/ childTries[p] + 1 = Attempts /\ ChildEnds(p, "error")
    /\ UNCHANGED <<efs, pc, req, todo, tries, undo>>

-----------------------------------------------------------------------------
(* The rollback's tasks use the context of the worker, which is cancelled  *)
(* when the worker leaves rollBack: a call made after that fails at once.  *)
Live == pc = "rollback"

(* Task number rbAt is over, and the one before it is next, whatever       *)
(* became of this one.                                                     *)
NextRollBack == rb' = "next" /\ rbAt' = rbAt - 1 /\ rbTries' = 0 /\ UNCHANGED rbTodo

RollBackFilesystem ==
    /\ rb = "next" /\ rbAt > 0 /\ stack[rbAt] = "filesystem"
    /\ IF Live THEN \E ok \in BOOLEAN : DeleteFileSystem(ok) ELSE UNCHANGED efs
    /\ NextRollBack

RollBackMounts ==
    /\ rb = "next" /\ rbAt > 0 /\ stack[rbAt] = "mounts"
    /\ rb' = "unmount"
    /\ rbTodo' = req.subnets
    /\ UNCHANGED <<efs, rbAt, rbTries>>

Unmount ==
    /\ rb = "unmount"
    /\ \/ \E s \in rbTodo :
             /\ Live /\ DeleteMountTarget(s, TRUE)
             /\ rbTodo' = rbTodo \ {s}
             /\ UNCHANGED <<rb, rbAt, rbTries>>
       \/ \E s \in rbTodo :
             /\ IF Live THEN DeleteMountTarget(s, FALSE) ELSE UNCHANGED efs
             /\ NextRollBack
       \/ /\ rbTodo = {}
          /\ rb' = "await"
          /\ UNCHANGED <<efs, rbAt, rbTodo, rbTries>>

(* Attempt number rbTries + 1 is made only after the sleeps before it, and *)
(* after RollBackSeconds the context is cancelled.                         *)
AwaitUnmounted ==
    /\ rb = "await"
    /\ Live => Slept(rbTries) < RollBackSeconds
    /\ \/ Live /\ Known /\ Mounts = {} /\ NextRollBack
       \/ /\ ~Live \/ ~Known \/ Mounts # {} \/ Faulty
          /\ IF rbTries + 1 < Attempts
             THEN rbTries' = rbTries + 1 /\ UNCHANGED <<rb, rbAt, rbTodo>>
             ELSE NextRollBack
    /\ UNCHANGED efs

RollBackDone ==
    /\ rb = "next" /\ rbAt = 0
    /\ rb' = "finished"
    /\ UNCHANGED <<efs, rbAt, rbTodo, rbTries>>

RollBackStep ==
    /\ \/ RollBackFilesystem \/ RollBackMounts \/ Unmount \/ AwaitUnmounted
       \/ RollBackDone
    /\ UNCHANGED <<pc, req, todo, tries, stack, children, tasks>>

(* The rollback ends in time and is logged as successful. *)
RollBackSucceeds ==
    /\ rb = "finished" /\ pc = "rollback" /\ pc' = "rolledback"
    /\ UNCHANGED <<efs, req, todo, tries, children, undo, tasks>>

(* The worker stops waiting for it; when both are ready, select picks one. *)
RollBackTimesOut ==
    /\ pc = "rollback" /\ pc' = "timedout"
    /\ UNCHANGED <<efs, req, todo, tries, children, undo, tasks>>

-----------------------------------------------------------------------------
(* The tracker of a task whose goroutine runs. *)
Started(t) == IF t = CreateTask THEN pc \notin {"request", "create", "refused"}
                                ELSE child[t] # "none"

TrackTask(t) ==
    /\ Started(t)
    /\ Task!Start(t) \/ Task!Record(t)
    /\ UNCHANGED <<efs, pc, req, todo, tries, children, undo>>

Request ==
    \/ \E r \in Requests, oneZone \in BOOLEAN : Accept(r, oneZone)
    \/ Refuse

WorkerStep ==
    \/ RequestFilesystem \/ PollFilesystem \/ SetBackup \/ SetLifecycle
    \/ SetPolicy \/ CreateMount \/ PollMounts \/ CreatePoint \/ PollChild
    \/ Return \/ RollBackSucceeds \/ RollBackTimesOut

ServiceStep == Environment /\ UNCHANGED <<pc, req, todo, tries, children, undo, tasks>>

Next ==
    \/ Request
    \/ WorkerStep
    \/ \E p \in AccessPoints : PollPoint(p)
    \/ RollBackStep
    \/ \E t \in TaskIds : TrackTask(t)
    \/ ServiceStep

Spec == Init /\ [][Next]_vars

(* Every goroutine runs and every call returns; the service may stand      *)
(* still for ever.                                                         *)
FairSpec ==
    /\ Spec
    /\ WF_vars(WorkerStep)
    /\ \A p \in AccessPoints : WF_vars(PollPoint(p))
    /\ WF_vars(RollBackStep)
    /\ \A t \in TaskIds : WF_vars(TrackTask(t))

-----------------------------------------------------------------------------
(* A client that reads "completed" finds everything it asked for: the      *)
(* filesystem, its settings, its mount targets and its access points, all  *)
(* of them usable, and the tasks of the access points complete.            *)
CompletedMeansProvisioned ==
    status[CreateTask] = "completed" =>
        /\ fs = "available"
        /\ {"backup", "lifecycle"} \subseteq setting
        /\ req.policy => "policy" \in setting
        /\ \A s \in req.subnets : mount[s] = "available"
        /\ \A p \in req.points : point[p] = "available" /\ status[p] = "completed"

(* A create that fails after its mount targets were seen available, and    *)
(* whose rollback is logged as successful, has had its filesystem deleted: *)
(* the mount targets went first and the deletion waited for the last.  (As *)
(* long as the service does not fail.)                                     *)
RolledBackMeansRemoved ==
    pc = "rolledback" /\ Len(stack) = 2 => fs \in {"deleting", "deleted"}

(* The invariant behind the safety properties.  Until something fails,     *)
(* each place of the worker says what was made, what is usable and what is *)
(* registered for the rollback: nothing is taken away behind its back.     *)
Failed == pc \in {"rollback", "rolledback", "timedout"}

AtPoints == {"points", "child", "returned"}
AtMounts == {"mounts", "mounted"} \cup AtPoints
AfterCreation == {"backup", "lifecycle", "policy"} \cup AtMounts

Progress ==
    /\ ~Failed => fs # "deleting" /\ \A s \in Mounts : mount[s] # "deleting"
    /\ pc \in AfterCreation => fs = "available"
    /\ pc \in AfterCreation \ {"backup"} => "backup" \in setting
    /\ pc \in {"policy"} \cup AtMounts => "lifecycle" \in setting
    /\ pc \in AtMounts /\ req.policy => "policy" \in setting
    /\ pc \notin AtMounts /\ ~Failed => Mounts = {}
    /\ pc = "mounts" => todo \subseteq req.subnets /\ Mounts = req.subnets \ todo
    /\ pc \in {"mounted"} \cup AtPoints => Mounts = req.subnets
    /\ pc \in AtPoints => AllMountsAvailable /\ todo \subseteq req.points
    /\ pc \in AtPoints => \A p \in req.points \ todo : status[p] = "completed"
    /\ pc = "returned" => todo = {}

Registered ==
    /\ pc \in AtPoints => stack = <<"filesystem", "mounts">>
    /\ pc \in AfterCreation \ AtPoints => stack = <<"filesystem">>
    /\ pc \notin AfterCreation /\ ~Failed => stack = <<>>
    /\ rb = "idle" <=> ~Failed
    /\ rbAt <= Len(stack)
    /\ rb \in {"unmount", "await"} => rbAt = 2
    /\ rb = "finished" => rbAt = 0
    /\ pc = "rolledback" => rb = "finished"

TasksTell ==
    /\ \A t \in TaskIds : status[t] = "completed" => outcome[t] = "ok"
    /\ outcome[CreateTask] = "ok" => pc = "returned"

(* The rollback's wait for its mount targets is ended by the timeout, not  *)
(* by the last attempt: the filesystem is not tried with a mount target.   *)
TimeoutFirst == ~(Slept(Attempts - 1) < RollBackSeconds)

(* And while the rollback of a create that got past its mount targets is   *)
(* waited for, no call it makes can be refused.                            *)
Removal ==
    pc \in {"rollback", "rolledback"} /\ Len(stack) = 2 =>
        /\ rb = "next" /\ rbAt = 2 => Mounts = req.subnets /\ AllMountsAvailable
        /\ rb = "unmount" => \A s \in rbTodo : mount[s] = "available"
        /\ rb = "unmount" => \A s \in Mounts \ rbTodo : mount[s] = "deleting"
        /\ rb = "await" => \A s \in Mounts : mount[s] = "deleting"
        /\ rb = "next" /\ rbAt = 1 => Mounts = {}
        /\ IF rbAt > 0 THEN fs = "available" ELSE fs \in {"deleting", "deleted"}

CoreInv ==
    /\ TypeOK
    /\ Progress
    /\ Registered
    /\ TasksTell
    /\ ~Faulty /\ TimeoutFirst => Removal

(* The goroutine of an access point tells of success only what it saw, and *)
(* until something fails nothing takes that access point away again.       *)
PointTells(p) == outcome[p] = "ok" /\ ~Failed => point[p] = "available"

(* A goroutine has concluded when it is at its end, and never before: none *)
(* concludes twice.                                                        *)
Concluded ==
    /\ outcome[CreateTask] = "ok" <=> pc = "returned"
    /\ outcome[CreateTask] = "error" <=> Failed
    /\ \A p \in AccessPoints : outcome[p] # "pending" <=> child[p] = "ended"

(* An access point of the creation is asked for once: when its turn comes  *)
(* no goroutine waits for it, nor has one; so there is one at a time that  *)
(* the worker waits for.                                                   *)
PointsOnce ==
    /\ pc = "request" => \A p \in AccessPoints : child[p] = "none"
    /\ pc \notin AtPoints /\ ~Failed => \A p \in req.points : child[p] = "none"
    /\ pc \in {"points", "child"} => todo \subseteq req.points
    /\ pc = "points" => \A p \in todo : child[p] = "none"
    /\ pc = "child" =>
          \A p, q \in todo : child[p] # "none" /\ child[q] # "none" => p = q

IInv ==
    /\ CoreInv
    /\ Concluded
    /\ PointsOnce
    /\ \A p \in AccessPoints : PointTells(p)

(* Whatever the service does or fails to do, a create ends, its rollback   *)
(* included, and the tasks it started become final.                        *)
CreateSettles ==
    pc = "available" ~>
        pc \in Ended /\ \A t \in TaskIds : Started(t) => status[t] \in {"completed", "failed"}

(* Taken at its word, the log of rollBack would mean this: a failed create *)
(* that was rolled back has left no filesystem.                            *)
RolledBackMeansGone ==
    pc = "rolledback" => fs \in {"deleting", "deleted"}
=============================================================================
