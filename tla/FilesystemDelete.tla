-------------------------- MODULE FilesystemDelete --------------------------
(***************************************************************************)
(* filesystemDelete of api/orchestration_filesystem.go: any number of      *)
(* requests to delete one filesystem, served concurrently.                 *)
(*                                                                         *)
(* A request looks at the filesystem and its mount targets, deletes the    *)
(* access points and only then answers with a task; its goroutine deletes  *)
(* the users of the filesystem, the mount targets and, once the last of    *)
(* them is gone, the filesystem.  Nothing is locked: what a request saw    *)
(* may be stale when it acts on it, and the requests undo each other's     *)
(* assumptions.                                                            *)
(***************************************************************************)
EXTENDS EFS, SessionPolicies

CONSTANTS
    Requests,           \* the delete requests; also the IDs of their tasks
    Users,              \* the names of possible users of the filesystem
    MaxCalls,           \* bound: calls it takes to delete a user
    AwaitAttempts,      \* attempts to see the last mount target gone, 10 in the code
    DeleteAttempts      \* attempts to delete the filesystem, 3 in the code

ASSUME AttemptsAssumption ==
    AwaitAttempts \in Nat \ {0} /\ DeleteAttempts \in Nat \ {0}

ASSUME MaxCallsAssumption == MaxCalls \in Nat

VARIABLES
    users,          \* for each IAM user below the path of the filesystem, the
                    \* calls left to delete it: one for each of its groups and
                    \* keys, in the order IAM lists them, and one for itself
    at,             \* where each request is
    todo,           \* what its current loop has left
    left,           \* the calls it has left for the user it deletes
    seen,           \* the states of the mount targets in the list it got last
    tries,          \* failed attempts of its current retry
    touched,        \* history: the requests that deleted an access point
    status,         \* the tasks, see FlywheelTask
    outcome

local == <<at, todo, left, seen, tries, touched>>
tasks == <<status, outcome>>
vars == <<efs, users, local, tasks>>

Task == INSTANCE FlywheelTask WITH Tasks <- Requests

(* "refused" and "broken" answered with an error, before and after the     *)
(* first attempt to delete an access point; the others answered 202.       *)
(* ("broken" may be a 404 as well, if another request has deleted the       *)
(* access point, while others are already gone.)                           *)
Answered == {"users", "unuser", "list", "unmount", "await", "delete",
             "returned", "failed"}
Place == {"request", "mounts", "points", "unpoint", "refused", "broken"} \cup Answered

LoopSets == (SUBSET AccessPoints) \cup (SUBSET Users) \cup (SUBSET Subnets)

TypeOK ==
    /\ EfsTypeOK
    /\ Task!TypeOK
    /\ users \in [Users -> Nat]
    /\ at \in [Requests -> Place]
    /\ todo \in [Requests -> LoopSets]
    /\ left \in [Requests -> [Users -> Nat]]
    /\ seen \in [Requests -> [Subnets -> LifeCycle]]
    /\ tries \in [Requests -> Nat]
    /\ touched \in SUBSET Requests

UsersLeft == {u \in Users : users[u] > 0}

(* Any filesystem that has been created: with the mount targets, access    *)
(* points and users it was given since it became available.                *)
Init ==
    /\ fs \in {"creating", "available"}
    /\ mount \in [Subnets -> {"none", "creating", "available"}]
    /\ \A s, m \in Mounts : Zone[s] = Zone[m] => s = m
    /\ point \in [AccessPoints -> {"none", "creating", "available"}]
    /\ users \in [Users -> 0 .. MaxCalls]
    /\ fs = "creating" => Mounts = {} /\ Points = {} /\ UsersLeft = {}
    /\ setting = Settings
    /\ at = [r \in Requests |-> "request"]
    /\ todo = [r \in Requests |-> {}]
    /\ left = [r \in Requests |-> [u \in Users |-> 0]]
    /\ seen = [r \in Requests |-> [s \in Subnets |-> "none"]]
    /\ tries = [r \in Requests |-> 0]
    /\ touched = {}
    /\ Task!Init

-----------------------------------------------------------------------------
Advance(r, from, to) ==
    /\ at[r] = from
    /\ at' = [at EXCEPT ![r] = to]
    /\ tries' = [tries EXCEPT ![r] = 0]

(* The loop of the place from goes on without x. *)
Drop(r, from, x) ==
    /\ at[r] = from
    /\ todo' = [todo EXCEPT ![r] = @ \ {x}]
    /\ UNCHANGED <<at, seen, tries>>

KeepOn == UNCHANGED <<at, todo, seen, tries, touched, tasks>>

(* The handler answers, no goroutine was started. *)
Answer(r, from, to) == Advance(r, from, to) /\ UNCHANGED <<todo, left, seen, touched, tasks>>

(* Mutant: the goroutine hands over an error and goes on. *)
FailAndGoOn(r, from) ==
    /\ at[r] = from
    /\ Task!HandOver(r, "error")
    /\ UNCHANGED local

(* The goroutine hands over an error and returns. *)
Fail(r, from) ==
    /\ Advance(r, from, "failed")
    /\ Task!HandOver(r, "error")
    /\ UNCHANGED <<todo, left, seen, touched>>

(* Mutant: attempts are not counted. *)
TryForEver(r, from, attempts) == at[r] = from /\ attempts > 0 /\ UNCHANGED vars

TryAgain(r, from, attempts) ==
    \/ /\ at[r] = from
       /\ tries[r] + 1 < attempts
       /\ tries' = [tries EXCEPT ![r] = @ + 1]
       /\ UNCHANGED <<at, todo, left, seen, touched, tasks>>
    \/ tries[r] + 1 = attempts /\ Fail(r, from)

-----------------------------------------------------------------------------
(* 404 if the filesystem is not known, 409 if it is not available. *)
CheckFilesystem(r) ==
    /\ \/ fs = "available" /\ Answer(r, "request", "mounts")
       \/ (fs # "available" \/ Faulty) /\ Answer(r, "request", "refused")
    /\ UNCHANGED <<efs, users>>

(* 409 if one of the mount targets is not available. *)
CheckMounts(r) ==
    /\ \/ Known /\ AllMountsAvailable /\ Answer(r, "mounts", "points")
       \/ (~Known \/ ~AllMountsAvailable \/ Faulty) /\ Answer(r, "mounts", "refused")
    /\ UNCHANGED <<efs, users>>

ListPoints(r) ==
    /\ \/ /\ Known
          /\ Advance(r, "points", "unpoint")
          /\ todo' = [todo EXCEPT ![r] = Points]
          /\ UNCHANGED <<left, seen, touched, tasks>>
       \/ (~Known \/ Faulty) /\ Answer(r, "points", "refused")
    /\ UNCHANGED <<efs, users>>

(* Mutant: only access points that are available are deleted. *)
DeleteUsablePoint(r) ==
    /\ at[r] = "unpoint"
    /\ \/ \E p \in todo[r] :
             IF point[p] = "available"
             THEN /\ DeleteAccessPoint(p, TRUE)
                  /\ Drop(r, "unpoint", p)
                  /\ touched' = touched \cup {r}
                  /\ UNCHANGED <<left, tasks>>
             ELSE UNCHANGED efs /\ Answer(r, "unpoint", "broken")
       \/ todo[r] = {} /\ UNCHANGED efs /\ Answer(r, "unpoint", "users")
    /\ UNCHANGED users

(* The access points go before the answer; after the last the goroutine is *)
(* started and the client has a task.                                      *)
DeletePoint(r) ==
    /\ at[r] = "unpoint"
    /\ \/ \E p \in todo[r] :
             \/ /\ DeleteAccessPoint(p, TRUE)
                /\ Drop(r, "unpoint", p)
                /\ touched' = touched \cup {r}
                /\ UNCHANGED <<left, tasks>>
             \/ DeleteAccessPoint(p, FALSE) /\ Answer(r, "unpoint", "broken")
       \/ todo[r] = {} /\ UNCHANGED efs /\ Answer(r, "unpoint", "users")
    /\ UNCHANGED users

-----------------------------------------------------------------------------
(* The session that the goroutine assumes for the users may take these     *)
(* actions only.                                                           *)
Permitted(actions) == actions \subseteq UserDeleteActions

(* The path of the users is made of the filesystem's name: there must be a *)
(* filesystem to ask for it.                                               *)
ListUsers(r) ==
    /\ \/ /\ Known /\ Permitted({"ListUsers"})
          /\ Advance(r, "users", "unuser")
          /\ todo' = [todo EXCEPT ![r] = UsersLeft]
          /\ UNCHANGED <<left, seen, touched, tasks>>
       \/ /\ ~Known \/ ~Permitted({"ListUsers"}) \/ Faulty
          /\ Fail(r, "users")
    /\ UNCHANGED <<efs, users>>

(* The request has no user at hand. *)
AtLoop(r) == at[r] = "unuser" /\ \A u \in Users : left[r][u] = 0

LookUpActions == {"GetUser", "ListGroupsForUser"}

(* The next user is looked up, and what is in the way of its deletion; one *)
(* that cannot be found is logged and left.                                *)
LookUpUser(r) ==
    /\ AtLoop(r)
    /\ \/ \E u \in todo[r] :
             \/ /\ Known /\ users[u] > 0 /\ Permitted(LookUpActions)
                /\ left' = [left EXCEPT ![r][u] = users[u]]
                /\ KeepOn
             \/ /\ ~Known \/ users[u] = 0 \/ ~Permitted(LookUpActions) \/ Faulty
                /\ Drop(r, "unuser", u)
                /\ UNCHANGED <<left, touched, tasks>>
       \/ todo[r] = {} /\ Answer(r, "unuser", "list")
    /\ UNCHANGED <<efs, users>>

(* The request is done with a user, deleted or not. *)
LeaveUser(r, u) ==
    /\ Drop(r, "unuser", u)
    /\ left' = [left EXCEPT ![r][u] = 0]
    /\ UNCHANGED <<touched, tasks>>

(* Mutant: the first user that cannot be deleted ends the loop. *)
StripUserOrLeave(r) ==
    /\ at[r] = "unuser"
    /\ \E u \in Users :
        /\ left[r][u] > 0
        /\ \/ /\ users[u] = left[r][u]
              /\ users' = [users EXCEPT ![u] = @ - 1]
              /\ IF left[r][u] = 1 THEN LeaveUser(r, u)
                 ELSE left' = [left EXCEPT ![r][u] = @ - 1] /\ KeepOn
           \/ /\ users[u] < left[r][u]
              /\ UNCHANGED users
              /\ Advance(r, "unuser", "list")
              /\ left' = [left EXCEPT ![r][u] = 0]
              /\ UNCHANGED <<todo, seen, touched, tasks>>
    /\ UNCHANGED efs

StripActions == {"RemoveUserFromGroup", "ListAccessKeys", "DeleteAccessKey", "DeleteUser"}

(* The calls that delete a user: it is removed from its groups, its keys   *)
(* are deleted, then it is.  A call for what another request has removed   *)
(* is refused unless the list was got later; a user that cannot be deleted *)
(* is logged and left.                                                     *)
StripOne(r, u) ==
    /\ left[r][u] > 0
    /\ \/ /\ users[u] = left[r][u] /\ Permitted(StripActions)
          /\ users' = [users EXCEPT ![u] = @ - 1]
          /\ IF left[r][u] = 1 THEN LeaveUser(r, u)
             ELSE left' = [left EXCEPT ![r][u] = @ - 1] /\ KeepOn
       \/ /\ 0 < users[u] /\ users[u] < left[r][u]
          /\ left' = [left EXCEPT ![r][u] = users[u]]
          /\ KeepOn /\ UNCHANGED users
       \/ /\ users[u] < left[r][u] \/ ~Permitted(StripActions)
          /\ LeaveUser(r, u) /\ UNCHANGED users
       \/ /\ Faulty /\ LeaveUser(r, u)
          /\ \/ UNCHANGED users
             \/ /\ users[u] = left[r][u] /\ Permitted(StripActions)
                /\ users' = [users EXCEPT ![u] = @ - 1]

StripUser(r) ==
    /\ at[r] = "unuser"
    /\ \E u \in Users : StripOne(r, u)
    /\ UNCHANGED efs

ListMounts(r) ==
    /\ \/ /\ Known
          /\ Advance(r, "list", "unmount")
          /\ todo' = [todo EXCEPT ![r] = Mounts]
          /\ seen' = [seen EXCEPT ![r] = mount]
          /\ UNCHANGED <<left, touched, tasks>>
       \/ (~Known \/ Faulty) /\ Fail(r, "list")
    /\ UNCHANGED <<efs, users>>

(* The state that is looked at is the one in the list. *)
DeleteMount(r) ==
    /\ at[r] = "unmount"
    /\ \/ \E s \in todo[r] :
             \/ /\ seen[r][s] = "available"
                /\ DeleteMountTarget(s, TRUE)
                /\ Drop(r, "unmount", s)
                /\ UNCHANGED <<left, touched, tasks>>
             \/ seen[r][s] = "available" /\ DeleteMountTarget(s, FALSE) /\ Fail(r, "unmount")
             \/ seen[r][s] # "available" /\ UNCHANGED efs /\ Fail(r, "unmount")
       \/ todo[r] = {} /\ UNCHANGED efs /\ Answer(r, "unmount", "await")
    /\ UNCHANGED users

AwaitUnmounted(r) ==
    /\ \/ Known /\ Mounts = {} /\ Answer(r, "await", "delete")
       \/ (~Known \/ Mounts # {} \/ Faulty) /\ TryAgain(r, "await", AwaitAttempts)
    /\ UNCHANGED <<efs, users>>

(* Mutants: an error of the deletion is ignored; a filesystem that is      *)
(* being deleted already counts as deleted; a deletion that was accepted   *)
(* is tried again.                                                         *)
Succeed(r) ==
    /\ Advance(r, "delete", "returned")
    /\ Task!HandOver(r, "ok")
    /\ UNCHANGED <<todo, left, seen, touched>>

DeleteIgnoringErrors(r) ==
    /\ \E ok \in BOOLEAN : DeleteFileSystem(ok)
    /\ Succeed(r)
    /\ UNCHANGED users

DeleteIdempotently(r) ==
    /\ \/ DeleteFileSystem(TRUE) /\ Succeed(r)
       \/ /\ DeleteFileSystem(FALSE)
          /\ IF fs \in {"deleting", "deleted"} THEN Succeed(r)
                                 ELSE TryAgain(r, "delete", DeleteAttempts)
    /\ UNCHANGED users

DeleteAgain(r) ==
    /\ \E ok \in BOOLEAN : DeleteFileSystem(ok)
    /\ TryAgain(r, "delete", DeleteAttempts)
    /\ UNCHANGED users

(* After the goroutine's last call it returns: its task is complete. *)
DeleteTheFilesystem(r) ==
    /\ \/ /\ DeleteFileSystem(TRUE)
          /\ Advance(r, "delete", "returned")
          /\ Task!HandOver(r, "ok")
          /\ UNCHANGED <<todo, left, seen, touched>>
       \/ DeleteFileSystem(FALSE) /\ TryAgain(r, "delete", DeleteAttempts)
    /\ UNCHANGED users

-----------------------------------------------------------------------------
RequestStep(r) ==
    \/ CheckFilesystem(r) \/ CheckMounts(r) \/ ListPoints(r) \/ DeletePoint(r)
    \/ ListUsers(r) \/ LookUpUser(r) \/ StripUser(r) \/ ListMounts(r) \/ DeleteMount(r)
    \/ AwaitUnmounted(r) \/ DeleteTheFilesystem(r)

(* The tracker of the task of an answered request. *)
TrackTask(r) ==
    /\ at[r] \in Answered
    /\ Task!Start(r) \/ Task!Record(r)
    /\ UNCHANGED <<efs, users, local>>

ServiceStep == Environment /\ UNCHANGED <<users, local, tasks>>

Next ==
    \/ \E r \in Requests : RequestStep(r) \/ TrackTask(r)
    \/ ServiceStep

Spec == Init /\ [][Next]_vars

(* Handlers, goroutines and trackers run and every call returns; the       *)
(* service may stand still for ever.                                       *)
FairSpec ==
    /\ Spec
    /\ \A r \in Requests : WF_vars(RequestStep(r)) /\ WF_vars(TrackTask(r))

-----------------------------------------------------------------------------
(* A client that reads "completed" has had its filesystem deleted, and     *)
(* with it the last mount target, whatever other requests did meanwhile.   *)
CompletedMeansDeleted ==
    \A r \in Requests : status[r] = "completed" =>
        fs \in {"deleting", "deleted"} /\ Mounts = {}

(* However many requests race, one of them at most is told that it deleted *)
(* the filesystem.                                                         *)
OneWinner ==
    \A r, q \in Requests : outcome[r] = "ok" /\ outcome[q] = "ok" => r = q

(* As long as calls do not fail, a filesystem is not gone without a task   *)
(* that says so: losing requests fail, but not all of them.                *)
GoneMeansSomeoneDidIt ==
    fs \in {"deleting", "deleted"} => \E r \in Requests : outcome[r] = "ok"

(* The user is gone, or there is a request that deletes it and whose next  *)
(* call is the next one it takes.                                          *)
Handled(u) == users[u] = 0 \/ \E r \in Requests : left[r][u] = users[u]

(* As long as calls do not fail, no user outlives a filesystem that was    *)
(* deleted, although the requests take groups and keys away from under     *)
(* each other, one that is refused gives the user up and goes on, and the  *)
(* user can no longer be looked up then.                                   *)
NoUserLeft ==
    fs \in {"deleting", "deleted"} => \A u \in Users : Handled(u)

(* And in the end none is left. *)
UsersGo ==
    fs = "deleting" ~> UsersLeft = {}

(* A request that is turned down because of the state of the filesystem or *)
(* of a mount target has not deleted an access point.  And, as long as     *)
(* calls do not fail, one that breaks off between the access points, some  *)
(* of them gone, does so only because another request deletes them, too:   *)
(* nothing it finds them in - still being created, say - is in its way.    *)
NoHalfDeletion ==
    \A r \in Requests :
        /\ at[r] = "refused" => r \notin touched
        /\ ~Faulty /\ at[r] = "broken" => \E q \in Requests \ {r} : q \in touched

(* A request that got a task sees that task become final. *)
DeleteSettles ==
    \A r \in Requests : at[r] = "users" ~> status[r] \in {"completed", "failed"}

(* The invariant behind the safety properties.  A goroutine has concluded  *)
(* when it is at its end, and never before: none concludes twice.          *)
Concluded ==
    \A r \in Requests :
        /\ outcome[r] = "ok" <=> at[r] = "returned"
        /\ outcome[r] = "error" <=> at[r] = "failed"

(* A deletion that is under way, or over, excludes mount targets for good; *)
(* a request that is told of success caused one.                           *)
Safe ==
    /\ fs # "none"
    /\ fs \in {"deleting", "deleted"} => Mounts = {}
    /\ \A r \in Requests :
          /\ outcome[r] = "ok" => fs \in {"deleting", "deleted"}
          /\ status[r] = "completed" => outcome[r] = "ok"
          /\ at[r] \in {"request", "mounts", "points", "refused"} => r \notin touched
    /\ OneWinner

(* Without failing calls a request gets past the access points when none   *)
(* is left that nobody deletes; one that it has listed and that is deleted *)
(* nevertheless is another request's doing.                                *)
Taken(p) == point[p] \in {"none", "deleting"}

Others(r) == touched \ {r} # {}

PointsTaken ==
    /\ \A p \in AccessPoints : point[p] = "deleting" => touched # {}
    /\ \A r \in Requests :
          /\ at[r] = "unpoint" => \A p \in todo[r] : Taken(p) => Others(r)
          /\ at[r] = "unpoint" =>
                todo[r] \subseteq AccessPoints /\ \A p \in AccessPoints \ todo[r] : Taken(p)
          /\ at[r] \in Answered => \A p \in AccessPoints : Taken(p)
          /\ at[r] = "broken" => Others(r)

(* And it leaves its loop over the users only when none is left that       *)
(* nobody deletes.                                                         *)
SafeWithoutFailures ==
    /\ GoneMeansSomeoneDidIt
    /\ PointsTaken
    /\ NoUserLeft
    /\ \A r \in Requests :
          /\ at[r] = "unuser" => \A u \in Users \ todo[r] : Handled(u)
          /\ at[r] \in {"list", "unmount", "await", "delete"} => \A u \in Users : Handled(u)
          /\ \A u \in Users : left[r][u] # 0 =>
                at[r] = "unuser" /\ u \in todo[r] /\ Handled(u)

IInv == TypeOK /\ Concluded /\ Safe /\ (Faulty \/ SafeWithoutFailures)
=============================================================================
