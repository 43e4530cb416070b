--------------------------- MODULE FilesystemLife ---------------------------
(***************************************************************************)
(* One filesystem from the request that creates it to its end: the         *)
(* creation of FilesystemCreate, the deletions of FilesystemDelete, and    *)
(* the requests of api/orchestration_accesspoints.go, all over one EFS.    *)
(*                                                                         *)
(* A filesystem is available, and may be deleted, long before its creation *)
(* is done; access points come and go on request at any time; and the      *)
(* rollback of a creation that fails deletes the same mount targets and    *)
(* the same filesystem as a deletion does.  Nothing but the state that EFS *)
(* reports keeps them apart.                                               *)
(***************************************************************************)
EXTENDS FilesystemCreate

CONSTANTS
    Deletions,                                          \* requests to delete it
    Users, MaxCalls, AwaitAttempts, DeleteAttempts      \* see FilesystemDelete

VARIABLES
    users, at, left, seen, touched,
    toDelete, triesToDelete, deleteStatus, deleteOutcome,   \* see FilesystemDelete
    dropped         \* history: the access points that were deleted on request

Delete == INSTANCE FilesystemDelete WITH
    Requests <- Deletions, todo <- toDelete, tries <- triesToDelete,
    status <- deleteStatus, outcome <- deleteOutcome

creation == <<pc, req, todo, tries, children, undo, tasks>>
deletion == <<users, at, toDelete, left, seen, triesToDelete, touched,
              deleteStatus, deleteOutcome>>
lifeVars == <<efs, creation, deletion, dropped>>

LifeTypeOK ==
    /\ TypeOK
    /\ Delete!TypeOK
    /\ dropped \in SUBSET AccessPoints

LifeInit ==
    /\ Init
    /\ users = [u \in Users |-> 0]
    /\ at = [r \in Deletions |-> "request"]
    /\ toDelete = [r \in Deletions |-> {}]
    /\ left = [r \in Deletions |-> [u \in Users |-> 0]]
    /\ seen = [r \in Deletions |-> [s \in Subnets |-> "none"]]
    /\ triesToDelete = [r \in Deletions |-> 0]
    /\ touched = {}
    /\ Delete!Task!Init
    /\ dropped = {}

-----------------------------------------------------------------------------
(* accessPointCreate for a request of its own, of an access point that the *)
(* creation does not make: once the service has accepted it, a goroutine   *)
(* waits for it (PollPoint of FilesystemCreate), and its task is recorded. *)
RequestPoint(p) ==
    /\ pc # "request" /\ p \notin req.points /\ child[p] = "none"
    /\ Known
    /\ \E ok \in BOOLEAN :
          /\ CreateAccessPoint(p, ok)
          /\ child' = IF ok THEN [child EXCEPT ![p] = "wait"] ELSE child
    /\ UNCHANGED <<pc, req, todo, tries, childTries, undo, tasks>>
    /\ UNCHANGED <<deletion, dropped>>

(* deleteFilesystemAccessPoint. *)
DropPoint(p) ==
    /\ \E ok \in BOOLEAN : DeleteAccessPoint(p, ok)
    /\ dropped' = IF point' = point THEN dropped ELSE dropped \cup {p}
    /\ UNCHANGED <<creation, deletion>>

(* A step of FilesystemCreate; the service's are among them. *)
CreationStep == Next /\ UNCHANGED <<deletion, dropped>>

DeletionStep(r) ==
    /\ Delete!RequestStep(r) \/ Delete!TrackTask(r)
    /\ UNCHANGED <<creation, dropped>>

LifeNext ==
    \/ CreationStep
    \/ \E r \in Deletions : DeletionStep(r)
    \/ \E p \in AccessPoints : RequestPoint(p) \/ DropPoint(p)

LifeSpec == LifeInit /\ [][LifeNext]_lifeVars

-----------------------------------------------------------------------------
Gone == fs \in {"deleting", "deleted"}

(* A deletion that got past its checks, to where it takes things away. *)
Accepted(r) == at[r] \notin {"request", "mounts", "points", "refused"}

(* What a client was told is complete is there, and is taken away by       *)
(* nothing but a deletion that passed its checks, a request to delete the  *)
(* access point, or, for an access point that was added, the rollback of   *)
(* the filesystem it was added to.                                         *)
CompletedStands ==
    (\A r \in Deletions : ~Accepted(r)) =>
        /\ status[CreateTask] = "completed" =>
              /\ fs = "available"
              /\ \A s \in req.subnets : mount[s] = "available"
              /\ \A p \in req.points \ dropped : point[p] = "available"
        /\ \A p \in AccessPoints \ dropped :
              status[p] = "completed" /\ ~Failed => point[p] = "available"

(* A creation that failed late and whose rollback is logged as successful  *)
(* has its filesystem deleted, also when a deletion takes the mount        *)
(* targets away from under the rollback: then that deletion is still at    *)
(* it, or has told its client that it failed.                              *)
RolledBackOrTold ==
    pc = "rolledback" /\ Len(stack) = 2 =>
        Gone \/ \E r \in Deletions : at[r] \in {"unmount", "await", "delete", "failed"}

(* No filesystem disappears without a task that says why: a deletion that  *)
(* succeeded, or a creation that failed.                                   *)
GoneIsTold ==
    Gone => \/ \E r \in Deletions : deleteOutcome[r] = "ok"
            \/ outcome[CreateTask] = "error"

(* However creation, rollback and deletion take apart the same resources,  *)
(* the filesystem that is left, or not, is the one that their tasks tell.  *)
EndIsTold == RolledBackOrTold /\ GoneIsTold

(* What there is of the filesystem. *)
resource == IF fs = "none" THEN "none" ELSE IF Gone THEN "gone" ELSE "present"

Promise == INSTANCE Provisioning WITH
    created <- outcome[CreateTask], removed <- deleteOutcome

(* Creation, rollback, deletions and requests together implement           *)
(* Provisioning: whatever they do to each other and whatever fails, the    *)
(* filesystem comes once and goes once, and the outcomes of the tasks tell *)
(* by whom.                                                                *)
ImplementsProvisioning == Promise!Spec

(* The invariant behind it.  A goroutine has concluded when it is at its   *)
(* end, and never before: none concludes twice.  And whoever has come far  *)
(* enough to conclude has seen the filesystem made.                        *)
ConcludedAtEnd == Concluded /\ Delete!Concluded

MadeBefore ==
    fs = "none" =>
        /\ pc \in {"request", "create", "refused"}
        /\ \A r \in Deletions : at[r] \in {"request", "refused"}

LifeInv ==
    /\ LifeTypeOK
    /\ Registered
    /\ ConcludedAtEnd
    /\ MadeBefore
    /\ PointsOnce
=============================================================================
