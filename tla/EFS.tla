-------------------------------- MODULE EFS ---------------------------------
(***************************************************************************)
(* One Elastic File System as the orchestrations see it through the        *)
(* wrappers of efs/: the life cycle of the filesystem, of its mount        *)
(* targets (at most one in an availability zone) and of its access points, *)
(* and which of its settings were made.                                    *)
(*                                                                         *)
(* Every wrapper makes one call and returns an error or none.  The         *)
(* operator of a wrapper that changes something takes that answer, ok, as  *)
(* its last argument.  A call the service refuses has no effect.  With     *)
(* Faulty, an acceptable call may fail as well, and may have had its       *)
(* effect by then: the answer was lost.                                    *)
(*                                                                         *)
(* The service finishes what it accepted at its own pace: Environment.     *)
(***************************************************************************)
EXTENDS Naturals, FiniteSets

CONSTANTS
    Subnets,        \* where a mount target can be; also names the mount target
    Zone,           \* the availability zone of each subnet
    AccessPoints,
    Faulty          \* whether acceptable calls may fail and resources may err

ASSUME ServiceAssumption == DOMAIN Zone = Subnets /\ Faulty \in BOOLEAN

VARIABLES
    fs,             \* LifeCycleState of the filesystem; "none" before it exists
    mount,          \* of the mount target in each subnet; "none" if there is none
    point,          \* of each access point; "none" if there is none
    setting         \* the settings that were made

efs == <<fs, mount, point, setting>>

LifeCycle == {"none", "creating", "available", "deleting", "error"}

Settings == {"backup", "lifecycle", "policy"}

EfsTypeOK ==
    /\ fs \in LifeCycle \cup {"deleted"}
    /\ mount \in [Subnets -> LifeCycle]
    /\ point \in [AccessPoints -> LifeCycle]
    /\ setting \in SUBSET Settings

NothingYet ==
    /\ fs = "none"
    /\ mount = [s \in Subnets |-> "none"]
    /\ point = [p \in AccessPoints |-> "none"]
    /\ setting = {}

(* What the describe calls answer. *)
Known == fs \notin {"none", "deleted"}                 \* GetFileSystem finds it
Mounts == {s \in Subnets : mount[s] # "none"}          \* NumberOfMountTargets
Points == {p \in AccessPoints : point[p] # "none"}
AllMountsAvailable == \A s \in Mounts : mount[s] = "available"

(* A call: its answer, whether the service accepts it, what it does then.  *)
Call(ok, accepted, effect) ==
    \/ accepted /\ (ok \/ Faulty) /\ effect
    \/ ~ok /\ (~accepted \/ Faulty) /\ UNCHANGED efs

-----------------------------------------------------------------------------
CreateFileSystem(ok) ==
    Call(ok, fs = "none", fs' = "creating" /\ UNCHANGED <<mount, point, setting>>)

(* FileSystemInUse while there is a mount target. *)
DeleteFileSystem(ok) ==
    Call(ok, fs = "available" /\ Mounts = {},
         fs' = "deleting" /\ UNCHANGED <<mount, point, setting>>)

(* SetFileSystemBackup, SetFileSystemLifecycle and SetFileSystemPolicy. *)
Set(what, ok) ==
    Call(ok, fs = "available",
         setting' = setting \cup {what} /\ UNCHANGED <<fs, mount, point>>)

(* MountTargetConflict if its zone has one already. *)
CreateMountTarget(s, ok) ==
    Call(ok, fs = "available" /\ \A m \in Mounts : Zone[m] # Zone[s],
         mount' = [mount EXCEPT ![s] = "creating"] /\ UNCHANGED <<fs, point, setting>>)

DeleteMountTarget(s, ok) ==
    Call(ok, mount[s] \in {"available", "error"},
         mount' = [mount EXCEPT ![s] = "deleting"] /\ UNCHANGED <<fs, point, setting>>)

CreateAccessPoint(p, ok) ==
    Call(ok, fs = "available" /\ point[p] = "none",
         point' = [point EXCEPT ![p] = "creating"] /\ UNCHANGED <<fs, mount, setting>>)

DeleteAccessPoint(p, ok) ==
    Call(ok, point[p] \in {"creating", "available", "error"},
         point' = [point EXCEPT ![p] = "deleting"] /\ UNCHANGED <<fs, mount, setting>>)

-----------------------------------------------------------------------------
(* How a resource that is being created may come out. *)
Created == IF Faulty THEN {"available", "error"} ELSE {"available"}

FileSystemProgress ==
    \/ fs = "creating" /\ fs' \in Created /\ UNCHANGED <<mount, point, setting>>
    \/ /\ fs = "deleting"
       /\ fs' = "deleted"
       /\ point' = [p \in AccessPoints |-> "none"]
       /\ UNCHANGED <<mount, setting>>

MountProgress(s) ==
    /\ \/ mount[s] = "creating" /\ \E c \in Created : mount' = [mount EXCEPT ![s] = c]
       \/ mount[s] = "deleting" /\ mount' = [mount EXCEPT ![s] = "none"]
    /\ UNCHANGED <<fs, point, setting>>

PointProgress(p) ==
    /\ \/ point[p] = "creating" /\ \E c \in Created : point' = [point EXCEPT ![p] = c]
       \/ point[p] = "deleting" /\ point' = [point EXCEPT ![p] = "none"]
    /\ UNCHANGED <<fs, mount, setting>>

Environment ==
    \/ FileSystemProgress
    \/ \E s \in Subnets : MountProgress(s)
    \/ \E p \in AccessPoints : PointProgress(p)
=============================================================================
