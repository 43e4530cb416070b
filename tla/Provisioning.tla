---------------------------- MODULE Provisioning ----------------------------
(***************************************************************************)
(* What the tasks of a filesystem promise about its existence, whatever    *)
(* creation, rollback and deletions do to each other: a filesystem comes   *)
(* into being once and goes once.  It goes by the rollback of a creation   *)
(* that is known to have failed, or by one deletion, whose task says so;   *)
(* and no other task says so.                                              *)
(*                                                                         *)
(* FilesystemLife implements this module.                                  *)
(***************************************************************************)
CONSTANTS
    Deletions,      \* requests to delete the filesystem
    Faulty          \* whether the answer of a deletion may be lost

VARIABLES
    resource,       \* the filesystem: "none", "present" or "gone"
    created,        \* how its creation ended: "pending", "ok" or "error"
    removed         \* the same for each deletion

vars == <<resource, created, removed>>

Init ==
    /\ resource = "none"
    /\ created = "pending"
    /\ removed = [r \in Deletions |-> "pending"]

-----------------------------------------------------------------------------
Make ==
    /\ resource = "none" /\ created = "pending"
    /\ resource' = "present"
    /\ UNCHANGED <<created, removed>>

(* A creation ends.  It may end well although the filesystem is gone, if   *)
(* somebody deleted it.                                                    *)
Conclude(o) ==
    /\ created = "pending" /\ resource # "none"
    /\ created' = o
    /\ UNCHANGED <<resource, removed>>

(* The rollback deletes the filesystem: not before the creation has failed. *)
Undo ==
    /\ created = "error" /\ resource = "present"
    /\ resource' = "gone"
    /\ UNCHANGED <<created, removed>>

(* A deletion that is accepted ends well. *)
Remove(r) ==
    /\ resource = "present" /\ removed[r] = "pending"
    /\ resource' = "gone"
    /\ removed' = [removed EXCEPT ![r] = "ok"]
    /\ UNCHANGED created

(* A deletion gives up, and has left the filesystem alone. *)
GiveUp(r) ==
    /\ resource # "none" /\ removed[r] = "pending"
    /\ removed' = [removed EXCEPT ![r] = "error"]
    /\ UNCHANGED <<resource, created>>

(* The answer to a deletion is lost: it may be tried again, in vain, or    *)
(* given up.                                                               *)
LoseAnswer(r) ==
    /\ Faulty
    /\ resource = "present" /\ removed[r] = "pending"
    /\ resource' = "gone"
    /\ \/ UNCHANGED removed
       \/ removed' = [removed EXCEPT ![r] = "error"]
    /\ UNCHANGED created

Next ==
    \/ Make
    \/ Conclude("ok") \/ Conclude("error")
    \/ Undo
    \/ \E r \in Deletions : Remove(r) \/ GiveUp(r) \/ LoseAnswer(r)

Spec == Init /\ [][Next]_vars
=============================================================================
