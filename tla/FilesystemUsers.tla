-------------------------- MODULE FilesystemUsers ---------------------------
(***************************************************************************)
(* createFilesystemUser, updateFilesystemUser and deleteFilesystemUser of  *)
(* api/orchestration_users.go: requests about one user of a filesystem,    *)
(* served concurrently.  Each is a sequence of calls to IAM, made while    *)
(* the client waits; the first that fails ends the request with an error,  *)
(* and nothing is undone.                                                  *)
(*                                                                         *)
(* IAM numbers the keys of the user in the order it issues them.  The      *)
(* filesystem exists throughout and the account is prepared.               *)
(***************************************************************************)
EXTENDS Naturals, FiniteSets

CONSTANTS
    Requests,
    KeyLimit        \* keys IAM lets a user have at a time

ASSUME KeyLimitAssumption == KeyLimit \in Nat \ {0}

VARIABLES
    exists,         \* whether the user exists
    grouped,        \* whether it is in the admin group
    keys,           \* its access keys
    issued,         \* the last key that was issued
    op,             \* what each request is for
    at,             \* where it is
    todo,           \* keys its loop has left to delete
    saw,            \* the keys in the list it got
    mine,           \* the key that was issued for it
    recreated       \* history: the deletions answered 200 before the user was made again

iam == <<exists, grouped, keys, issued>>
vars == <<iam, op, at, todo, saw, mine, recreated>>

Op == {"create", "reset", "delete"}

(* "created", "reset" and "deleted" answered 200, "error" did not. *)
Place == {"request", "wait", "join", "list", "issue", "revoke", "groups", "ungroup",
          "keys", "unkey", "remove", "created", "reset", "deleted", "error"}

TypeOK ==
    /\ exists \in BOOLEAN /\ grouped \in BOOLEAN
    /\ keys \in SUBSET (1 .. issued)
    /\ issued \in Nat
    /\ op \in [Requests -> Op]
    /\ at \in [Requests -> Place]
    /\ todo \in [Requests -> SUBSET Nat]
    /\ saw \in [Requests -> SUBSET Nat]
    /\ mine \in [Requests -> Nat]
    /\ recreated \in SUBSET Requests

Init ==
    /\ exists \in BOOLEAN
    /\ grouped = exists
    /\ issued \in IF exists THEN 0 .. KeyLimit ELSE {0}
    /\ keys = 1 .. issued
    /\ op \in [Requests -> Op]
    /\ at = [r \in Requests |-> "request"]
    /\ todo = [r \in Requests |-> {}]
    /\ saw = [r \in Requests |-> {}]
    /\ mine = [r \in Requests |-> 0]
    /\ recreated = {}

-----------------------------------------------------------------------------
(* IAM.  A call: its answer, whether it is accepted, what it does then.    *)
(* Any call may fail, and then have had its effect or not.                 *)
Call(ok, accepted, effect) ==
    \/ accepted /\ effect
    \/ ~ok /\ UNCHANGED iam

(* EntityAlreadyExists if it does. *)
IamCreateUser(ok) ==
    Call(ok, ~exists, exists' = TRUE /\ UNCHANGED <<grouped, keys, issued>>)

(* DeleteConflict as long as it is in a group or has a key. *)
IamDeleteUser(ok) ==
    Call(ok, exists /\ ~grouped /\ keys = {},
         exists' = FALSE /\ UNCHANGED <<grouped, keys, issued>>)

AddUserToGroup(ok) ==
    Call(ok, exists, grouped' = TRUE /\ UNCHANGED <<exists, keys, issued>>)

(* A user that is not in the group may count as removed, or not. *)
RemoveUserFromGroup(ok) ==
    \/ Call(ok, grouped, grouped' = FALSE /\ UNCHANGED <<exists, keys, issued>>)
    \/ exists /\ ~grouped /\ UNCHANGED iam

(* LimitExceeded if it has too many; otherwise the next one. *)
CreateAccessKey(ok) ==
    Call(ok, exists /\ Cardinality(keys) < KeyLimit,
         /\ issued' = issued + 1
         /\ keys' = keys \cup {issued + 1}
         /\ UNCHANGED <<exists, grouped>>)

(* NoSuchEntity if it is gone. *)
DeleteAccessKey(k, ok) ==
    Call(ok, k \in keys, keys' = keys \ {k} /\ UNCHANGED <<exists, grouped, issued>>)

-----------------------------------------------------------------------------
Advance(r, from, to) == at[r] = from /\ at' = [at EXCEPT ![r] = to]

(* The request goes on, or is answered. *)
Go(r, from, to) == Advance(r, from, to) /\ UNCHANGED <<op, todo, saw, mine>>

(* A call of the request: its error ends it. *)
Step(r, from, to, Make(_)) ==
    \/ Make(TRUE) /\ Go(r, from, to)
    \/ Make(FALSE) /\ Go(r, from, "error")

(* Any call that only reads: without the user it fails. *)
LookUp(ok) == UNCHANGED iam /\ (ok => exists)

(* The keys are listed, for the loop that deletes them. *)
ListAccessKeys(r, from, to) ==
    \/ /\ LookUp(TRUE)
       /\ Advance(r, from, to)
       /\ todo' = [todo EXCEPT ![r] = keys]
       /\ saw' = [saw EXCEPT ![r] = keys]
       /\ UNCHANGED <<op, mine>>
    \/ LookUp(FALSE) /\ Go(r, from, "error")

(* Mutant: a key that cannot be deleted is left. *)
DeleteOrLeave(r, from, to) ==
    /\ at[r] = from
    /\ \/ \E k \in todo[r], ok \in BOOLEAN :
             /\ DeleteAccessKey(k, ok)
             /\ todo' = [todo EXCEPT ![r] = @ \ {k}]
             /\ UNCHANGED <<op, at, saw, mine>>
       \/ todo[r] = {} /\ UNCHANGED iam /\ Go(r, from, to)

(* The loop: the first key that cannot be deleted ends the request. *)
DeleteKeys(r, from, to) ==
    /\ at[r] = from
    /\ \/ \E k \in todo[r] :
             \/ /\ DeleteAccessKey(k, TRUE)
                /\ todo' = [todo EXCEPT ![r] = @ \ {k}]
                /\ UNCHANGED <<op, at, saw, mine>>
             \/ DeleteAccessKey(k, FALSE) /\ Go(r, from, "error")
       \/ todo[r] = {} /\ UNCHANGED iam /\ Go(r, from, to)

-----------------------------------------------------------------------------
(* createFilesystemUser *)
CreateUser(r) == op[r] = "create" /\ Step(r, "request", "wait", IamCreateUser)

WaitForUser(r) == Step(r, "wait", "join", LookUp)

(* Mutant: the answer of the last call is not looked at. *)
JoinIgnoringErrors(r) == \E ok \in BOOLEAN : AddUserToGroup(ok) /\ Go(r, "join", "created")

JoinGroup(r) == Step(r, "join", "created", AddUserToGroup)

(* updateFilesystemUser with ResetKey: the new key first, then the old     *)
(* ones.  A user with as many keys as it may have cannot get the new one.  *)
FindUser(r) == op[r] = "reset" /\ Step(r, "request", "list", LookUp)

ListKeys(r) == ListAccessKeys(r, "list", "issue")

(* Mutant: the keys to delete are listed after the new one was issued. *)
IssueThenList(r) ==
    \/ /\ CreateAccessKey(TRUE)
       /\ Advance(r, "issue", "revoke")
       /\ mine' = [mine EXCEPT ![r] = issued']
       /\ todo' = [todo EXCEPT ![r] = keys']
       /\ UNCHANGED <<op, saw>>
    \/ CreateAccessKey(FALSE) /\ Go(r, "issue", "error")

IssueKey(r) ==
    \/ /\ CreateAccessKey(TRUE)
       /\ Advance(r, "issue", "revoke")
       /\ mine' = [mine EXCEPT ![r] = issued']
       /\ UNCHANGED <<op, todo, saw>>
    \/ CreateAccessKey(FALSE) /\ Go(r, "issue", "error")

RevokeKeys(r) == DeleteKeys(r, "revoke", "reset")

(* deleteFilesystemUser: what is in the way first. *)
FindUserToDelete(r) == op[r] = "delete" /\ Step(r, "request", "groups", LookUp)

ListGroups(r) ==
    \/ LookUp(TRUE) /\ Go(r, "groups", IF grouped THEN "ungroup" ELSE "keys")
    \/ LookUp(FALSE) /\ Go(r, "groups", "error")

LeaveGroup(r) == Step(r, "ungroup", "keys", RemoveUserFromGroup)

ListKeysToDelete(r) == ListAccessKeys(r, "keys", "unkey")

DeleteAllKeys(r) == DeleteKeys(r, "unkey", "remove")

(* Mutant: a user that could not be deleted counts as deleted. *)
RemoveIgnoringErrors(r) == \E ok \in BOOLEAN : IamDeleteUser(ok) /\ Go(r, "remove", "deleted")

RemoveUser(r) == Step(r, "remove", "deleted", IamDeleteUser)

(* The history: who had deleted the user that a step makes again. *)
Remember ==
    recreated' = IF ~exists /\ exists'
                 THEN recreated \cup {r \in Requests : at[r] = "deleted"}
                 ELSE recreated

RequestStep(r) ==
    \/ CreateUser(r) \/ WaitForUser(r) \/ JoinGroup(r)
    \/ FindUser(r) \/ ListKeys(r) \/ IssueKey(r) \/ RevokeKeys(r)
    \/ FindUserToDelete(r) \/ ListGroups(r) \/ LeaveGroup(r)
    \/ ListKeysToDelete(r) \/ DeleteAllKeys(r) \/ RemoveUser(r)

Next == \E r \in Requests : RequestStep(r) /\ Remember

Spec == Init /\ [][Next]_vars

-----------------------------------------------------------------------------
Deleting == \E r \in Requests : op[r] = "delete" /\ at[r] # "request"

(* However many resets race and whatever fails, they never take the last   *)
(* key of the user away: the newest one survives all of them, although     *)
(* each deletes every key it saw.                                          *)
NewestKeyStays == ~Deleting /\ issued > 0 => issued \in keys

(* A reset that was answered 200 has revoked every key there was when it   *)
(* began, and the key it handed out works until a request that saw it      *)
(* revokes it.                                                             *)
ResetReplacesKeys ==
    \A r \in Requests : at[r] = "reset" =>
        /\ saw[r] \cap keys = {}
        /\ mine[r] \in keys \/ \E q \in Requests \ {r} : mine[r] \in saw[q]

(* A user whose creation was answered 200 is in the group that gives it    *)
(* access, unless somebody deletes it.                                     *)
CreatedHasAccess ==
    \A r \in Requests : at[r] = "created" => Deleting \/ (exists /\ grouped)

(* A user whose deletion was answered 200 is gone, with its keys and its   *)
(* membership, until it is made anew: no reset and no creation that was    *)
(* under way gives it a key or a membership back.                          *)
DeletedIsGone ==
    \A r \in Requests : at[r] = "deleted" /\ r \notin recreated =>
        ~exists /\ ~grouped /\ keys = {}

(* The invariant behind them: requests are at places of their kind, ...    *)
Unlisted == {"request", "wait", "join", "groups", "ungroup", "list", "keys"}

AtItsPlace ==
    \A r \in Requests :
        /\ op[r] = "create" => at[r] \in {"request", "wait", "join", "created", "error"}
        /\ op[r] = "reset" => at[r] \in {"request", "list", "issue", "revoke", "reset", "error"}
        /\ op[r] = "delete" => at[r] \in {"request", "groups", "ungroup", "keys", "unkey",
                                         "remove", "deleted", "error"}

(* ... delete only what they have seen, which is older than what they were *)
(* issued, ...                                                             *)
OldKeysOnly ==
    \A r \in Requests :
        /\ saw[r] \subseteq 1 .. issued
        /\ todo[r] \subseteq saw[r]
        /\ at[r] \in Unlisted => saw[r] = {}
        /\ at[r] = "issue" => todo[r] = saw[r]
        /\ at[r] \in {"revoke", "reset"} => \A k \in saw[r] : k < mine[r]
        /\ at[r] \in {"revoke", "reset"} => mine[r] \in 1 .. issued

(* ... and are not answered 200 before all of it is gone.                  *)
KeysRevoked ==
    \A r \in Requests :
        /\ at[r] \in {"revoke", "reset"} => saw[r] \cap keys \subseteq todo[r]
        /\ at[r] = "reset" => todo[r] = {}
        /\ at[r] \in {"revoke", "reset"} =>
              mine[r] \in keys \/ \E q \in Requests \ {r} : mine[r] \in saw[q]

NoTraceOfNobody == ~exists => ~grouped /\ keys = {}

IInv ==
    /\ TypeOK
    /\ AtItsPlace
    /\ OldKeysOnly
    /\ KeysRevoked
    /\ NoTraceOfNobody
    /\ NewestKeyStays
    /\ CreatedHasAccess
    /\ DeletedIsGone
=============================================================================
