-------------------------- MODULE SessionPolicies ---------------------------
(***************************************************************************)
(* The policies of api/policy.go for sessions that work on users: the IAM  *)
(* actions they name.  A session is refused every other call, so what they *)
(* name must keep up with the calls the orchestrations make.               *)
(***************************************************************************)

(* Mutant: the action of the last call is forgotten. *)
UserCreateActionsButMember ==
    {"ListPolicies", "GetPolicy", "GetPolicyVersion", "CreatePolicy", "CreatePolicyVersion",
     "GetGroup", "CreateGroup", "ListAttachedGroupPolicies", "ListGroupPolicies",
     "AttachGroupPolicy", "GetUser", "CreateUser", "TagUser", "UntagUser"}

(* filesystemUserCreatePolicy *)
UserCreateActions ==
    {"ListPolicies", "GetPolicy", "GetPolicyVersion", "CreatePolicy", "CreatePolicyVersion",
     "GetGroup", "CreateGroup", "ListAttachedGroupPolicies", "ListGroupPolicies",
     "AttachGroupPolicy", "GetUser", "CreateUser", "TagUser", "UntagUser", "AddUserToGroup"}

(* Mutant: groups are forgotten. *)
UserDeleteActionsButGroups ==
    {"ListUsers", "GetUser", "ListAccessKeys", "DeleteAccessKey", "DeleteUser"}

(* filesystemUserDeletePolicy *)
UserDeleteActions ==
    {"ListUsers", "GetUser", "ListGroupsForUser", "RemoveUserFromGroup",
     "ListAccessKeys", "DeleteAccessKey", "DeleteUser"}
=============================================================================
