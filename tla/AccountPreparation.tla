------------------------- MODULE AccountPreparation -------------------------
(***************************************************************************)
(* prepareAccount of api/orchestration_account.go, which every request to  *)
(* create a user runs first: it makes sure that the account has the admin  *)
(* policy, with the document this server wants, and the admin group, with  *)
(* that policy attached.  Requests run it concurrently, on servers that    *)
(* may want different documents (while a new version is rolled out); each  *)
(* looks, and makes or changes what it did not find.  The first call that  *)
(* fails ends the request, and the client may send it again.               *)
(*                                                                         *)
(* The calls are made with a session whose policy names the IAM actions it *)
(* may take, api/policy.go: any other call is refused.                     *)
(*                                                                         *)
(* A server marshals its document once, into a variable that its requests  *)
(* read and write without a lock.                                          *)
(***************************************************************************)
EXTENDS Naturals, SessionPolicies

CONSTANTS
    Requests,
    Unlucky,        \* the requests whose calls may fail for no reason
    Servers,
    Documents,      \* what the admin policy may say
    Missing,        \* in place of the document of a policy there is not
    VersionLimit    \* versions of a policy that IAM keeps, 5

ASSUME DocumentAssumption == Missing \notin Documents
ASSUME ServersAssumption == Servers # {}
ASSUME VersionAssumption == VersionLimit \in Nat \ {0}

VARIABLES
    policy,         \* the document of the admin policy's default version
    versions,       \* the number of its versions
    adminGroup,     \* whether the admin group exists
    attached,       \* whether the policy is attached to it
    wants,          \* the document each server wants
    cached,         \* its efsAdminPolicyDoc
    at,             \* where each request is
    server,         \* the server that has it
    saw,            \* the document of the policy it found
    settled         \* history: the requests that had nothing to do when they came

iam == <<policy, versions, adminGroup, attached>>
local == <<at, server, saw, settled>>
account == <<iam, wants, cached, local>>

(* In prepareAccount, or failed; and past it, see UserAccess. *)
Preparing == {"request", "marshal", "policy", "create", "await", "version", "update",
              "group", "newgroup", "attached", "attach", "failed"}
Prepared == {"prepared", "user", "wait", "join", "created", "refused"}

AccountTypeOK ==
    /\ policy \in Documents \cup {Missing}
    /\ versions \in 0 .. VersionLimit
    /\ adminGroup \in BOOLEAN /\ attached \in BOOLEAN
    /\ wants \in [Servers -> Documents]
    /\ cached \in [Servers -> {"empty", "torn", "whole"}]
    /\ at \in [Requests -> Preparing \cup Prepared]
    /\ server \in [Requests -> Servers]
    /\ saw \in [Requests -> Documents \cup {Missing}]
    /\ settled \in SUBSET Requests

(* An account in any state that requests may have left it in before. *)
AccountInit ==
    /\ policy \in Documents \cup {Missing}
    /\ versions \in IF policy = Missing THEN {0} ELSE 1 .. VersionLimit
    /\ adminGroup \in BOOLEAN
    /\ attached \in IF adminGroup /\ policy # Missing THEN BOOLEAN ELSE {FALSE}
    /\ wants \in [Servers -> Documents]
    /\ cached = [s \in Servers |-> "empty"]
    /\ at = [r \in Requests |-> "request"]
    /\ server = [r \in Requests |-> CHOOSE s \in Servers : TRUE]
    /\ saw = [r \in Requests |-> Missing]
    /\ settled = {}

(* The document a request works with. *)
Wanted(r) == wants[server[r]]

(* The account as a request with the document d leaves it. *)
Granted(d) == policy = d /\ adminGroup /\ attached

-----------------------------------------------------------------------------
Go(r, to) == at' = [at EXCEPT ![r] = to]

(* A call of request r: the action it takes, whether IAM accepts it, what  *)
(* it does then, where r goes on, and where after an error.                *)
Call(r, action, accepted, effect, to, error) ==
    \/ accepted /\ action \in UserCreateActions /\ effect /\ Go(r, to)
    \/ /\ ~accepted \/ action \notin UserCreateActions
       /\ UNCHANGED iam /\ Go(r, error)
    \/ /\ r \in Unlucky /\ Go(r, error)
       /\ UNCHANGED iam \/ (accepted /\ action \in UserCreateActions /\ effect)

Keep == UNCHANGED <<wants, cached, server, saw, settled>>

-----------------------------------------------------------------------------
(* A server gets the request, and looks whether its document was marshaled *)
(* before.  While another request is writing it, it may seem so, or not.   *)
Arrive(r) ==
    /\ at[r] = "request"
    /\ \E s \in Servers :
        /\ server' = [server EXCEPT ![r] = s]
        /\ settled' = IF Granted(wants[s]) THEN settled \cup {r} ELSE settled \ {r}
        /\ \/ cached[s] # "empty" /\ Go(r, "policy") /\ UNCHANGED cached
           \/ /\ cached[s] # "whole" /\ Go(r, "marshal")
              /\ cached' = [cached EXCEPT ![s] = "torn"]
    /\ UNCHANGED <<iam, wants, saw>>

(* cachePolicyDoc: the string is written in two steps, this is the second. *)
Marshal(r) ==
    /\ at[r] = "marshal" /\ Go(r, "policy")
    /\ cached' = [cached EXCEPT ![server[r]] = "whole"]
    /\ UNCHANGED <<iam, wants, server, saw, settled>>

(* userCreatePolicyIfMissing *)
GetPolicyByName(r) ==
    /\ at[r] = "policy"
    /\ Call(r, "ListPolicies", TRUE, UNCHANGED iam,
            IF policy = Missing THEN "create" ELSE "version", "failed")
    /\ saw' = [saw EXCEPT ![r] = IF at'[r] = "version" THEN policy ELSE Missing]
    /\ UNCHANGED <<wants, cached, server, settled>>

(* EntityAlreadyExists if another request was faster; half a string cannot *)
(* be sent.                                                                *)
CreatePolicy(r) ==
    /\ at[r] = "create"
    /\ Call(r, "CreatePolicy", policy = Missing /\ cached[server[r]] = "whole",
            policy' = Wanted(r) /\ versions' = 1 /\ UNCHANGED <<adminGroup, attached>>,
            "await", "failed")
    /\ Keep

WaitForPolicy(r) ==
    /\ at[r] = "await"
    /\ Call(r, "GetPolicy", policy # Missing, UNCHANGED iam, "group", "failed")
    /\ Keep

(* Mutant: any document will do. *)
TrustDefaultVersion(r) ==
    /\ at[r] = "version"
    /\ Call(r, "GetPolicyVersion", TRUE, UNCHANGED iam, "group", "failed")
    /\ saw' = [saw EXCEPT ![r] = Missing]
    /\ UNCHANGED <<wants, cached, server, settled>>

(* Mutant: the document is compared as it came, encoded. *)
CompareEncoded(r) ==
    /\ at[r] = "version"
    /\ Call(r, "GetPolicyVersion", TRUE, UNCHANGED iam, "update", "failed")
    /\ saw' = [saw EXCEPT ![r] = Missing]
    /\ UNCHANGED <<wants, cached, server, settled>>

(* The version that was the default when the policy was found. *)
GetDefaultPolicyVersion(r) ==
    /\ at[r] = "version"
    /\ Call(r, "GetPolicyVersion", TRUE, UNCHANGED iam,
            IF saw[r] = Wanted(r) THEN "group" ELSE "update", "failed")
    /\ saw' = [saw EXCEPT ![r] = Missing]
    /\ UNCHANGED <<wants, cached, server, settled>>

(* A new version, the default from now on; no old one is deleted. *)
UpdatePolicy(r) ==
    /\ at[r] = "update"
    /\ Call(r, "CreatePolicyVersion", versions < VersionLimit /\ cached[server[r]] = "whole",
            /\ policy' = Wanted(r)
            /\ versions' = versions + 1
            /\ UNCHANGED <<adminGroup, attached>>,
            "group", "failed")
    /\ Keep

(* userCreateGroupIfMissing *)
GetGroupWithPath(r) ==
    /\ at[r] = "group"
    /\ Call(r, "GetGroup", TRUE, UNCHANGED iam,
            IF adminGroup THEN "attached" ELSE "newgroup", "failed")
    /\ Keep

CreateGroup(r) ==
    /\ at[r] = "newgroup"
    /\ Call(r, "CreateGroup", ~adminGroup,
            adminGroup' = TRUE /\ UNCHANGED <<policy, versions, attached>>,
            "attached", "failed")
    /\ Keep

ListAttachedGroupPolicies(r) ==
    /\ at[r] = "attached"
    /\ Call(r, "ListAttachedGroupPolicies", adminGroup, UNCHANGED iam,
            IF attached THEN "prepared" ELSE "attach", "failed")
    /\ Keep

(* Attaching it twice does nothing. *)
AttachGroupPolicy(r) ==
    /\ at[r] = "attach"
    /\ Call(r, "AttachGroupPolicy", adminGroup /\ policy # Missing,
            attached' = TRUE /\ UNCHANGED <<policy, versions, adminGroup>>,
            "prepared", "failed")
    /\ Keep

(* The client sends the request again. *)
Retry(r) ==
    /\ at[r] = "failed" /\ Go(r, "request")
    /\ UNCHANGED <<iam, wants, cached, server, saw, settled>>

PrepareStep(r) ==
    \/ Arrive(r) \/ Marshal(r) \/ GetPolicyByName(r) \/ CreatePolicy(r) \/ WaitForPolicy(r)
    \/ GetDefaultPolicyVersion(r) \/ UpdatePolicy(r) \/ GetGroupWithPath(r)
    \/ CreateGroup(r) \/ ListAttachedGroupPolicies(r) \/ AttachGroupPolicy(r)

-----------------------------------------------------------------------------
(* When a request leaves prepareAccount without an error the group exists  *)
(* and has the policy, which says what one of the servers wants, never an  *)
(* older document: whoever else was preparing the account meanwhile and    *)
(* wherever those requests failed.                                         *)
PreparedMeansGranted ==
    \A r \in Requests : at[r] \in Prepared => \E s \in Servers : Granted(wants[s])

(* If all servers want the same document, a request that finds an account  *)
(* prepared changes nothing in it, and takes up none of the versions that  *)
(* IAM keeps: not even while requests that came before it are still at it. *)
PreparedOnce ==
    (\A s, t \in Servers : wants[s] = wants[t]) =>
        \A r \in settled : at[r] \notin {"create", "update", "newgroup", "attach"}
=============================================================================
