----------------------------- MODULE UserAccess -----------------------------
(***************************************************************************)
(* What it takes for a user to be let in to a filesystem.  The admin       *)
(* policy lets a user in whose tags say what the filesystem's say: so the  *)
(* user must be in the group that AccountPreparation prepares, and its     *)
(* tags, copied from the filesystem when it was created and changed with   *)
(* it when it is updated, must keep up.                                    *)
(*                                                                         *)
(* Requests create users: UsersCreateHandler, prepareAccount and then      *)
(* createFilesystemUser, one user each.  Updates change the tags of the    *)
(* filesystem, and then those of its users: the tags' part of              *)
(* filesystemUpdate (FilesystemUpdate has its other settings), with the    *)
(* check that its handler makes first.  No user is deleted meanwhile.      *)
(***************************************************************************)
EXTENDS AccountPreparation, Tags

CONSTANTS
    Updates,
    Wishes,         \* bound: the tags an update may send
    Spaces,         \* the groups, by their IDs
    Home,           \* the one the filesystem was created in
    Namings         \* bound: which group each request and update may name

ASSUME HomeAssumption == Home \in Spaces
ASSUME WishesAssumption == \A wish \in Wishes : Unique(wish)
ASSUME NamingAssumption == Namings \subseteq [Requests \cup Updates -> Spaces]

VARIABLES
    fsTags,         \* the tags of the filesystem
    userTags,       \* the tags of the user of each request, none before there is one
    members,        \* the users in the admin group
    space,          \* the group each request and update names
    read,           \* the tags of the filesystem as a request has read them
    stage,          \* where each update is
    answered,       \* the updates that were answered with an error already
    sends,          \* the tags of an update
    listed, todo    \* the users it found, and has left to tag

users == <<userTags, members, space, read>>
updates == <<stage, answered, sends, listed, todo>>
vars == <<account, fsTags, users, updates>>

Org == "org"
FileSystemName == "fs"
UserName(r) == r            \* one user for each request

FirstTags ==
    {Tag("Name", FileSystemName), Tag("spinup:org", Org), Tag("spinup:spaceid", Home),
     Tag("aws:", "default-backup")}

Existing == {r \in Requests : userTags[r] # {}}

Stage == {"request", "accept", "tag", "list", "users", "refused", "returned", "silent",
          "failed"}

TypeOK ==
    /\ AccountTypeOK
    /\ Unique(fsTags)
    /\ userTags = [r \in Requests |-> userTags[r]]
    /\ members \subseteq Existing
    /\ space \in Namings
    /\ read = [r \in Requests |-> read[r]]
    /\ stage \in [Updates -> Stage]
    /\ answered \subseteq Updates
    /\ sends = [u \in Updates |-> sends[u]]
    /\ listed \in [Updates -> SUBSET Requests]
    /\ todo \in [Updates -> SUBSET Requests]
    /\ \A u \in Updates : todo[u] \subseteq listed[u] /\ listed[u] \subseteq Existing

Init ==
    /\ AccountInit
    /\ fsTags = FirstTags
    /\ userTags = [r \in Requests |-> {}]
    /\ members = {}
    /\ space \in Namings
    /\ read = [r \in Requests |-> {}]
    /\ stage = [u \in Updates |-> "request"]
    /\ answered = {}
    /\ sends = [u \in Updates |-> {}]
    /\ listed = [u \in Updates |-> {}]
    /\ todo = [u \in Updates |-> {}]

-----------------------------------------------------------------------------
(* createFilesystemUser: first the filesystem is read. *)
ReadFilesystem(r) ==
    /\ at[r] = "prepared"
    /\ \/ Go(r, "user") /\ read' = [read EXCEPT ![r] = fsTags]
       \/ r \in Unlucky /\ Go(r, "refused") /\ UNCHANGED read
    /\ UNCHANGED <<iam, userTags, members, space>>

(* Mutant: the name of the user, not that of the filesystem. *)
TagsWithUserName(r) ==
    Normalized(Org, UserName(r), space[r], read[r])
        \cup {Tag("ResourceName", UserName(r))}

TagsOfNewUser(r) ==
    Normalized(Org, UserName(r), space[r], read[r])
        \cup {Tag("ResourceName", FileSystemName)}

(* createFilesystemUser goes on with the session of prepareAccount.        *)
Allowed(actions) == actions \subseteq UserCreateActions

(* A user with tags takes two actions.  A key that is given twice is       *)
(* refused, as if the filesystem has a tag ResourceName already.           *)
CreateUser(r) ==
    /\ at[r] = "user"
    /\ LET accepted == /\ Allowed({"CreateUser", "TagUser"})
                       /\ "ResourceName" \notin Keys(read[r])
           made == userTags' = [userTags EXCEPT ![r] = TagsOfNewUser(r)]
       IN \/ accepted /\ made /\ Go(r, "wait")
          \/ ~accepted /\ UNCHANGED userTags /\ Go(r, "refused")
          \/ r \in Unlucky /\ Go(r, "refused") /\ ((accepted /\ made) \/ UNCHANGED userTags)
    /\ UNCHANGED <<iam, members, space, read>>

WaitForUser(r) ==
    /\ at[r] = "wait"
    /\ LET found == Allowed({"GetUser"}) /\ r \in Existing
       IN \/ found /\ Go(r, "join")
          \/ (~found \/ r \in Unlucky) /\ Go(r, "refused")
    /\ UNCHANGED <<iam, users>>

AddUserToGroup(r) ==
    /\ at[r] = "join"
    /\ LET accepted == Allowed({"AddUserToGroup"}) /\ adminGroup /\ r \in Existing
           join == members' = members \cup {r}
       IN \/ accepted /\ join /\ Go(r, "created")
          \/ ~accepted /\ UNCHANGED members /\ Go(r, "refused")
          \/ r \in Unlucky /\ Go(r, "refused") /\ ((accepted /\ join) \/ UNCHANGED members)
    /\ UNCHANGED <<iam, userTags, space, read>>

CreateStep(r) ==
    /\ ReadFilesystem(r) \/ CreateUser(r) \/ WaitForUser(r) \/ AddUserToGroup(r)
    /\ Keep
    /\ UNCHANGED <<fsTags, updates>>

-----------------------------------------------------------------------------
Advance(u, from, to) == stage[u] = from /\ stage' = [stage EXCEPT ![u] = to]

(* Is the filesystem one of the group?  If that cannot be told, the client *)
(* gets an error, and the handler goes on.                                 *)
CheckGroup(u) ==
    /\ \/ /\ Tag("spinup:spaceid", space[u]) \in fsTags
          /\ Advance(u, "request", "accept") /\ UNCHANGED answered
       \/ /\ Tag("spinup:spaceid", space[u]) \notin fsTags
          /\ Advance(u, "request", "refused") /\ UNCHANGED answered
       \/ /\ u \in Unlucky /\ Advance(u, "request", "accept")
          /\ answered' = answered \cup {u}
    /\ UNCHANGED <<account, fsTags, users, sends, listed, todo>>

(* The filesystem is read for its name, and the tags are normalized. *)
Accept(u) ==
    /\ Advance(u, "accept", "tag")
    /\ \E wish \in Wishes :
          sends' = [sends EXCEPT ![u] = Normalized(Org, FileSystemName, space[u], wish)]
    /\ UNCHANGED <<account, fsTags, users, answered, listed, todo>>

TagFilesystem(u) ==
    /\ \/ fsTags' = Put(fsTags, sends[u]) /\ Advance(u, "tag", "list")
       \/ /\ u \in Unlucky /\ Advance(u, "tag", "failed")
          /\ fsTags' \in {fsTags, Put(fsTags, sends[u])}
    /\ UNCHANGED <<account, users, answered, sends, listed, todo>>

(* The users below the group's path are listed.  If the role for it cannot *)
(* be assumed, the goroutine returns and says nothing.                     *)
ListUsers(u) ==
    /\ \/ LET found == {r \in Existing : space[r] = space[u]}
          IN /\ Advance(u, "list", "users")
             /\ listed' = [listed EXCEPT ![u] = found]
             /\ todo' = [todo EXCEPT ![u] = found]
       \/ u \in Unlucky /\ Advance(u, "list", "silent") /\ UNCHANGED <<listed, todo>>
       \/ u \in Unlucky /\ Advance(u, "list", "failed") /\ UNCHANGED <<listed, todo>>
    /\ UNCHANGED <<account, fsTags, users, answered, sends>>

(* Mutant: a user that cannot be tagged is left. *)
UpdateTagsOrLeave(u, r) ==
    /\ stage[u] = "users"
    /\ \/ /\ r \in Existing
          /\ userTags' = [userTags EXCEPT ![r] =
                Put(@, Normalized(Org, UserName(r), space[u], sends[u]))]
       \/ (r \notin Existing \/ u \in Unlucky) /\ UNCHANGED userTags
    /\ todo' = [todo EXCEPT ![u] = @ \ {r}]
    /\ UNCHANGED stage

(* updateTagsForUser *)
UpdateTagsForUser(u, r) ==
    LET tags == Normalized(Org, UserName(r), space[u], sends[u])
        tag == userTags' = [userTags EXCEPT ![r] = Put(@, tags)]
    IN \/ /\ r \in Existing /\ tag
          /\ stage[u] = "users" /\ UNCHANGED stage
          /\ todo' = [todo EXCEPT ![u] = @ \ {r}]
       \/ /\ r \notin Existing \/ u \in Unlucky
          /\ Advance(u, "users", "failed")
          /\ UNCHANGED userTags \/ (r \in Existing /\ tag)
          /\ UNCHANGED todo

TagUsers(u) ==
    /\ \/ \E r \in todo[u] : UpdateTagsForUser(u, r)
       \/ todo[u] = {} /\ Advance(u, "users", "returned") /\ UNCHANGED <<userTags, todo>>
    /\ UNCHANGED <<account, fsTags, members, space, read, answered, sends, listed>>

UpdateStep(u) ==
    CheckGroup(u) \/ Accept(u) \/ TagFilesystem(u) \/ ListUsers(u) \/ TagUsers(u)

Preparation(r) == PrepareStep(r) /\ UNCHANGED <<fsTags, users, updates>>
SendAgain(r) == Retry(r) /\ UNCHANGED <<fsTags, users, updates>>

Next ==
    \/ \E r \in Requests :
          Preparation(r) \/ SendAgain(r) \/ CreateStep(r)
    \/ \E u \in Updates : UpdateStep(u)

Spec == Init /\ [][Next]_vars

(* Requests are served, and a client whose request failed sends it again.  *)
FairSpec ==
    /\ Spec
    /\ \A r \in Requests :
          WF_vars(Preparation(r)) /\ WF_vars(SendAgain(r)) /\ WF_vars(CreateStep(r))

-----------------------------------------------------------------------------
(* The condition of EfsAdminPolicy. *)
TagsMatch(r) ==
    \E n \in {t.value : t \in fsTags}, s \in Spaces :
        /\ {Tag("Name", n), Tag("spinup:org", Org), Tag("spinup:spaceid", s)} \subseteq fsTags
        /\ {Tag("ResourceName", n), Tag("spinup:org", Org), Tag("spinup:spaceid", s)}
              \subseteq userTags[r]

MayMount(r) ==
    r \in members /\ TagsMatch(r) /\ \E s \in Servers : Granted(wants[s])

SentResourceName == \E u \in Updates : "ResourceName" \in Keys(sends[u])

(* A user whose creation was answered 200 is let in exactly if it was      *)
(* created for the group the filesystem is in: whatever tags are sent,     *)
(* unless one is ResourceName, which the code does not keep for itself,    *)
(* and however preparation, creation and updates interleave.               *)
CreatedMayMount ==
    ~SentResourceName =>
        \A r \in Existing : at[r] = "created" =>
            (MayMount(r) <=> Tag("spinup:spaceid", space[r]) \in fsTags)

(* No tags that are sent take the filesystem out of its group, or its name *)
(* from it, but in one case: the update named another group, and the check *)
(* for that failed, which its client was told.                             *)
GroupKept ==
    /\ {Tag("Name", FileSystemName), Tag("spinup:org", Org)} \subseteq fsTags
    /\ Tag("spinup:spaceid", Home) \in fsTags \/ \E u \in answered : space[u] # Home

(* An update that ran to its end has tagged all users of its group, those  *)
(* too that were being created.  One is missed only if its creation had    *)
(* read the filesystem before it was tagged and was not finished when the  *)
(* users were listed.                                                      *)
MissedOnlyIfUnfinished ==
    \A u \in Updates, r \in Existing :
        stage[u] = "returned" /\ space[r] = space[u] =>
            \A t \in sends[u] : t.key \notin OwnKeys =>
                \/ t.key \in Keys(userTags[r])
                \/ r \notin listed[u] /\ t.key \notin Keys(read[r])

(* A client that is not out of luck and asks again as long as the account  *)
(* is not prepared gets its user, however requests of others fail half     *)
(* way, unless the policy has as many versions as IAM keeps, or the        *)
(* filesystem has a tag ResourceName.                                      *)
CreationSucceeds ==
    \A r \in Requests \ Unlucky :
        at[r] = "request" ~>
            \/ at[r] = "created"
            \/ versions = VersionLimit
            \/ "ResourceName" \in Keys(read[r])

-----------------------------------------------------------------------------
(* The invariant behind PreparedMeansGranted: a policy that is what a      *)
(* server wants stays that, and group and attachment are never undone.     *)
Current == {wants[s] : s \in Servers}

PastPolicy == {"await", "group", "newgroup", "attached", "attach"} \cup Prepared
PastGroup == {"attached", "attach"} \cup Prepared

StepsHold ==
    \A r \in Requests :
        /\ at[r] = "version" /\ saw[r] \in Current => policy \in Current
        /\ at[r] \in PastPolicy => policy \in Current
        /\ at[r] \in PastGroup => adminGroup
        /\ at[r] \in Prepared => attached

(* Behind PreparedOnce: one that came to a prepared account finds it so.   *)
OneDocument == \A s, t \in Servers : wants[s] = wants[t]

SettledStays ==
    OneDocument =>
        \A r \in settled :
            /\ \A s \in Servers : Granted(wants[s])
            /\ at[r] = "version" => saw[r] = Wanted(r)

(* And behind GroupKept: the filesystem has one group, and an update that  *)
(* is about to change it has been answered.                                *)
TagsHold ==
    /\ \A s \in Spaces \ {Home} : Tag("spinup:spaceid", s) \in fsTags =>
          \E u \in answered : space[u] # Home
    /\ \A u \in Updates :
          /\ stage[u] \in {"accept", "tag"} /\ space[u] # Home =>
                \E x \in answered : space[x] # Home
          /\ stage[u] = "tag" => \E wish \in Wishes :
                sends[u] = Normalized(Org, FileSystemName, space[u], wish)

(* Behind CreatedMayMount: a user keeps the group and the filesystem it    *)
(* was created for, and every key that its filesystem had then.            *)
UsersHold ==
    \A r \in Requests :
        /\ at[r] \in Preparing \cup {"prepared", "user"} => r \notin Existing
        /\ at[r] = "created" => r \in members
        /\ r \in Existing =>
              /\ {Tag("spinup:org", Org), Tag("spinup:spaceid", space[r])} \subseteq userTags[r]
              /\ \A s \in Spaces : Tag("spinup:spaceid", s) \in userTags[r] => s = space[r]
              /\ Tag("ResourceName", FileSystemName) \in userTags[r] \/ SentResourceName
              /\ Keys(read[r]) \ (OwnKeys \cup ReservedKeys) \subseteq Keys(userTags[r])

(* Behind MissedOnlyIfUnfinished: an update finds only users of its group, *)
(* and those that it has done with have the keys it sends.                 *)
UpdatesHold ==
    \A u \in Updates :
        /\ stage[u] \in {"request", "accept"} => sends[u] = {}
        /\ stage[u] \in {"request", "accept", "tag"} => listed[u] = {}
        /\ stage[u] = "returned" => todo[u] = {}
        /\ Keys(sends[u]) \cap ReservedKeys = {}
        /\ \A r \in listed[u] :
              /\ space[r] = space[u]
              /\ r \notin todo[u] => Keys(sends[u]) \ OwnKeys \subseteq Keys(userTags[r])

IInv ==
    /\ TypeOK
    /\ StepsHold
    /\ SettledStays
    /\ PreparedOnce
    /\ TagsHold
    /\ GroupKept
    /\ UsersHold
    /\ UpdatesHold
=============================================================================
