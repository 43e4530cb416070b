-------------------------- MODULE UserAccess_proofs --------------------------
(***************************************************************************)
(* Proofs about UserAccess and the modules it is made of: for any number   *)
(* of requests, updates and servers, any documents, versions and tags.     *)
(***************************************************************************)
EXTENDS UserAccess, TLAPS

USE DocumentAssumption, ServersAssumption, VersionAssumption,
    HomeAssumption, NamingAssumption

-----------------------------------------------------------------------------
(* Tags.                                                                   *)

(* Tags without the keys that normalizeTags sets, and with, have each key  *)
(* once.                                                                   *)
LEMMA NormalizedUnique ==
  ASSUME NEW org, NEW name, NEW group, NEW tags, Unique(tags)
  PROVE  Unique(Normalized(org, name, group, tags))
  BY DEF Unique, Normalized, Tag, OwnKeys, ReservedKeys

(* Normalizing tags again, as updateTagsForUser does with those of the     *)
(* update, only changes the name.                                          *)
THEOREM NormalizedTwice ==
  ASSUME NEW org, NEW name, NEW other, NEW group, NEW tags
  PROVE  Normalized(org, other, group, Normalized(org, name, group, tags))
            = Normalized(org, other, group, tags)
  BY DEF Normalized, Tag, OwnKeys, ReservedKeys

LEMMA PutUnique ==
  ASSUME NEW old, NEW new, Unique(old), Unique(new)
  PROVE  Unique(Put(old, new))
  BY DEF Unique, Put, Keys

(* The keys that are left by normalizeTags, and by tagging a resource.     *)
LEMMA NormalizedKeys ==
  ASSUME NEW org, NEW name, NEW group, NEW tags
  PROVE  Keys(Normalized(org, name, group, tags))
            = (Keys(tags) \ (OwnKeys \cup ReservedKeys)) \cup OwnKeys
<1> DEFINE kept == {t \in tags : t.key \notin OwnKeys \cup ReservedKeys}
           own == {Tag("Name", name), Tag("spinup:org", org), Tag("spinup:spaceid", group)}
<1>1. Keys(own) = OwnKeys
  BY DEF Keys, Tag, OwnKeys
<1>2. Keys(kept) = Keys(tags) \ (OwnKeys \cup ReservedKeys)
  BY DEF Keys
<1>3. Keys(kept \cup own) = Keys(kept) \cup Keys(own)
  <2> HIDE DEF kept, own
  <2> QED
    BY DEF Keys
<1> QED
  BY <1>1, <1>2, <1>3 DEF Normalized

LEMMA PutKeys ==
  ASSUME NEW old, NEW new
  PROVE  Keys(Put(old, new)) = Keys(old) \cup Keys(new)
  BY DEF Keys, Put

(* Whatever is normalized for a group, it names this group only, and so    *)
(* does whatever it is put on.                                             *)
LEMMA NormalizedGroup ==
  ASSUME NEW org, NEW name, NEW group, NEW tags
  PROVE  /\ {Tag("spinup:org", org), Tag("spinup:spaceid", group)}
               \subseteq Normalized(org, name, group, tags)
         /\ \A s : Tag("spinup:spaceid", s) \in Normalized(org, name, group, tags) => s = group
  BY DEF Normalized, Tag, OwnKeys, ReservedKeys

LEMMA PutGroup ==
  ASSUME NEW org, NEW name, NEW group, NEW tags, NEW old
  PROVE  LET new == Put(old, Normalized(org, name, group, tags))
         IN /\ {Tag("spinup:org", org), Tag("spinup:spaceid", group)} \subseteq new
            /\ \A s : Tag("spinup:spaceid", s) \in new => s = group
<1>1. "spinup:spaceid" \in Keys(Normalized(org, name, group, tags))
  BY NormalizedKeys DEF OwnKeys
<1> QED
  BY <1>1, NormalizedGroup DEF Put, Tag

(* A tag that is not sent stays.                                           *)
LEMMA PutKeeps ==
  ASSUME NEW org, NEW name, NEW group, NEW tags, NEW old,
         NEW t \in old, t.key \notin Keys(tags) \cup OwnKeys
  PROVE  t \in Put(old, Normalized(org, name, group, tags))
  BY NormalizedKeys DEF Put

-----------------------------------------------------------------------------
(* The account.                                                            *)
AccountInv == AccountTypeOK /\ StepsHold /\ SettledStays /\ PreparedOnce

LEMMA AccountInitInv == AccountInit => AccountInv
<1> SUFFICES ASSUME AccountInit PROVE AccountInv
  OBVIOUS
<1>1. AccountTypeOK
  <2>1. (CHOOSE s \in Servers : TRUE) \in Servers
    OBVIOUS
  <2>2. versions \in 0 .. VersionLimit /\ attached \in BOOLEAN
    <3>1. versions \in 0 .. VersionLimit
      BY DEF AccountInit
    <3>2. attached \in BOOLEAN
      BY Zenon DEF AccountInit
    <3> QED
      BY <3>1, <3>2
  <2>3. /\ policy \in Documents \cup {Missing} /\ adminGroup \in BOOLEAN
        /\ wants \in [Servers -> Documents]
        /\ cached \in [Servers -> {"empty", "torn", "whole"}]
        /\ at \in [Requests -> Preparing \cup Prepared]
        /\ saw \in [Requests -> Documents \cup {Missing}]
        /\ settled \in SUBSET Requests
    BY DEF AccountInit, Preparing
  <2>4. server \in [Requests -> Servers]
    BY <2>1 DEF AccountInit
  <2> QED
    BY <2>2, <2>3, <2>4 DEF AccountTypeOK
<1>2. StepsHold
  BY DEF AccountInit, StepsHold, PastPolicy, PastGroup, Prepared
<1>3. SettledStays /\ PreparedOnce
  BY DEF AccountInit, SettledStays, PreparedOnce
<1> QED
  BY <1>1, <1>2, <1>3 DEF AccountInv

USE DEF Wanted, Current, PastPolicy, PastGroup, Preparing, Prepared, OneDocument, Granted

(* The steps of prepareAccount: a policy that is current stays so, since   *)
(* whoever changes it sets it to what a server wants, and a group or an    *)
(* attachment is never undone.                                             *)
LEMMA PrepareKeepsInv ==
  ASSUME AccountInv, NEW r \in Requests, PrepareStep(r)
  PROVE  AccountInv'
<1> USE DEF AccountInv, AccountTypeOK, StepsHold, SettledStays, PreparedOnce
<1>1. CASE Arrive(r)
  BY <1>1 DEF Arrive, Go, iam
<1>2. CASE Marshal(r)
  BY <1>2 DEF Marshal, Go, iam
<1>3. CASE GetPolicyByName(r)
  BY <1>3 DEF GetPolicyByName, Call, Go, iam
<1>4. CASE CreatePolicy(r)
  BY <1>4 DEF CreatePolicy, Call, Go, iam, Keep
<1>5. CASE WaitForPolicy(r)
  BY <1>5 DEF WaitForPolicy, Call, Go, iam, Keep
<1>6. CASE GetDefaultPolicyVersion(r)
  BY <1>6 DEF GetDefaultPolicyVersion, Call, Go, iam, Keep
<1>7. CASE UpdatePolicy(r)
  BY <1>7 DEF UpdatePolicy, Call, Go, iam, Keep
<1>8. CASE GetGroupWithPath(r)
  BY <1>8 DEF GetGroupWithPath, Call, Go, iam, Keep
<1>9. CASE CreateGroup(r)
  <2> at[r] = "newgroup" /\ Keep
    BY <1>9 DEF CreateGroup
  <2>1. CASE Go(r, "failed") /\ UNCHANGED iam
    BY <2>1 DEF Go, iam, Keep
  <2>2. CASE /\ Go(r, "failed") \/ (TRUE /\ Go(r, "attached"))
             /\ adminGroup' = TRUE /\ UNCHANGED <<policy, versions, attached>>
    BY <2>2 DEF Go, Keep
  <2> QED
    BY <1>9, <2>1, <2>2 DEF CreateGroup, Call
<1>10. CASE ListAttachedGroupPolicies(r)
  BY <1>10 DEF ListAttachedGroupPolicies, Call, Go, iam, Keep
<1>11. CASE AttachGroupPolicy(r)
  <2> at[r] = "attach" /\ Keep
    BY <1>11 DEF AttachGroupPolicy
  <2>1. CASE Go(r, "failed") /\ UNCHANGED iam
    BY <2>1 DEF Go, iam, Keep
  <2>2. CASE /\ Go(r, "failed") \/ (adminGroup /\ Go(r, "prepared"))
             /\ attached' = TRUE /\ UNCHANGED <<policy, versions, adminGroup>>
    BY <2>2 DEF Go, Keep
  <2> QED
    BY <1>11, <2>1, <2>2 DEF AttachGroupPolicy, Call
<1> QED
  BY <1>1, <1>2, <1>3, <1>4, <1>5, <1>6, <1>7, <1>8, <1>9, <1>10, <1>11 DEF PrepareStep

(* What comes after the preparation, or instead of it, changes neither the *)
(* account nor a request that is being prepared.                           *)
LEMMA OthersKeepInv ==
  ASSUME AccountInv, UNCHANGED <<iam, wants, saw, settled>>, UNCHANGED <<cached, server>>,
         \/ UNCHANGED at
         \/ \E r \in Requests : at[r] = "failed" /\ Go(r, "request")
         \/ \E r \in Requests, to \in Prepared : at[r] \in Prepared /\ Go(r, to)
  PROVE  AccountInv'
<1> USE DEF AccountInv, AccountTypeOK, StepsHold, SettledStays, PreparedOnce, iam
<1>1. CASE UNCHANGED at
  BY <1>1
<1>2. CASE \E r \in Requests : at[r] = "failed" /\ Go(r, "request")
  <2>1. /\ at' \in [Requests -> Preparing \cup Prepared]
        /\ \A q \in Requests : at'[q] = at[q] \/ at'[q] = "request"
    BY <1>2 DEF Go
  <2> QED
    BY <2>1
<1>3. CASE \E r \in Requests, to \in Prepared : at[r] \in Prepared /\ Go(r, to)
  <2>1. /\ at' \in [Requests -> Preparing \cup Prepared]
        /\ \A q \in Requests :
              at'[q] = at[q] \/ (at[q] \in Prepared /\ at'[q] \in Prepared)
    BY <1>3 DEF Go
  <2> QED
    BY <2>1
<1> QED
  BY <1>1, <1>2, <1>3

-----------------------------------------------------------------------------
(* The tags of the filesystem and of its users.                            *)
TagsTypeOK ==
    /\ Unique(fsTags)
    /\ userTags = [r \in Requests |-> userTags[r]]
    /\ members \subseteq Existing
    /\ space \in Namings
    /\ read = [r \in Requests |-> read[r]]
    /\ stage \in [Updates -> Stage]
    /\ answered \subseteq Updates
    /\ sends = [u \in Updates |-> sends[u]]
    /\ listed \in [Updates -> SUBSET Requests]
    /\ todo \in [Updates -> SUBSET Requests]
    /\ \A u \in Updates : todo[u] \subseteq listed[u] /\ listed[u] \subseteq Existing

TagsInv == TagsTypeOK /\ TagsHold /\ GroupKept

LEMMA InitIInv == Init => AccountInv /\ TagsInv
<1> SUFFICES ASSUME Init PROVE AccountInv /\ TagsInv
  OBVIOUS
<1>1. AccountInv
  BY AccountInitInv DEF Init
<1>2. TagsTypeOK
  BY DEF Init, TagsTypeOK, Unique, FirstTags, Tag, Existing, Stage
<1>3. TagsHold /\ GroupKept
  BY DEF Init, TagsHold, GroupKept, FirstTags, Tag
<1> QED
  BY <1>1, <1>2, <1>3 DEF TagsInv

(* The steps of createFilesystemUser.                                      *)
LEMMA CreateKeepsInv ==
  ASSUME AccountInv, TagsInv, NEW r \in Requests, CreateStep(r)
  PROVE  AccountInv' /\ TagsInv'
<1> USE DEF TagsInv, TagsTypeOK, TagsHold, GroupKept
<1>1. at[r] \in Prepared /\ (\E to \in Prepared : Go(r, to)) /\ UNCHANGED iam
  BY DEF CreateStep, ReadFilesystem, CreateUser, WaitForUser, AddUserToGroup
<1>2. AccountInv'
  BY <1>1, OthersKeepInv DEF CreateStep, Keep
<1>3. /\ UNCHANGED <<fsTags, space, stage, answered, sends, listed, todo>>
      /\ userTags' = [q \in Requests |-> userTags'[q]]
      /\ read' = [q \in Requests |-> read'[q]]
      /\ \A q \in Existing : userTags'[q] # {}
      /\ members' \subseteq Existing'
  <2> UNCHANGED <<fsTags, stage, answered, sends, listed, todo>>
    BY DEF CreateStep, updates
  <2>1. CASE ReadFilesystem(r)
    BY <2>1 DEF ReadFilesystem, Existing
  <2>2. CASE CreateUser(r)
    <3>1. TagsOfNewUser(r) # {}
      BY DEF TagsOfNewUser, Tag
    <3> QED
      BY <2>2, <3>1 DEF CreateUser, Existing
  <2>3. CASE WaitForUser(r)
    BY <2>3 DEF WaitForUser, users, Existing
  <2>4. CASE AddUserToGroup(r)
    BY <2>4 DEF AddUserToGroup, Existing
  <2> QED
    BY <2>1, <2>2, <2>3, <2>4 DEF CreateStep
<1>4. TagsTypeOK'
  BY <1>3 DEF Existing
<1>5. TagsHold' /\ GroupKept'
  BY <1>3
<1> QED
  BY <1>2, <1>4, <1>5

(* What an update sends, and what the filesystem's tags are then.          *)
LEMMA SentTags ==
  ASSUME TagsInv, NEW u \in Updates, stage[u] = "tag"
  PROVE  /\ Unique(Put(fsTags, sends[u]))
         /\ {Tag("Name", FileSystemName), Tag("spinup:org", Org),
             Tag("spinup:spaceid", space[u])} \subseteq Put(fsTags, sends[u])
         /\ \A s : Tag("spinup:spaceid", s) \in Put(fsTags, sends[u]) => s = space[u]
<1>1. PICK wish \in Wishes : sends[u] = Normalized(Org, FileSystemName, space[u], wish)
  BY DEF TagsInv, TagsHold
<1>2. Unique(Put(fsTags, sends[u]))
  BY <1>1, WishesAssumption, NormalizedUnique, PutUnique DEF TagsInv, TagsTypeOK
<1>3. {Tag("Name", FileSystemName), Tag("spinup:org", Org),
       Tag("spinup:spaceid", space[u])} \subseteq Put(fsTags, sends[u])
  BY <1>1 DEF Normalized, Put
<1>4. \A s : Tag("spinup:spaceid", s) \in Put(fsTags, sends[u]) => s = space[u]
  BY <1>2, <1>3 DEF Unique, Tag
<1> QED
  BY <1>2, <1>3, <1>4

(* The steps of an update.                                                 *)
LEMMA UpdateKeepsInv ==
  ASSUME AccountInv, TagsInv, NEW u \in Updates, UpdateStep(u)
  PROVE  AccountInv' /\ TagsInv'
<1> USE DEF TagsInv
<1>1. AccountInv'
  BY OthersKeepInv DEF UpdateStep, CheckGroup, Accept, TagFilesystem, ListUsers, TagUsers,
                       account, local
<1>2. space \in [Requests \cup Updates -> Spaces] /\ UNCHANGED space
  BY DEF UpdateStep, CheckGroup, Accept, TagFilesystem, ListUsers, TagUsers, users, TagsTypeOK
<1>3. CASE CheckGroup(u)
  <2> USE <1>3 DEF CheckGroup, users, Advance
  <2>1. TagsTypeOK'
    BY DEF TagsTypeOK, Existing, Stage
  <2>2. TagsHold'
    BY <1>2 DEF TagsHold, TagsTypeOK
  <2>3. GroupKept'
    BY <1>2 DEF GroupKept
  <2> QED
    BY <1>1, <2>1, <2>2, <2>3
<1>4. CASE Accept(u)
  <2> USE <1>4 DEF Accept, users, Advance
  <2>1. TagsTypeOK'
    BY DEF TagsTypeOK, Existing, Stage
  <2>2. TagsHold'
    BY <1>2 DEF TagsHold, TagsTypeOK
  <2>3. GroupKept'
    BY <1>2 DEF GroupKept
  <2> QED
    BY <1>1, <2>1, <2>2, <2>3
<1>5. CASE TagFilesystem(u)
  <2> USE <1>5 DEF TagFilesystem, users, Advance
  <2>1. fsTags' \in {fsTags, Put(fsTags, sends[u])} /\ stage[u] = "tag"
    OBVIOUS
  <2>2. TagsTypeOK'
    BY <2>1, SentTags DEF TagsTypeOK, Existing, Stage
  <2>3. TagsHold'
    BY <1>2, <2>1, SentTags DEF TagsHold, TagsTypeOK
  <2>4. GroupKept'
    BY <1>2, <2>1, SentTags DEF GroupKept, TagsHold
  <2> QED
    BY <1>1, <2>2, <2>3, <2>4
<1>6. CASE ListUsers(u)
  <2> USE <1>6 DEF ListUsers, users, Advance
  <2>1. TagsTypeOK'
    BY DEF TagsTypeOK, Existing, Stage
  <2>2. TagsHold'
    BY <1>2 DEF TagsHold, TagsTypeOK
  <2>3. GroupKept'
    BY <1>2 DEF GroupKept
  <2> QED
    BY <1>1, <2>1, <2>2, <2>3
<1>7. CASE TagUsers(u)
  <2> USE <1>7 DEF TagUsers, UpdateTagsForUser, Advance
  <2> UNCHANGED <<fsTags, members, space, answered, sends, listed>>
    OBVIOUS
  <2>1. TagsTypeOK'
    <3>1. CASE \E r \in todo[u] : UpdateTagsForUser(u, r)
      <4>1. PICK r \in todo[u] : UpdateTagsForUser(u, r)
        BY <3>1
      <4>2. Put(userTags[r], Normalized(Org, UserName(r), space[u], sends[u])) # {}
        BY DEF Put, Normalized
      <4>3. /\ stage' \in [Updates -> Stage]
            /\ todo' \in [Updates -> SUBSET Requests]
            /\ \A x \in Updates : todo'[x] \subseteq todo[x]
        BY <4>1 DEF TagsTypeOK, Stage
      <4>4. /\ userTags' = [q \in Requests |-> userTags'[q]]
            /\ \A q \in Existing : userTags'[q] # {}
        BY <4>1, <4>2 DEF TagsTypeOK, Existing
      <4> QED
        BY <4>3, <4>4 DEF TagsTypeOK, Existing
    <3>2. CASE todo[u] = {} /\ Advance(u, "users", "returned") /\ UNCHANGED <<userTags, todo>>
      BY <3>2 DEF TagsTypeOK, Existing, Stage
    <3> QED
      BY <3>1, <3>2
  <2>2. TagsHold'
    BY <1>2 DEF TagsHold, TagsTypeOK
  <2>3. GroupKept'
    BY <1>2 DEF GroupKept
  <2> QED
    BY <1>1, <2>1, <2>2, <2>3
<1> QED
  BY <1>1, <1>3, <1>4, <1>5, <1>6, <1>7 DEF UpdateStep

LEMMA NextIInv == AccountInv /\ TagsInv /\ [Next]_vars => (AccountInv /\ TagsInv)'
<1> SUFFICES ASSUME AccountInv, TagsInv, [Next]_vars PROVE AccountInv' /\ TagsInv'
  OBVIOUS
<1>1. CASE UNCHANGED <<fsTags, users, updates>>
  <2>1. TagsInv'
    BY <1>1 DEF TagsInv, TagsTypeOK, TagsHold, GroupKept, users, updates, Existing
  <2>2. ASSUME NEW r \in Requests, Preparation(r) PROVE AccountInv'
    BY <2>2, PrepareKeepsInv DEF Preparation
  <2>3. ASSUME NEW r \in Requests, SendAgain(r) PROVE AccountInv'
    BY <2>3, OthersKeepInv DEF SendAgain, Retry
  <2>4. CASE UNCHANGED vars
    <3>1. UNCHANGED <<iam, wants, saw, settled>> /\ UNCHANGED <<cached, server>> /\ UNCHANGED at
      BY <2>4 DEF vars, account, local
    <3> QED
      BY <2>1, <3>1, OthersKeepInv
  <2> QED
    BY <2>1, <2>2, <2>3, <2>4, CreateKeepsInv, UpdateKeepsInv DEF Next
<1>2. ASSUME NEW r \in Requests, Preparation(r) \/ SendAgain(r)
      PROVE  UNCHANGED <<fsTags, users, updates>>
  BY <1>2 DEF Preparation, SendAgain
<1>3. UNCHANGED vars => UNCHANGED <<fsTags, users, updates>>
  BY DEF vars
<1> QED
  BY <1>1, <1>2, <1>3, CreateKeepsInv, UpdateKeepsInv DEF Next

-----------------------------------------------------------------------------
(* What users keep of the tags they were created with, and what updates do *)
(* to them.                                                                *)
UsersInv == UsersHold /\ UpdatesHold

(* A request that is being prepared, or fails and is sent again, is not    *)
(* beyond its preparation, and no other request is moved.                  *)
LEMMA PreparationPlace ==
  ASSUME AccountTypeOK, NEW r \in Requests, PrepareStep(r) \/ Retry(r)
  PROVE  /\ at[r] \in Preparing /\ at'[r] \in Preparing \cup {"prepared"}
         /\ \A q \in Requests \ {r} : at'[q] = at[q]
<1> USE DEF AccountTypeOK, Go, Call
<1>1. CASE Arrive(r) \/ Marshal(r) \/ Retry(r)
  BY <1>1 DEF Arrive, Marshal, Retry
<1>2. CASE GetPolicyByName(r) \/ GetDefaultPolicyVersion(r)
  BY <1>2 DEF GetPolicyByName, GetDefaultPolicyVersion
<1>3. CASE CreatePolicy(r) \/ UpdatePolicy(r)
  BY <1>3 DEF CreatePolicy, UpdatePolicy
<1>4. CASE WaitForPolicy(r) \/ GetGroupWithPath(r)
  BY <1>4 DEF WaitForPolicy, GetGroupWithPath
<1>5. CASE CreateGroup(r)
  BY <1>5 DEF CreateGroup
<1>6. CASE ListAttachedGroupPolicies(r) \/ AttachGroupPolicy(r)
  BY <1>6 DEF ListAttachedGroupPolicies, AttachGroupPolicy
<1> QED
  BY <1>1, <1>2, <1>3, <1>4, <1>5, <1>6 DEF PrepareStep

LEMMA PreparationKeepsUsers ==
  ASSUME AccountInv, UsersInv, NEW r \in Requests, Preparation(r) \/ SendAgain(r)
  PROVE  UsersInv'
<1>1. UNCHANGED <<userTags, members, space, read, stage, sends, listed, todo>>
  BY DEF Preparation, SendAgain, users, updates
<1>2. UpdatesHold'
  BY <1>1 DEF UsersInv, UpdatesHold
<1>3. /\ at[r] \in Preparing /\ at'[r] \in Preparing \cup {"prepared"}
      /\ \A q \in Requests \ {r} : at'[q] = at[q]
  BY PreparationPlace DEF AccountInv, Preparation, SendAgain
<1>4. UsersHold'
  <2> SUFFICES ASSUME NEW q \in Requests
               PROVE  /\ at'[q] \in Preparing \cup {"prepared", "user"} => q \notin Existing
                      /\ at'[q] = "created" => q \in members
    BY <1>1 DEF UsersInv, UsersHold, Existing, SentResourceName
  <2> QED
    BY <1>3 DEF UsersInv, UsersHold
<1> QED
  BY <1>2, <1>4 DEF UsersInv

(* The tags of a new user.                                                 *)
LEMMA NewUserTags ==
  ASSUME NEW r \in Requests
  PROVE  /\ {Tag("spinup:org", Org), Tag("spinup:spaceid", space[r]),
             Tag("ResourceName", FileSystemName)} \subseteq TagsOfNewUser(r)
         /\ \A s : Tag("spinup:spaceid", s) \in TagsOfNewUser(r) => s = space[r]
         /\ Keys(read[r]) \ (OwnKeys \cup ReservedKeys) \subseteq Keys(TagsOfNewUser(r))
<1> DEFINE normal == Normalized(Org, UserName(r), space[r], read[r])
<1>1. TagsOfNewUser(r) = normal \cup {Tag("ResourceName", FileSystemName)}
  BY DEF TagsOfNewUser
<1>2. Keys(normal) \subseteq Keys(TagsOfNewUser(r))
  BY <1>1 DEF Keys
<1>3. Keys(read[r]) \ (OwnKeys \cup ReservedKeys) \subseteq Keys(normal)
  BY NormalizedKeys
<1>4. /\ {Tag("spinup:org", Org), Tag("spinup:spaceid", space[r])} \subseteq normal
      /\ \A s : Tag("spinup:spaceid", s) \in normal => s = space[r]
  BY NormalizedGroup
<1> HIDE DEF normal
<1> QED
  BY <1>1, <1>2, <1>3, <1>4 DEF Tag

LEMMA CreateKeepsUsers ==
  ASSUME AccountInv, TagsInv, UsersInv, NEW r \in Requests, CreateStep(r)
  PROVE  UsersInv'
<1> USE DEF UsersInv
<1>1. UNCHANGED <<fsTags, stage, answered, sends, listed, todo>> /\ at \in [Requests -> Preparing \cup Prepared]
  BY DEF CreateStep, updates, AccountInv, AccountTypeOK
<1>2. CASE ReadFilesystem(r)
  <2> read = [q \in Requests |-> read[q]]
    BY DEF TagsInv, TagsTypeOK
  <2>1. /\ UNCHANGED <<userTags, members, space>>
        /\ at[r] = "prepared" /\ at'[r] \in {"user", "refused"}
        /\ \A q \in Requests \ {r} : at'[q] = at[q] /\ read'[q] = read[q]
    BY <1>1, <1>2 DEF ReadFilesystem, Go
  <2>2. UpdatesHold'
    BY <1>1, <2>1 DEF UpdatesHold
  <2>3. UsersHold'
    BY <1>1, <2>1 DEF UsersHold, Existing, SentResourceName
  <2> QED
    BY <2>2, <2>3
<1>3. CASE CreateUser(r)
  <2>1. /\ UNCHANGED <<members, space, read>>
        /\ at[r] = "user" /\ at'[r] \in {"wait", "refused"}
        /\ \A q \in Requests \ {r} : at'[q] = at[q] /\ userTags'[q] = userTags[q]
        /\ userTags'[r] \in {userTags[r], TagsOfNewUser(r)}
    BY <1>1, <1>3 DEF CreateUser, Go, TagsInv, TagsTypeOK
  <2>2. r \notin Existing
    BY <2>1 DEF UsersHold
  <2>3. UpdatesHold'
    BY <1>1, <2>1, <2>2 DEF UpdatesHold, TagsInv, TagsTypeOK
  <2>4. UsersHold'
    BY <1>1, <2>1, <2>2, NewUserTags DEF UsersHold, Existing, SentResourceName
  <2> QED
    BY <2>3, <2>4
<1>4. CASE WaitForUser(r) \/ AddUserToGroup(r)
  <2>1. /\ UNCHANGED <<userTags, space, read>>
        /\ at'[r] \in {"join", "refused", "created"}
        /\ \A q \in Requests \ {r} : at'[q] = at[q]
        /\ members \subseteq members'
        /\ at'[r] = "created" => r \in members'
    BY <1>1, <1>4 DEF WaitForUser, AddUserToGroup, Go, users
  <2>2. UpdatesHold'
    BY <1>1, <2>1 DEF UpdatesHold
  <2>3. UsersHold'
    BY <1>1, <2>1 DEF UsersHold, Existing, SentResourceName
  <2> QED
    BY <2>2, <2>3
<1> QED
  BY <1>2, <1>3, <1>4 DEF CreateStep

(* A user of an update's group that it tags.                               *)
LEMMA TagKeepsUser ==
  ASSUME NEW u \in Updates, NEW old, NEW r, TagsInv, UpdatesHold
  PROVE  LET new == Put(old, Normalized(Org, UserName(r), space[u], sends[u]))
         IN /\ {Tag("spinup:org", Org), Tag("spinup:spaceid", space[u])} \subseteq new
            /\ \A s : Tag("spinup:spaceid", s) \in new => s = space[u]
            /\ Tag("ResourceName", FileSystemName) \in old =>
                  Tag("ResourceName", FileSystemName) \in new \/ SentResourceName
            /\ Keys(old) \cup (Keys(sends[u]) \ OwnKeys) \subseteq Keys(new)
<1> DEFINE sent == Normalized(Org, UserName(r), space[u], sends[u])
           new == Put(old, sent)
<1>1. /\ {Tag("spinup:org", Org), Tag("spinup:spaceid", space[u])} \subseteq new
      /\ \A s : Tag("spinup:spaceid", s) \in new => s = space[u]
  BY PutGroup
<1>2. ASSUME Tag("ResourceName", FileSystemName) \in old, ~SentResourceName
      PROVE  Tag("ResourceName", FileSystemName) \in new
  <2>1. "ResourceName" \notin Keys(sends[u]) \cup OwnKeys
    BY <1>2 DEF SentResourceName, OwnKeys
  <2> QED
    BY <1>2, <2>1, PutKeeps DEF Tag
<1>3. Keys(new) = Keys(old) \cup Keys(sent)
  BY PutKeys
<1>4. Keys(sends[u]) \ OwnKeys \subseteq Keys(sent)
  BY NormalizedKeys DEF UpdatesHold
<1> QED
  BY <1>1, <1>2, <1>3, <1>4

LEMMA UpdateKeepsUsers ==
  ASSUME AccountInv, TagsInv, UsersInv, NEW u \in Updates, UpdateStep(u)
  PROVE  UsersInv'
<1> USE DEF UsersInv
<1>1. UNCHANGED <<at, members, space, read>>
  BY DEF UpdateStep, CheckGroup, Accept, TagFilesystem, ListUsers, TagUsers, users, account,
         local
<1>2. /\ stage \in [Updates -> Stage] /\ listed \in [Updates -> SUBSET Requests]
      /\ sends = [x \in Updates |-> sends[x]] /\ todo \in [Updates -> SUBSET Requests]
      /\ userTags = [q \in Requests |-> userTags[q]]
  BY DEF TagsInv, TagsTypeOK
<1>3. CASE CheckGroup(u) \/ TagFilesystem(u)
  <2>1. /\ UNCHANGED <<userTags, sends, listed, todo>>
        /\ \A x \in Updates \ {u} : stage'[x] = stage[x]
        /\ \/ stage[u] = "request" /\ stage'[u] \in {"accept", "refused"}
           \/ stage[u] = "tag" /\ stage'[u] \in {"list", "failed"}
    <3>1. CASE CheckGroup(u)
      BY <1>2, <3>1 DEF CheckGroup, Advance, users
    <3>2. CASE TagFilesystem(u)
      BY <1>2, <3>2 DEF TagFilesystem, Advance, users
    <3> QED
      BY <1>3, <3>1, <3>2
  <2>2. UpdatesHold'
    BY <1>1, <2>1 DEF UpdatesHold
  <2>3. UsersHold'
    BY <1>1, <2>1 DEF UsersHold, Existing, SentResourceName
  <2> QED
    BY <2>2, <2>3
<1>4. CASE Accept(u)
  <2>1. PICK wish \in Wishes :
            sends' = [sends EXCEPT ![u] = Normalized(Org, FileSystemName, space[u], wish)]
    BY <1>4 DEF Accept
  <2>2. /\ UNCHANGED <<userTags, listed, todo>>
        /\ \A x \in Updates \ {u} : stage'[x] = stage[x] /\ sends'[x] = sends[x]
        /\ stage[u] = "accept" /\ stage'[u] = "tag"
        /\ sends'[u] = Normalized(Org, FileSystemName, space[u], wish)
    BY <1>2, <1>4, <2>1 DEF Accept, Advance, users
  <2>3. Keys(sends'[u]) \cap ReservedKeys = {}
    BY <2>2, NormalizedKeys DEF OwnKeys, ReservedKeys
  <2>4. UpdatesHold'
    BY <1>1, <2>2, <2>3 DEF UpdatesHold
  <2>5. SentResourceName => SentResourceName'
    BY <2>2 DEF UpdatesHold, SentResourceName, Keys
  <2>6. UsersHold'
    BY <1>1, <2>2, <2>5 DEF UsersHold, Existing
  <2> QED
    BY <2>4, <2>6
<1>5. CASE ListUsers(u)
  <2>1. /\ UNCHANGED <<userTags, sends>>
        /\ \A x \in Updates \ {u} :
              stage'[x] = stage[x] /\ listed'[x] = listed[x] /\ todo'[x] = todo[x]
        /\ stage[u] = "list" /\ stage'[u] \in {"users", "silent", "failed"}
        /\ \/ listed'[u] = listed[u] /\ todo'[u] = todo[u]
           \/ listed'[u] = todo'[u] /\ \A r \in listed'[u] : space[r] = space[u]
    <3>1. UNCHANGED <<userTags, sends>>
      BY <1>5 DEF ListUsers, users
    <3>2. CASE UNCHANGED <<listed, todo>>
      BY <1>2, <1>5, <3>1, <3>2 DEF ListUsers, Advance
    <3>3. CASE ~UNCHANGED <<listed, todo>>
      <4> DEFINE found == {r \in Existing : space[r] = space[u]}
      <4>1. /\ Advance(u, "list", "users")
            /\ listed' = [listed EXCEPT ![u] = found] /\ todo' = [todo EXCEPT ![u] = found]
        BY <1>5, <3>3 DEF ListUsers
      <4>2. \A r \in found : space[r] = space[u]
        OBVIOUS
      <4> HIDE DEF found
      <4> QED
        BY <1>2, <3>1, <4>1, <4>2 DEF Advance
    <3> QED
      BY <3>2, <3>3
  <2>2. UpdatesHold'
    BY <1>1, <2>1 DEF UpdatesHold
  <2>3. UsersHold'
    BY <1>1, <2>1 DEF UsersHold, Existing, SentResourceName
  <2> QED
    BY <2>2, <2>3
<1>6. CASE TagUsers(u)
  <2>1. CASE todo[u] = {} /\ Advance(u, "users", "returned") /\ UNCHANGED <<userTags, todo>>
    <3>1. UNCHANGED <<sends, listed>>
      BY <1>6 DEF TagUsers
    <3>2. UpdatesHold'
      BY <1>1, <1>2, <2>1, <3>1 DEF UpdatesHold, Advance
    <3>3. UsersHold'
      BY <1>1, <2>1, <3>1 DEF UsersHold, Existing, SentResourceName
    <3> QED
      BY <3>2, <3>3
  <2>2. ASSUME NEW r \in todo[u], UpdateTagsForUser(u, r), UNCHANGED <<sends, listed>>
        PROVE  UsersInv'
    <3> DEFINE new == Put(userTags[r], Normalized(Org, UserName(r), space[u], sends[u]))
    <3>1. /\ r \in Requests /\ space[r] = space[u] /\ r \in Existing /\ r \in listed[u]
      BY <1>2 DEF UpdatesHold, TagsInv, TagsTypeOK
    <3>2. /\ \A q \in Requests \ {r} : userTags'[q] = userTags[q]
          /\ userTags'[r] \in {userTags[r], new}
          /\ \A x \in Updates \ {u} : stage'[x] = stage[x] /\ todo'[x] = todo[x]
          /\ stage[u] = "users" /\ stage'[u] \in {"users", "failed"}
          /\ \/ userTags'[r] = new /\ todo'[u] = todo[u] \ {r}
             \/ todo'[u] = todo[u]
      BY <1>2, <2>2, <3>1 DEF UpdateTagsForUser, Advance
    <3>3. /\ {Tag("spinup:org", Org), Tag("spinup:spaceid", space[u])} \subseteq new
          /\ \A s : Tag("spinup:spaceid", s) \in new => s = space[u]
          /\ Tag("ResourceName", FileSystemName) \in userTags[r] =>
                Tag("ResourceName", FileSystemName) \in new \/ SentResourceName
          /\ Keys(userTags[r]) \cup (Keys(sends[u]) \ OwnKeys) \subseteq Keys(new)
      BY TagKeepsUser
    <3> HIDE DEF new
    <3>4. \A q \in Requests : Keys(userTags[q]) \subseteq Keys(userTags'[q])
      BY <3>2, <3>3
    <3>5. UpdatesHold'
      <4> SUFFICES ASSUME NEW x \in Updates
                   PROVE  /\ stage'[x] \in {"request", "accept"} => sends[x] = {}
                          /\ stage'[x] \in {"request", "accept", "tag"} => listed[x] = {}
                          /\ stage'[x] = "returned" => todo'[x] = {}
                          /\ Keys(sends[x]) \cap ReservedKeys = {}
                          /\ \A q \in listed[x] :
                                /\ space[q] = space[x]
                                /\ q \notin todo'[x] =>
                                      Keys(sends[x]) \ OwnKeys \subseteq Keys(userTags'[q])
        BY <1>1, <2>2 DEF UpdatesHold
      <4>1. ASSUME NEW q \in listed[x], q \notin todo'[x]
            PROVE  Keys(sends[x]) \ OwnKeys \subseteq Keys(userTags'[q])
        <5>1. CASE q \notin todo[x]
          BY <1>2, <3>4, <4>1, <5>1 DEF UpdatesHold
        <5>2. CASE q \in todo[x]
          <6>1. x = u /\ q = r /\ userTags'[r] = new
            BY <3>2, <4>1, <5>2
          <6> QED
            BY <3>3, <6>1
        <5> QED
          BY <5>1, <5>2
      <4> QED
        BY <3>2, <4>1 DEF UpdatesHold
    <3>6. UsersHold'
      <4>1. ASSUME NEW q \in Requests, q \in Existing'
            PROVE  /\ {Tag("spinup:org", Org), Tag("spinup:spaceid", space[q])} \subseteq userTags'[q]
                   /\ \A s \in Spaces : Tag("spinup:spaceid", s) \in userTags'[q] => s = space[q]
                   /\ Tag("ResourceName", FileSystemName) \in userTags'[q] \/ SentResourceName
                   /\ Keys(read[q]) \ (OwnKeys \cup ReservedKeys) \subseteq Keys(userTags'[q])
        <5>1. q \in Existing
          BY <3>1, <3>2, <4>1 DEF Existing
        <5>2. CASE userTags'[q] = userTags[q]
          BY <5>1, <5>2 DEF UsersHold
        <5>3. CASE q = r /\ userTags'[q] = new
          BY <3>1, <3>3, <3>4, <5>1, <5>3 DEF UsersHold
        <5> QED
          BY <3>2, <5>2, <5>3
      <4>2. \A q \in Requests : q \in Existing' => q \in Existing
        BY <3>1, <3>2 DEF Existing
      <4> QED
        BY <1>1, <2>2, <4>1, <4>2 DEF UsersHold, SentResourceName
    <3> QED
      BY <3>5, <3>6
  <2> QED
    BY <1>6, <2>1, <2>2 DEF TagUsers
<1> QED
  BY <1>3, <1>4, <1>5, <1>6 DEF UpdateStep

LEMMA UsersStep == AccountInv /\ TagsInv /\ UsersInv /\ [Next]_vars => UsersInv'
<1>1. UNCHANGED vars /\ UsersInv => UsersInv'
  BY DEF vars, account, local, users, updates, UsersInv, UsersHold, UpdatesHold, Existing,
         SentResourceName
<1> QED
  BY <1>1, PreparationKeepsUsers, CreateKeepsUsers, UpdateKeepsUsers DEF Next

-----------------------------------------------------------------------------
(* The invariant holds in every reachable state.                           *)
THEOREM Invariance == Spec => []IInv
<1>1. AccountInv /\ TagsInv /\ UsersInv => IInv
  BY DEF AccountInv, TagsInv, TagsTypeOK, UsersInv, IInv, TypeOK
<1>2. Init => UsersInv
  BY DEF Init, AccountInit, UsersInv, UsersHold, UpdatesHold, Existing, Keys
<1> QED
  BY <1>1, <1>2, InitIInv, NextIInv, UsersStep, PTL DEF Spec

(* A request that leaves prepareAccount without an error leaves the group  *)
(* with a policy that one of the servers wants.                            *)
THEOREM PreparationGrants == Spec => []PreparedMeansGranted
<1>1. IInv => PreparedMeansGranted
  BY DEF IInv, StepsHold, PreparedMeansGranted
<1> QED
  BY <1>1, Invariance, PTL

(* On an account that is prepared, with servers that want the same,        *)
(* preparing it again changes nothing, whoever else is still at it.        *)
THEOREM PreparationIsIdempotent == Spec => []PreparedOnce
<1>1. IInv => PreparedOnce
  BY DEF IInv
<1> QED
  BY <1>1, Invariance, PTL

(* No tags take a filesystem out of its group, unless the check for the    *)
(* group failed.                                                           *)
THEOREM TagsKeepGroup == Spec => []GroupKept
<1>1. IInv => GroupKept
  BY DEF IInv
<1> QED
  BY <1>1, Invariance, PTL

(* A user whose creation was answered 200 is let in exactly if it was      *)
(* created for the group the filesystem is in.                             *)
THEOREM CreatedUsersMount == Spec => []CreatedMayMount
<1>1. IInv => CreatedMayMount
  <2> SUFFICES ASSUME IInv, ~SentResourceName, NEW r \in Existing, at[r] = "created"
               PROVE  MayMount(r) <=> Tag("spinup:spaceid", space[r]) \in fsTags
    BY DEF CreatedMayMount
  <2>1. r \in Requests /\ r \in members /\ \E s \in Servers : Granted(wants[s])
    BY DEF IInv, UsersHold, StepsHold, Existing
  <2>2. /\ {Tag("ResourceName", FileSystemName), Tag("spinup:org", Org),
            Tag("spinup:spaceid", space[r])} \subseteq userTags[r]
        /\ \A s \in Spaces : Tag("spinup:spaceid", s) \in userTags[r] => s = space[r]
    BY <2>1 DEF IInv, UsersHold
  <2>3. space[r] \in Spaces
    BY <2>1 DEF IInv, TypeOK
  <2>4. {Tag("Name", FileSystemName), Tag("spinup:org", Org)} \subseteq fsTags
    BY DEF IInv, GroupKept
  <2>5. FileSystemName \in {t.value : t \in fsTags}
    BY <2>4 DEF Tag
  <2>6. TagsMatch(r) <=> Tag("spinup:spaceid", space[r]) \in fsTags
    BY <2>2, <2>3, <2>4, <2>5 DEF TagsMatch
  <2> QED
    BY <2>1, <2>6 DEF MayMount
<1> QED
  BY <1>1, Invariance, PTL

(* An update that ran to its end has tagged the users of its group, but    *)
(* for those whose creation read the filesystem too early for it and was   *)
(* not finished when the users were listed.                                *)
THEOREM UpdatesReachUsers == Spec => []MissedOnlyIfUnfinished
<1>1. IInv => MissedOnlyIfUnfinished
  <2> SUFFICES ASSUME IInv, NEW u \in Updates, NEW r \in Existing, stage[u] = "returned",
                      space[r] = space[u], NEW t \in sends[u], t.key \notin OwnKeys
               PROVE  \/ t.key \in Keys(userTags[r])
                      \/ r \notin listed[u] /\ t.key \notin Keys(read[r])
    BY DEF MissedOnlyIfUnfinished
  <2>1. r \in Requests /\ t.key \in Keys(sends[u]) \ (OwnKeys \cup ReservedKeys)
    BY DEF IInv, UpdatesHold, Keys, Existing
  <2>2. CASE r \in listed[u]
    BY <2>1, <2>2 DEF IInv, UpdatesHold
  <2>3. CASE t.key \in Keys(read[r])
    BY <2>1, <2>3 DEF IInv, UsersHold
  <2> QED
    BY <2>2, <2>3
<1> QED
  BY <1>1, Invariance, PTL
=============================================================================
