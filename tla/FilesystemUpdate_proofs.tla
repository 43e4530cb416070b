----------------------- MODULE FilesystemUpdate_proofs -----------------------
(***************************************************************************)
(* Proofs about FilesystemUpdate, for any number of concurrent updates and *)
(* of users, and whatever the updates ask for.                             *)
(***************************************************************************)
EXTENDS FilesystemUpdate, AccessPolicy, TLAPS

USE UnsetAssumption, FaultyAssumption, WishesAssumption

(* Nothing is set and no update has begun. *)
LEMMA InitIInv == Init => IInv
<1> SUFFICES ASSUME Init PROVE IInv
  OBVIOUS
<1> USE DEF Init, Task!Init
<1>1. TypeOK
  BY DEF TypeOK, Place, Values, Task!TypeOK, Task!Status, Task!Outcome
<1>2. PassedIsMade /\ UsersFollow /\ TasksTell /\ AppliedInOrder
  BY DEF PassedIsMade, Passed, UsersFollow, TasksTell, AppliedInOrder, Settings
<1>3. OneWishIntact
  BY DEF OneWishIntact, RulesMade
<1> QED
  BY <1>1, <1>2, <1>3 DEF IInv

-----------------------------------------------------------------------------
(* What all steps of an update on the settings have in common.             *)

(* A setting that was made stays made, by the update or as it was. *)
Keeps(r) == \A s \in Settings \ Rules : value'[s] \in {value[s], r}

(* An update gets past a setting only when it is made. *)
LEMMA MadeStays ==
  ASSUME IInv, NEW r \in Updates, NEW to \in Place,
         at' = [at EXCEPT ![r] = to], asks' = asks, Keeps(r),
         \A s \in asks[r] \ Rules : Passed(r, s)' => value'[s] # Unset,
         to \in {"session", "users"} => "tags" \in asks[r],
         value'["tags"] # value["tags"] => "tags" \in asks[r]
  PROVE  PassedIsMade'
<1> SUFFICES ASSUME NEW q \in Updates
             PROVE  /\ \A s \in asks[q] \ Rules : Passed(q, s)' => value'[s] # Unset
                    /\ at'[q] \in {"session", "users"} => "tags" \in asks[q]
                    /\ value'["tags"] = q => "tags" \in asks[q]
  BY DEF PassedIsMade, Passed
<1> USE DEF IInv, TypeOK, PassedIsMade
<1>1. asks[q] \in SUBSET Settings /\ "tags" \in Settings \ Rules
  BY DEF Settings, Rules
<1>2. q # r => at'[q] = at[q]
  OBVIOUS
<1>3. at'[r] = to
  OBVIOUS
<1>4. ASSUME NEW s \in asks[q] \ Rules, Passed(q, s)' PROVE value'[s] # Unset
  <2>1. CASE q = r
    BY <2>1, <1>4
  <2>2. CASE q # r
    <3>1. Passed(q, s)
      BY <2>2, <1>2, <1>4 DEF Passed
    <3> QED
      BY <3>1, <1>1 DEF Keeps
  <2> QED
    BY <2>1, <2>2
<1>5. at'[q] \in {"session", "users"} => "tags" \in asks[q]
  BY <1>2, <1>3
<1>6. value'["tags"] = q => "tags" \in asks[q]
  BY <1>1 DEF Keeps
<1> QED
  BY <1>4, <1>5, <1>6

(* The order of the settings is kept if what the update sets comes after   *)
(* what it has made.                                                       *)
LEMMA OrderStays ==
  ASSUME IInv, NEW r \in Updates, asks' = asks, userTags' = userTags, Keeps(r),
         value'["tags"] # value["tags"] => \A s \in asks[r] \ Rules : value'[s] # Unset,
         value'["policy"] # value["policy"] /\ "backup" \in asks[r] => value'["backup"] # Unset
  PROVE  AppliedInOrder'
<1> SUFFICES ASSUME NEW q \in Updates
             PROVE  /\ \A u \in Users : userTags[u] = q => value'["tags"] # Unset
                    /\ value'["tags"] = q => \A s \in asks[q] \ Rules : value'[s] # Unset
                    /\ value'["policy"] = q /\ "backup" \in asks[q] => value'["backup"] # Unset
  BY DEF AppliedInOrder
<1> USE DEF IInv, TypeOK, AppliedInOrder, Keeps
<1>1. asks[q] \in SUBSET Settings /\ {"tags", "policy", "backup"} \subseteq Settings \ Rules
  BY DEF Settings, Rules
<1>2. \A s \in Settings \ Rules : value[s] # Unset => value'[s] # Unset
  OBVIOUS
<1>3. \A u \in Users : userTags[u] = q => value'["tags"] # Unset
  BY <1>1, <1>2
<1>4. value'["tags"] = q => \A s \in asks[q] \ Rules : value'[s] # Unset
  BY <1>1, <1>2
<1>5. value'["policy"] = q /\ "backup" \in asks[q] => value'["backup"] # Unset
  BY <1>1, <1>2
<1> QED
  BY <1>3, <1>4, <1>5

(* Nothing happens to the rules as long as nobody sets them. *)
LEMMA WishStays ==
  ASSUME IInv, NEW r \in Updates, NEW to \in Place,
         at' = [at EXCEPT ![r] = to], asks' = asks,
         \A s \in Rules : value'[s] = value[s],
         RulesMade(r)' => RulesMade(r), RulesTried(r) => RulesTried(r)'
  PROVE  OneWishIntact'
<1> USE DEF IInv, TypeOK
<1>1. ASSUME NEW q \in Updates \ {r} PROVE (RulesMade(q)' <=> RulesMade(q)) /\ (RulesTried(q)' <=> RulesTried(q))
  BY DEF RulesMade, RulesTried, AsksRules
<1>2. (\E q \in Updates : RulesMade(q)') => \E q \in Updates : RulesMade(q)
  BY <1>1
<1>3. \A q \in Updates : RulesTried(q) => RulesTried(q)'
  BY <1>1
<1> QED
  BY <1>2, <1>3 DEF OneWishIntact

-----------------------------------------------------------------------------
(* The steps.                                                              *)

(* What an update looks up is what there is. *)
LEMMA AcceptIInv ==
  ASSUME IInv, NEW r \in Updates, Accept(r)
  PROVE  IInv'
<1> USE DEF IInv, Accept, Advance, AsksRules, shared, tasks, local
<1>1. TypeOK'
  BY DEF TypeOK, Place, Values, Settings, Rules, Task!TypeOK, Task!Status, Task!Outcome, Task!Truth
<1>2. PassedIsMade'
  BY DEF TypeOK, PassedIsMade, Passed, Settings, Rules, Values
<1>3. UsersFollow'
  BY DEF TypeOK, PassedIsMade, UsersFollow, Passed, Values, Rules, Settings
<1>4. TasksTell'
  BY DEF TypeOK, TasksTell, Task!TypeOK, Task!Outcome, Task!Truth
<1>5. AppliedInOrder'
  BY DEF TypeOK, AppliedInOrder, PassedIsMade, UsersFollow, Passed, Settings, Rules, Values
<1>6. OneWishIntact'
  BY DEF TypeOK, OneWishIntact, RulesMade, RulesTried, AsksRules
<1> QED
  BY <1>1, <1>2, <1>3, <1>4, <1>5, <1>6

(* An update that is refused has not begun. *)
LEMMA RefuseIInv ==
  ASSUME IInv, NEW r \in Updates, Refuse(r)
  PROVE  IInv'
<1> USE DEF IInv, Refuse, Skip, Continue, Advance, shared, tasks, local
<1>1. TypeOK'
  BY DEF TypeOK, Place, Values, Settings, Rules, Task!TypeOK, Task!Status, Task!Outcome, Task!Truth
<1>2. PassedIsMade'
  BY DEF TypeOK, PassedIsMade, Passed, Settings, Rules, Values
<1>3. UsersFollow'
  BY DEF TypeOK, PassedIsMade, UsersFollow, Passed, Values, Rules, Settings
<1>4. TasksTell'
  BY DEF TypeOK, TasksTell, Task!TypeOK, Task!Outcome, Task!Truth
<1>5. AppliedInOrder'
  BY DEF TypeOK, AppliedInOrder, PassedIsMade, UsersFollow, Passed, Settings, Rules, Values
<1>6. OneWishIntact'
  BY DEF TypeOK, OneWishIntact, RulesMade, RulesTried, AsksRules
<1> QED
  BY <1>1, <1>2, <1>3, <1>4, <1>5, <1>6

(* The backup policy is the first setting. *)
LEMMA SetBackupIInv ==
  ASSUME IInv, NEW r \in Updates, SetBackup(r)
  PROVE  IInv'
<1> USE DEF IInv, SetBackup, SetTo, Call, Skip, Continue, Return, Advance, Task!HandOver, shared, tasks, local
<1>1. TypeOK'
  BY DEF TypeOK, Place, Values, Settings, Rules, Task!TypeOK, Task!Status, Task!Outcome, Task!Truth
<1>2. Keeps(r)
  BY DEF TypeOK, Keeps, Settings, Rules
<1>3. PICK to \in Place : at' = [at EXCEPT ![r] = to]
  BY DEF TypeOK, Place
<1>4. PassedIsMade'
  <2>1. \A s \in asks[r] \ Rules : Passed(r, s)' => value'[s] # Unset
    BY DEF TypeOK, PassedIsMade, Passed, Settings, Rules
  <2>2. to \in {"session", "users"} => "tags" \in asks[r]
    BY <1>3 DEF TypeOK
  <2>3. value'["tags"] # value["tags"] => "tags" \in asks[r]
    BY DEF TypeOK, Settings, Rules
  <2> QED
    BY <1>2, <1>3, <2>1, <2>2, <2>3, MadeStays
<1>5. UsersFollow'
  BY DEF TypeOK, PassedIsMade, UsersFollow, Passed, Values, Rules, Settings
<1>6. TasksTell'
  BY DEF TypeOK, TasksTell, Task!TypeOK, Task!Outcome, Task!Truth
<1>7. AppliedInOrder'
  <2>1. value'["tags"] # value["tags"] => \A s \in asks[r] \ Rules : value'[s] # Unset
    BY DEF TypeOK, PassedIsMade, Passed, Settings, Rules
  <2>2. value'["policy"] # value["policy"] /\ "backup" \in asks[r] => value'["backup"] # Unset
    BY DEF TypeOK, PassedIsMade, Passed, Settings, Rules
  <2> QED
    BY <1>2, <2>1, <2>2, OrderStays
<1>8. OneWishIntact'
  <2>1. \A s \in Rules : value'[s] = value[s]
    BY DEF TypeOK, Settings, Rules
  <2>2. (RulesMade(r)' => RulesMade(r)) /\ (RulesTried(r) => RulesTried(r)')
    BY DEF TypeOK, RulesMade, RulesTried, AsksRules
  <2> QED
    BY <1>3, <2>1, <2>2, WishStays
<1> QED
  BY <1>1, <1>4, <1>5, <1>6, <1>7, <1>8

(* Both rules are set by one call. *)
LEMMA SetLifecycleIInv ==
  ASSUME IInv, NEW r \in Updates, SetLifecycle(r)
  PROVE  IInv'
<1> USE DEF IInv, SetLifecycle, SetRules, AsksRules, Call, Skip, Continue, Return, Advance, Task!HandOver, shared, tasks, local
<1>1. TypeOK'
  BY DEF TypeOK, Place, Values, Settings, Rules, Task!TypeOK, Task!Status, Task!Outcome, Task!Truth
<1>2. Keeps(r)
  BY DEF TypeOK, Keeps, Settings, Rules
<1>3. PICK to \in Place : at' = [at EXCEPT ![r] = to]
  BY DEF TypeOK, Place
<1>4. PassedIsMade'
  <2>1. \A s \in asks[r] \ Rules : Passed(r, s)' => value'[s] # Unset
    BY DEF TypeOK, PassedIsMade, Passed, Settings, Rules
  <2>2. to \in {"session", "users"} => "tags" \in asks[r]
    BY <1>3 DEF TypeOK
  <2>3. value'["tags"] # value["tags"] => "tags" \in asks[r]
    BY DEF TypeOK, Settings, Rules
  <2> QED
    BY <1>2, <1>3, <2>1, <2>2, <2>3, MadeStays
<1>5. UsersFollow'
  BY DEF TypeOK, PassedIsMade, UsersFollow, Passed, Values, Rules, Settings
<1>6. TasksTell'
  BY DEF TypeOK, TasksTell, Task!TypeOK, Task!Outcome, Task!Truth
<1>7. AppliedInOrder'
  <2>1. value'["tags"] # value["tags"] => \A s \in asks[r] \ Rules : value'[s] # Unset
    BY DEF TypeOK, PassedIsMade, Passed, Settings, Rules
  <2>2. value'["policy"] # value["policy"] /\ "backup" \in asks[r] => value'["backup"] # Unset
    BY DEF TypeOK, PassedIsMade, Passed, Settings, Rules
  <2> QED
    BY <1>2, <2>1, <2>2, OrderStays
<1>8. OneWishIntact'
  <2>1. CASE AsksRules(r) /\ SetRules(r)
    <3>1. RulesTried(r)'
      BY <2>1 DEF TypeOK, RulesMade, RulesTried
    <3>2. \A s \in asks'[r] \cap Rules : value'[s] = r
      BY <2>1 DEF TypeOK, Settings
    <3> QED
      BY <3>1, <3>2 DEF OneWishIntact
  <2>2. CASE ~(AsksRules(r) /\ SetRules(r))
    <3>1. UNCHANGED shared
      BY <2>2
    <3>2. at'[r] = "failed" \/ ~AsksRules(r)
      BY <2>2 DEF TypeOK
    <3>3. (RulesMade(r)' => RulesMade(r)) /\ (RulesTried(r) => RulesTried(r)')
      BY <3>2 DEF TypeOK, RulesMade, RulesTried
    <3> QED
      BY <1>3, <3>1, <3>3, WishStays
  <2> QED
    BY <2>1, <2>2
<1> QED
  BY <1>1, <1>4, <1>5, <1>6, <1>7, <1>8

(* The access policy comes after them. *)
LEMMA SetPolicyIInv ==
  ASSUME IInv, NEW r \in Updates, SetPolicy(r)
  PROVE  IInv'
<1> USE DEF IInv, SetPolicy, SetTo, Call, Skip, Continue, Return, Advance, Task!HandOver, shared, tasks, local
<1>1. TypeOK'
  BY DEF TypeOK, Place, Values, Settings, Rules, Task!TypeOK, Task!Status, Task!Outcome, Task!Truth
<1>2. Keeps(r)
  BY DEF TypeOK, Keeps, Settings, Rules
<1>3. PICK to \in Place : at' = [at EXCEPT ![r] = to]
  BY DEF TypeOK, Place
<1>4. PassedIsMade'
  <2>1. \A s \in asks[r] \ Rules : Passed(r, s)' => value'[s] # Unset
    BY DEF TypeOK, PassedIsMade, Passed, Settings, Rules
  <2>2. to \in {"session", "users"} => "tags" \in asks[r]
    BY <1>3 DEF TypeOK
  <2>3. value'["tags"] # value["tags"] => "tags" \in asks[r]
    BY DEF TypeOK, Settings, Rules
  <2> QED
    BY <1>2, <1>3, <2>1, <2>2, <2>3, MadeStays
<1>5. UsersFollow'
  BY DEF TypeOK, PassedIsMade, UsersFollow, Passed, Values, Rules, Settings
<1>6. TasksTell'
  BY DEF TypeOK, TasksTell, Task!TypeOK, Task!Outcome, Task!Truth
<1>7. AppliedInOrder'
  <2>1. value'["tags"] # value["tags"] => \A s \in asks[r] \ Rules : value'[s] # Unset
    BY DEF TypeOK, PassedIsMade, Passed, Settings, Rules
  <2>2. value'["policy"] # value["policy"] /\ "backup" \in asks[r] => value'["backup"] # Unset
    BY DEF TypeOK, PassedIsMade, Passed, Settings, Rules
  <2> QED
    BY <1>2, <2>1, <2>2, OrderStays
<1>8. OneWishIntact'
  <2>1. \A s \in Rules : value'[s] = value[s]
    BY DEF TypeOK, Settings, Rules
  <2>2. (RulesMade(r)' => RulesMade(r)) /\ (RulesTried(r) => RulesTried(r)')
    BY DEF TypeOK, RulesMade, RulesTried, AsksRules
  <2> QED
    BY <1>3, <2>1, <2>2, WishStays
<1> QED
  BY <1>1, <1>4, <1>5, <1>6, <1>7, <1>8

(* The tags come last, or the update is over. *)
LEMMA TagFilesystemIInv ==
  ASSUME IInv, NEW r \in Updates, TagFilesystem(r)
  PROVE  IInv'
<1> USE DEF IInv, TagFilesystem, SetTo, Call, Skip, Continue, Return, Advance, Task!HandOver, shared, tasks, local
<1>1. TypeOK'
  BY DEF TypeOK, Place, Values, Settings, Rules, Task!TypeOK, Task!Status, Task!Outcome, Task!Truth
<1>2. Keeps(r)
  BY DEF TypeOK, Keeps, Settings, Rules
<1>3. PICK to \in Place : at' = [at EXCEPT ![r] = to]
  BY DEF TypeOK, Place
<1>4. PassedIsMade'
  <2>1. \A s \in asks[r] \ Rules : Passed(r, s)' => value'[s] # Unset
    BY DEF TypeOK, PassedIsMade, Passed, Settings, Rules
  <2>2. to \in {"session", "users"} => "tags" \in asks[r]
    BY <1>3 DEF TypeOK
  <2>3. value'["tags"] # value["tags"] => "tags" \in asks[r]
    BY DEF TypeOK, Settings, Rules
  <2> QED
    BY <1>2, <1>3, <2>1, <2>2, <2>3, MadeStays
<1>5. UsersFollow'
  BY DEF TypeOK, PassedIsMade, UsersFollow, Passed, Values, Rules, Settings
<1>6. TasksTell'
  BY DEF TypeOK, TasksTell, Task!TypeOK, Task!Outcome, Task!Truth
<1>7. AppliedInOrder'
  <2>1. value'["tags"] # value["tags"] => \A s \in asks[r] \ Rules : value'[s] # Unset
    BY DEF TypeOK, PassedIsMade, Passed, Settings, Rules
  <2>2. value'["policy"] # value["policy"] /\ "backup" \in asks[r] => value'["backup"] # Unset
    BY DEF TypeOK, PassedIsMade, Passed, Settings, Rules
  <2> QED
    BY <1>2, <2>1, <2>2, OrderStays
<1>8. OneWishIntact'
  <2>1. \A s \in Rules : value'[s] = value[s]
    BY DEF TypeOK, Settings, Rules
  <2>2. (RulesMade(r)' => RulesMade(r)) /\ (RulesTried(r) => RulesTried(r)')
    BY DEF TypeOK, RulesMade, RulesTried, AsksRules
  <2> QED
    BY <1>3, <2>1, <2>2, WishStays
<1> QED
  BY <1>1, <1>4, <1>5, <1>6, <1>7, <1>8

(* No user is tagged before they are listed. *)
LEMMA ListUsersIInv ==
  ASSUME IInv, NEW r \in Updates, ListUsers(r)
  PROVE  IInv'
<1> USE DEF IInv, ListUsers, Return, Advance, Task!HandOver, shared, tasks, local
<1>1. TypeOK'
  <2>1. todo' \in [Updates -> SUBSET Users]
    BY DEF TypeOK
  <2>2. at' \in [Updates -> Place]
    BY DEF TypeOK, Place
  <2>3. Task!TypeOK'
    BY DEF TypeOK, Task!TypeOK, Task!Outcome
  <2> QED
    BY <2>1, <2>2, <2>3 DEF TypeOK
<1>2. PassedIsMade'
  <2>1. PICK to \in {"users", "returned", "failed"} : at' = [at EXCEPT ![r] = to]
    BY DEF TypeOK
  <2>2. \A s \in asks[r] \ Rules : Passed(r, s)' => value'[s] # Unset
    BY DEF TypeOK, PassedIsMade, Passed
  <2>3. to \in {"session", "users"} => "tags" \in asks[r]
    BY <2>1 DEF TypeOK, PassedIsMade
  <2>4. Keeps(r) /\ to \in Place
    BY <2>1 DEF Keeps, Place
  <2> QED
    BY <2>1, <2>2, <2>3, <2>4, MadeStays
<1>3. UsersFollow'
  BY DEF TypeOK, PassedIsMade, UsersFollow, Passed, Values, Rules, Settings
<1>4. TasksTell'
  BY DEF TypeOK, TasksTell, Task!TypeOK, Task!Outcome, Task!Truth
<1>5. AppliedInOrder'
  BY DEF TypeOK, AppliedInOrder, PassedIsMade, UsersFollow, Passed, Settings, Rules, Values
<1>6. OneWishIntact'
  BY DEF TypeOK, OneWishIntact, RulesMade, RulesTried, AsksRules
<1> QED
  BY <1>1, <1>2, <1>3, <1>4, <1>5, <1>6

(* Each of the users that were listed is tagged. *)
LEMMA TagUserIInv ==
  ASSUME IInv, NEW r \in Updates, TagUser(r)
  PROVE  IInv'
<1> USE DEF IInv, TagUser, Return, Advance, Task!HandOver, shared, tasks, local
<1>1. TypeOK'
  BY DEF TypeOK, Place, Values, Settings, Rules, Task!TypeOK, Task!Status, Task!Outcome, Task!Truth
<1>2. PassedIsMade'
  <2>1. PICK to \in {"users", "returned", "failed"} : at' = [at EXCEPT ![r] = to]
    BY DEF TypeOK
  <2>2. \A s \in asks[r] \ Rules : Passed(r, s)' => value'[s] # Unset
    BY DEF TypeOK, PassedIsMade, Passed
  <2>3. to \in {"session", "users"} => "tags" \in asks[r]
    BY <2>1 DEF TypeOK, PassedIsMade
  <2>4. Keeps(r) /\ to \in Place
    BY <2>1 DEF Keeps, Place
  <2> QED
    BY <2>1, <2>2, <2>3, <2>4, MadeStays
<1>3. UsersFollow'
  BY DEF TypeOK, PassedIsMade, UsersFollow, Passed, Values, Rules, Settings
<1>4. TasksTell'
  BY DEF TypeOK, TasksTell, Task!TypeOK, Task!Outcome, Task!Truth
<1>5. AppliedInOrder'
  BY DEF TypeOK, AppliedInOrder, PassedIsMade, UsersFollow, Passed, Settings, Rules, Values
<1>6. OneWishIntact'
  BY DEF TypeOK, OneWishIntact, RulesMade, RulesTried, AsksRules
<1> QED
  BY <1>1, <1>2, <1>3, <1>4, <1>5, <1>6

(* The tracker writes what it was told. *)
LEMMA TrackTaskIInv ==
  ASSUME IInv, NEW r \in Updates, TrackTask(r)
  PROVE  IInv'
<1> USE DEF IInv, TrackTask, Task!Start, Task!Record, Task!Final, shared, tasks, local
<1>1. TypeOK'
  BY DEF TypeOK, Place, Values, Settings, Rules, Task!TypeOK, Task!Status, Task!Outcome, Task!Truth
<1>2. PassedIsMade'
  BY DEF TypeOK, PassedIsMade, Passed, Settings, Rules, Values
<1>3. UsersFollow'
  BY DEF TypeOK, PassedIsMade, UsersFollow, Passed, Values, Rules, Settings
<1>4. TasksTell'
  BY DEF TypeOK, TasksTell, Task!TypeOK, Task!Outcome, Task!Truth
<1>5. AppliedInOrder'
  BY DEF TypeOK, AppliedInOrder, PassedIsMade, UsersFollow, Passed, Settings, Rules, Values
<1>6. OneWishIntact'
  BY DEF TypeOK, OneWishIntact, RulesMade, RulesTried, AsksRules
<1> QED
  BY <1>1, <1>2, <1>3, <1>4, <1>5, <1>6

(* Every step of every update, and of its tracker, preserves the invariant. *)
LEMMA NextIInv == IInv /\ [Next]_vars => IInv'
<1> SUFFICES ASSUME IInv, [Next]_vars PROVE IInv'
  OBVIOUS
<1>1. CASE UNCHANGED vars
  <2> USE <1>1 DEF vars, shared, local, tasks, IInv
  <2>1. TypeOK' /\ TasksTell'
    BY DEF TypeOK, Task!TypeOK, TasksTell
  <2>2. PassedIsMade' /\ UsersFollow' /\ AppliedInOrder'
    BY DEF PassedIsMade, Passed, UsersFollow, AppliedInOrder
  <2>3. OneWishIntact'
    BY DEF OneWishIntact, RulesMade, RulesTried, AsksRules
  <2> QED
    BY <2>1, <2>2, <2>3
<1>2. CASE Next
  BY <1>2, AcceptIInv, RefuseIInv, SetBackupIInv, SetLifecycleIInv, SetPolicyIInv,
     TagFilesystemIInv, ListUsersIInv, TagUserIInv, TrackTaskIInv DEF Next, UpdateStep
<1> QED
  BY <1>1, <1>2

(* IInv holds in every reachable state. *)
THEOREM Invariance == Spec => []IInv
  BY InitIInv, NextIInv, PTL DEF Spec

(* Whatever fails, an update gets no further than its first error.         *)
THEOREM UpdatesStopAtErrors == Spec => []AppliedInOrder
<1>1. IInv => AppliedInOrder
  BY DEF IInv
<1> QED
  BY <1>1, Invariance, PTL

(* A completed update has tagged the filesystem, and its users or none.    *)
THEOREM CompletedTags == Spec => []CompletedMeansTagged
<1>1. ASSUME IInv, NEW r \in Updates, status[r] = "completed", "tags" \in asks[r]
      PROVE  /\ value["tags"] # Unset
             /\ (\A u \in Users : userTags[u] # Unset) \/ (\A u \in Users : userTags[u] # r)
             /\ (\A q \in Updates \ {r} : "tags" \notin asks[q]) => value["tags"] = r
  <2>1. at[r] = "returned"
    BY <1>1 DEF IInv, TasksTell
  <2>2. value["tags"] \in Values
    BY <1>1 DEF IInv, TypeOK, Settings
  <2> QED
    BY <1>1, <2>1, <2>2 DEF IInv, UsersFollow, PassedIsMade, Values
<1>2. IInv => CompletedMeansTagged
  BY <1>1 DEF CompletedMeansTagged
<1> QED
  BY <1>2, Invariance, PTL

(* However many updates race for the lifecycle rules, one gets its wish.   *)
THEOREM RulesAreOneWish == Spec => []OneWishIntact
<1>1. IInv => OneWishIntact
  BY DEF IInv
<1> QED
  BY <1>1, Invariance, PTL

-----------------------------------------------------------------------------
(* What the clients that poll the tasks of updates are told.               *)
(* An update that is not at its end has not concluded, so none concludes   *)
(* twice: nothing in its actions looks.                                    *)
LEMMA TaskStep == TasksTell /\ TypeOK /\ [Next]_vars => [Task!Next]_(Task!vars)
<1> SUFFICES ASSUME TasksTell, TypeOK, [Next]_vars PROVE [Task!Next]_(Task!vars)
  OBVIOUS
<1> USE DEF Task!Next, Task!vars, tasks
<1>1. ASSUME NEW r \in Updates, UpdateStep(r)
      PROVE  UNCHANGED tasks \/ Task!Conclude(r, "ok") \/ Task!Conclude(r, "error")
  <2> USE DEF Continue
  <2> DEFINE End == {"returned", "failed"}
  <2>0. ASSUME NEW from, NEW to, NEW o, Return(r, from, to, o), from \notin End
        PROVE  Task!Conclude(r, o)
    <3>1. at[r] = from /\ Task!HandOver(r, o)
      BY <2>0 DEF Return, Advance
    <3>2. outcome[r] = "pending"
      BY <2>0, <3>1 DEF TasksTell, TypeOK, Task!TypeOK, Task!Outcome
    <3> QED
      BY <3>1, <3>2 DEF Task!Conclude
  <2>1. \A from, to, effect : Call(r, from, to, effect) /\ from \notin End =>
            UNCHANGED tasks \/ Task!Conclude(r, "error")
    BY <2>0 DEF Call
  <2>2. \A from, to : Skip(r, from, to) => UNCHANGED tasks
    BY DEF Skip
  <2>3. CASE Accept(r) \/ Refuse(r)
    BY <2>2, <2>3 DEF Accept, Refuse
  <2>4. CASE SetBackup(r) \/ SetLifecycle(r) \/ SetPolicy(r)
    BY <2>1, <2>2, <2>4 DEF SetBackup, SetLifecycle, SetPolicy
  <2>5. CASE TagFilesystem(r)
    BY <2>0, <2>1, <2>5 DEF TagFilesystem
  <2>6. CASE ListUsers(r)
    BY <2>0, <2>6 DEF ListUsers
  <2>7. CASE TagUser(r)
    BY <2>0, <2>7 DEF TagUser
  <2> QED
    BY <1>1, <2>3, <2>4, <2>5, <2>6, <2>7 DEF UpdateStep
<1>2. ASSUME NEW r \in Updates, TrackTask(r) PROVE Task!Next
  BY <1>2 DEF TrackTask
<1>3. UNCHANGED vars => UNCHANGED tasks
  BY DEF vars
<1> QED
  BY <1>1, <1>2, <1>3 DEF Next

(* Every task of an update keeps FlywheelTask's promise.  Nothing in the   *)
(* actions of an update keeps it from handing over a second outcome, over  *)
(* one the tracker has recorded; its control flow does.                    *)
THEOREM TasksKeepPromise == Spec => Task!Spec
<1>1. Init => Task!Init
  BY DEF Init
<1>2. IInv => TasksTell /\ TypeOK
  BY DEF IInv
<1> QED
  BY <1>1, <1>2, TaskStep, Invariance, PTL DEF Spec, Task!Spec

(* A final status says how the update ended, and that it has.              *)
THEOREM StatusTellsEnd ==
  Spec => []\A r \in Updates : /\ status[r] = "completed" => at[r] = "returned"
                             /\ status[r] = "failed" => at[r] = "failed"
<1>1. IInv => \A r \in Updates : /\ status[r] = "completed" => at[r] = "returned"
                                /\ status[r] = "failed" => at[r] = "failed"
  BY DEF IInv, TasksTell
<1> QED
  BY <1>1, Invariance, PTL

-----------------------------------------------------------------------------
(* A client is shown the flags of the access policy that was set last: the *)
(* statements they were turned into are told apart when they are read.     *)
THEOREM PolicyShownAsSet ==
  ASSUME NEW flags \in Flags
  PROVE  FlagsShown(Statements(flags)) = flags
  BY DEF Flags, Statements, FlagsShown
=============================================================================
