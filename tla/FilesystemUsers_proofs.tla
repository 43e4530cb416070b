----------------------- MODULE FilesystemUsers_proofs -----------------------
(***************************************************************************)
(* Proofs about FilesystemUsers, for any number of concurrent requests and *)
(* any limit on the keys of a user.                                        *)
(***************************************************************************)
EXTENDS FilesystemUsers, TLAPS

USE KeyLimitAssumption

(* No request has begun; the user may exist, with its keys. *)
LEMMA InitIInv == Init => IInv
<1> SUFFICES ASSUME Init PROVE IInv
  OBVIOUS
<1> USE DEF Init, Op
<1>1. TypeOK
  BY DEF TypeOK, Place
<1>2. AtItsPlace /\ OldKeysOnly /\ KeysRevoked
  BY DEF AtItsPlace, OldKeysOnly, KeysRevoked
<1>3. NoTraceOfNobody /\ NewestKeyStays /\ CreatedHasAccess /\ DeletedIsGone
  BY DEF NoTraceOfNobody, NewestKeyStays, CreatedHasAccess, DeletedIsGone
<1> QED
  BY <1>1, <1>2, <1>3 DEF IInv

(* Nobody takes a request back. *)
LEMMA DeletingStays ==
  ASSUME TypeOK, NEW r \in Requests, NEW to \in Place \ {"request"},
         at' = [at EXCEPT ![r] = to], op' = op
  PROVE  Deleting => Deleting'
  BY DEF TypeOK, Deleting

(* The user is made: neither keys nor a membership come with it. *)
LEMMA CreateUserIInv ==
  ASSUME IInv, NEW r \in Requests, CreateUser(r), Remember
  PROVE  IInv'
<1> USE DEF IInv, CreateUser, IamCreateUser, Step, Call, Go, Advance
<1>1. TypeOK'
  BY DEF TypeOK, Place, Remember, iam
<1>2. AtItsPlace'
  BY DEF TypeOK, AtItsPlace
<1>3. OldKeysOnly'
  BY DEF TypeOK, OldKeysOnly, Unlisted, iam
<1>4. KeysRevoked'
  BY DEF TypeOK, AtItsPlace, OldKeysOnly, KeysRevoked, Unlisted, iam
<1>5. NoTraceOfNobody'
  BY DEF TypeOK, NoTraceOfNobody, iam
<1>6. Deleting => Deleting'
  BY DeletingStays DEF TypeOK, Place
<1>7. NewestKeyStays'
  BY <1>6 DEF TypeOK, AtItsPlace, OldKeysOnly, NewestKeyStays, iam
<1>8. CreatedHasAccess'
  BY <1>6 DEF TypeOK, CreatedHasAccess, iam
<1>9. DeletedIsGone'
  BY DEF TypeOK, NoTraceOfNobody, DeletedIsGone, Remember, iam
<1> QED
  BY <1>1, <1>2, <1>3, <1>4, <1>5, <1>7, <1>8, <1>9

(* Waiting reads only. *)
LEMMA WaitForUserIInv ==
  ASSUME IInv, NEW r \in Requests, WaitForUser(r), Remember
  PROVE  IInv'
<1> USE DEF IInv, WaitForUser, LookUp, Step, Go, Advance
<1>1. TypeOK'
  BY DEF TypeOK, Place, Remember, iam
<1>2. AtItsPlace'
  BY DEF TypeOK, AtItsPlace
<1>3. OldKeysOnly'
  BY DEF TypeOK, OldKeysOnly, Unlisted, iam
<1>4. KeysRevoked'
  BY DEF TypeOK, AtItsPlace, OldKeysOnly, KeysRevoked, Unlisted, iam
<1>5. NoTraceOfNobody'
  BY DEF TypeOK, NoTraceOfNobody, iam
<1>6. Deleting => Deleting'
  BY DeletingStays DEF TypeOK, Place
<1>7. NewestKeyStays'
  BY <1>6 DEF TypeOK, AtItsPlace, OldKeysOnly, NewestKeyStays, iam
<1>8. CreatedHasAccess'
  BY <1>6 DEF TypeOK, CreatedHasAccess, iam
<1>9. DeletedIsGone'
  BY DEF TypeOK, NoTraceOfNobody, DeletedIsGone, Remember, iam
<1> QED
  BY <1>1, <1>2, <1>3, <1>4, <1>5, <1>7, <1>8, <1>9

(* Only a user that exists gets into the group. *)
LEMMA JoinGroupIInv ==
  ASSUME IInv, NEW r \in Requests, JoinGroup(r), Remember
  PROVE  IInv'
<1> USE DEF IInv, JoinGroup, AddUserToGroup, Step, Call, Go, Advance
<1>1. TypeOK'
  BY DEF TypeOK, Place, Remember, iam
<1>2. AtItsPlace'
  BY DEF TypeOK, AtItsPlace
<1>3. OldKeysOnly'
  BY DEF TypeOK, OldKeysOnly, Unlisted, iam
<1>4. KeysRevoked'
  BY DEF TypeOK, AtItsPlace, OldKeysOnly, KeysRevoked, Unlisted, iam
<1>5. NoTraceOfNobody'
  BY DEF TypeOK, NoTraceOfNobody, iam
<1>6. Deleting => Deleting'
  BY DeletingStays DEF TypeOK, Place
<1>7. NewestKeyStays'
  BY <1>6 DEF TypeOK, AtItsPlace, OldKeysOnly, NewestKeyStays, iam
<1>8. CreatedHasAccess'
  BY <1>6 DEF TypeOK, CreatedHasAccess, iam
<1>9. DeletedIsGone'
  BY DEF TypeOK, NoTraceOfNobody, DeletedIsGone, Remember, iam
<1> QED
  BY <1>1, <1>2, <1>3, <1>4, <1>5, <1>7, <1>8, <1>9

(* The lookup reads only. *)
LEMMA FindUserIInv ==
  ASSUME IInv, NEW r \in Requests, FindUser(r), Remember
  PROVE  IInv'
<1> USE DEF IInv, FindUser, LookUp, Step, Go, Advance
<1>1. TypeOK'
  BY DEF TypeOK, Place, Remember, iam
<1>2. AtItsPlace'
  BY DEF TypeOK, AtItsPlace
<1>3. OldKeysOnly'
  BY DEF TypeOK, OldKeysOnly, Unlisted, iam
<1>4. KeysRevoked'
  BY DEF TypeOK, AtItsPlace, OldKeysOnly, KeysRevoked, Unlisted, iam
<1>5. NoTraceOfNobody'
  BY DEF TypeOK, NoTraceOfNobody, iam
<1>6. Deleting => Deleting'
  BY DeletingStays DEF TypeOK, Place
<1>7. NewestKeyStays'
  BY <1>6 DEF TypeOK, AtItsPlace, OldKeysOnly, NewestKeyStays, iam
<1>8. CreatedHasAccess'
  BY <1>6 DEF TypeOK, CreatedHasAccess, iam
<1>9. DeletedIsGone'
  BY DEF TypeOK, NoTraceOfNobody, DeletedIsGone, Remember, iam
<1> QED
  BY <1>1, <1>2, <1>3, <1>4, <1>5, <1>7, <1>8, <1>9

(* What is listed are the keys there are. *)
LEMMA ListKeysIInv ==
  ASSUME IInv, NEW r \in Requests, ListKeys(r), Remember
  PROVE  IInv'
<1> USE DEF IInv, ListKeys, ListAccessKeys, LookUp, Go, Advance
<1>1. TypeOK'
  <2>1. keys \in SUBSET Nat
    BY DEF TypeOK
  <2>2. at' \in [Requests -> Place]
    BY DEF TypeOK, Place
  <2>3. todo' \in [Requests -> SUBSET Nat] /\ saw' \in [Requests -> SUBSET Nat]
    BY <2>1 DEF TypeOK
  <2> QED
    BY <2>2, <2>3 DEF TypeOK, Remember, iam
<1>2. AtItsPlace'
  BY DEF TypeOK, AtItsPlace
<1>3. OldKeysOnly'
  BY DEF TypeOK, OldKeysOnly, Unlisted, iam
<1>4. KeysRevoked'
  BY DEF TypeOK, AtItsPlace, OldKeysOnly, KeysRevoked, Unlisted, iam
<1>5. NoTraceOfNobody'
  BY DEF TypeOK, NoTraceOfNobody, iam
<1>6. Deleting => Deleting'
  BY DeletingStays DEF TypeOK, Place
<1>7. NewestKeyStays'
  BY <1>6 DEF TypeOK, AtItsPlace, OldKeysOnly, NewestKeyStays, iam
<1>8. CreatedHasAccess'
  BY <1>6 DEF TypeOK, CreatedHasAccess, iam
<1>9. DeletedIsGone'
  BY DEF TypeOK, NoTraceOfNobody, DeletedIsGone, Remember, iam
<1> QED
  BY <1>1, <1>2, <1>3, <1>4, <1>5, <1>7, <1>8, <1>9

(* The new key is newer than everything the request has seen. *)
LEMMA IssueKeyIInv ==
  ASSUME IInv, NEW r \in Requests, IssueKey(r), Remember
  PROVE  IInv'
<1> USE DEF IInv, IssueKey, CreateAccessKey, Call, Go, Advance
<1>1. TypeOK'
  <2>1. issued' \in Nat /\ keys' \in SUBSET (1 .. issued')
    <3>1. CASE UNCHANGED iam
      BY <3>1 DEF TypeOK, iam
    <3>2. CASE issued' = issued + 1 /\ keys' = keys \cup {issued + 1}
      <4>1. 1 .. issued \subseteq 1 .. (issued + 1) /\ issued + 1 \in 1 .. (issued + 1)
        BY DEF TypeOK
      <4> QED
        BY <3>2, <4>1 DEF TypeOK
    <3> QED
      BY <3>1, <3>2
  <2>2. at' \in [Requests -> Place]
    BY DEF TypeOK, Place
  <2>3. mine' \in [Requests -> Nat]
    BY <2>1 DEF TypeOK
  <2> QED
    BY <2>1, <2>2, <2>3 DEF TypeOK, Remember, iam
<1>2. AtItsPlace'
  BY DEF TypeOK, AtItsPlace
<1>3. OldKeysOnly'
  BY DEF TypeOK, OldKeysOnly, Unlisted, iam
<1>4. KeysRevoked'
  BY DEF TypeOK, AtItsPlace, OldKeysOnly, KeysRevoked, Unlisted, iam
<1>5. NoTraceOfNobody'
  BY DEF TypeOK, NoTraceOfNobody, iam
<1>6. Deleting => Deleting'
  BY DeletingStays DEF TypeOK, Place
<1>7. NewestKeyStays'
  BY <1>6 DEF TypeOK, AtItsPlace, OldKeysOnly, NewestKeyStays, iam
<1>8. CreatedHasAccess'
  BY <1>6 DEF TypeOK, CreatedHasAccess, iam
<1>9. DeletedIsGone'
  BY DEF TypeOK, NoTraceOfNobody, DeletedIsGone, Remember, iam
<1> QED
  BY <1>1, <1>2, <1>3, <1>4, <1>5, <1>7, <1>8, <1>9

(* What a reset deletes is older than what it was issued. *)
LEMMA RevokeKeysIInv ==
  ASSUME IInv, NEW r \in Requests, RevokeKeys(r), Remember
  PROVE  IInv'
<1> USE DEF IInv, RevokeKeys, DeleteKeys, DeleteAccessKey, Call, Go, Advance
<1>1. TypeOK'
  BY DEF TypeOK, Place, Remember, iam
<1>2. AtItsPlace'
  BY DEF TypeOK, AtItsPlace
<1>3. OldKeysOnly'
  BY DEF TypeOK, OldKeysOnly, Unlisted, iam
<1>4. KeysRevoked'
  BY DEF TypeOK, AtItsPlace, OldKeysOnly, KeysRevoked, Unlisted, iam
<1>5. NoTraceOfNobody'
  BY DEF TypeOK, NoTraceOfNobody, iam
<1>6. Deleting => Deleting'
  BY DeletingStays DEF TypeOK, Place
<1>7. NewestKeyStays'
  BY <1>6 DEF TypeOK, AtItsPlace, OldKeysOnly, NewestKeyStays, iam
<1>8. CreatedHasAccess'
  BY <1>6 DEF TypeOK, CreatedHasAccess, iam
<1>9. DeletedIsGone'
  BY DEF TypeOK, NoTraceOfNobody, DeletedIsGone, Remember, iam
<1> QED
  BY <1>1, <1>2, <1>3, <1>4, <1>5, <1>7, <1>8, <1>9

(* A request that looks for the user deletes nothing yet. *)
LEMMA FindUserToDeleteIInv ==
  ASSUME IInv, NEW r \in Requests, FindUserToDelete(r), Remember
  PROVE  IInv'
<1> USE DEF IInv, FindUserToDelete, LookUp, Step, Go, Advance
<1>1. TypeOK'
  BY DEF TypeOK, Place, Remember, iam
<1>2. AtItsPlace'
  BY DEF TypeOK, AtItsPlace
<1>3. OldKeysOnly'
  BY DEF TypeOK, OldKeysOnly, Unlisted, iam
<1>4. KeysRevoked'
  BY DEF TypeOK, AtItsPlace, OldKeysOnly, KeysRevoked, Unlisted, iam
<1>5. NoTraceOfNobody'
  BY DEF TypeOK, NoTraceOfNobody, iam
<1>6. Deleting => Deleting'
  BY DeletingStays DEF TypeOK, Place
<1>7. NewestKeyStays'
  BY <1>6 DEF TypeOK, AtItsPlace, OldKeysOnly, NewestKeyStays, iam
<1>8. CreatedHasAccess'
  BY <1>6 DEF TypeOK, CreatedHasAccess, iam
<1>9. DeletedIsGone'
  BY DEF TypeOK, NoTraceOfNobody, DeletedIsGone, Remember, iam
<1> QED
  BY <1>1, <1>2, <1>3, <1>4, <1>5, <1>7, <1>8, <1>9

(* Listing the groups reads only. *)
LEMMA ListGroupsIInv ==
  ASSUME IInv, NEW r \in Requests, ListGroups(r), Remember
  PROVE  IInv'
<1> USE DEF IInv, ListGroups, LookUp, Go, Advance
<1>1. TypeOK'
  BY DEF TypeOK, Place, Remember, iam
<1>2. AtItsPlace'
  BY DEF TypeOK, AtItsPlace
<1>3. OldKeysOnly'
  BY DEF TypeOK, OldKeysOnly, Unlisted, iam
<1>4. KeysRevoked'
  BY DEF TypeOK, AtItsPlace, OldKeysOnly, KeysRevoked, Unlisted, iam
<1>5. NoTraceOfNobody'
  BY DEF TypeOK, NoTraceOfNobody, iam
<1>6. Deleting => Deleting'
  BY DeletingStays DEF TypeOK, Place
<1>7. NewestKeyStays'
  BY <1>6 DEF TypeOK, AtItsPlace, OldKeysOnly, NewestKeyStays, iam
<1>8. CreatedHasAccess'
  BY <1>6 DEF TypeOK, CreatedHasAccess, iam
<1>9. DeletedIsGone'
  BY DEF TypeOK, NoTraceOfNobody, DeletedIsGone, Remember, iam
<1> QED
  BY <1>1, <1>2, <1>3, <1>4, <1>5, <1>7, <1>8, <1>9

(* Only a request to delete the user takes it out of the group. *)
LEMMA LeaveGroupIInv ==
  ASSUME IInv, NEW r \in Requests, LeaveGroup(r), Remember
  PROVE  IInv'
<1> USE DEF IInv, LeaveGroup, RemoveUserFromGroup, Step, Call, Go, Advance
<1>1. TypeOK'
  BY DEF TypeOK, Place, Remember, iam
<1>2. AtItsPlace'
  BY DEF TypeOK, AtItsPlace
<1>3. OldKeysOnly'
  BY DEF TypeOK, OldKeysOnly, Unlisted, iam
<1>4. KeysRevoked'
  BY DEF TypeOK, AtItsPlace, OldKeysOnly, KeysRevoked, Unlisted, iam
<1>5. NoTraceOfNobody'
  BY DEF TypeOK, NoTraceOfNobody, iam
<1>6. Deleting => Deleting'
  BY DeletingStays DEF TypeOK, Place
<1>7. NewestKeyStays'
  BY <1>6 DEF TypeOK, AtItsPlace, OldKeysOnly, NewestKeyStays, iam
<1>8. CreatedHasAccess'
  <2>1. op[r] = "delete" /\ at[r] # "request"
    BY DEF TypeOK, AtItsPlace, Op
  <2>2. Deleting'
    BY <2>1, <1>6 DEF Deleting
  <2> QED
    BY <2>2 DEF CreatedHasAccess
<1>9. DeletedIsGone'
  BY DEF TypeOK, NoTraceOfNobody, DeletedIsGone, Remember, iam
<1> QED
  BY <1>1, <1>2, <1>3, <1>4, <1>5, <1>7, <1>8, <1>9

(* A deletion lists the keys there are, too. *)
LEMMA ListKeysToDeleteIInv ==
  ASSUME IInv, NEW r \in Requests, ListKeysToDelete(r), Remember
  PROVE  IInv'
<1> USE DEF IInv, ListKeysToDelete, ListAccessKeys, LookUp, Go, Advance
<1>1. TypeOK'
  <2>1. keys \in SUBSET Nat
    BY DEF TypeOK
  <2>2. at' \in [Requests -> Place]
    BY DEF TypeOK, Place
  <2>3. todo' \in [Requests -> SUBSET Nat] /\ saw' \in [Requests -> SUBSET Nat]
    BY <2>1 DEF TypeOK
  <2> QED
    BY <2>2, <2>3 DEF TypeOK, Remember, iam
<1>2. AtItsPlace'
  BY DEF TypeOK, AtItsPlace
<1>3. OldKeysOnly'
  BY DEF TypeOK, OldKeysOnly, Unlisted, iam
<1>4. KeysRevoked'
  BY DEF TypeOK, AtItsPlace, OldKeysOnly, KeysRevoked, Unlisted, iam
<1>5. NoTraceOfNobody'
  BY DEF TypeOK, NoTraceOfNobody, iam
<1>6. Deleting => Deleting'
  BY DeletingStays DEF TypeOK, Place
<1>7. NewestKeyStays'
  BY <1>6 DEF TypeOK, AtItsPlace, OldKeysOnly, NewestKeyStays, iam
<1>8. CreatedHasAccess'
  BY <1>6 DEF TypeOK, CreatedHasAccess, iam
<1>9. DeletedIsGone'
  BY DEF TypeOK, NoTraceOfNobody, DeletedIsGone, Remember, iam
<1> QED
  BY <1>1, <1>2, <1>3, <1>4, <1>5, <1>7, <1>8, <1>9

(* Only a request to delete the user may take its newest key. *)
LEMMA DeleteAllKeysIInv ==
  ASSUME IInv, NEW r \in Requests, DeleteAllKeys(r), Remember
  PROVE  IInv'
<1> USE DEF IInv, DeleteAllKeys, DeleteKeys, DeleteAccessKey, Call, Go, Advance
<1>1. TypeOK'
  BY DEF TypeOK, Place, Remember, iam
<1>2. AtItsPlace'
  BY DEF TypeOK, AtItsPlace
<1>3. OldKeysOnly'
  BY DEF TypeOK, OldKeysOnly, Unlisted, iam
<1>4. KeysRevoked'
  BY DEF TypeOK, AtItsPlace, OldKeysOnly, KeysRevoked, Unlisted, iam
<1>5. NoTraceOfNobody'
  BY DEF TypeOK, NoTraceOfNobody, iam
<1>6. Deleting => Deleting'
  BY DeletingStays DEF TypeOK, Place
<1>7. NewestKeyStays'
  <2>1. op[r] = "delete" /\ at[r] # "request"
    BY DEF TypeOK, AtItsPlace, Op
  <2>2. Deleting'
    BY <2>1, <1>6 DEF Deleting
  <2> QED
    BY <2>2 DEF NewestKeyStays
<1>8. CreatedHasAccess'
  BY <1>6 DEF TypeOK, CreatedHasAccess, iam
<1>9. DeletedIsGone'
  BY DEF TypeOK, NoTraceOfNobody, DeletedIsGone, Remember, iam
<1> QED
  BY <1>1, <1>2, <1>3, <1>4, <1>5, <1>7, <1>8, <1>9

(* The user goes when nothing of it is left. *)
LEMMA RemoveUserIInv ==
  ASSUME IInv, NEW r \in Requests, RemoveUser(r), Remember
  PROVE  IInv'
<1> USE DEF IInv, RemoveUser, IamDeleteUser, Step, Call, Go, Advance
<1>1. TypeOK'
  BY DEF TypeOK, Place, Remember, iam
<1>2. AtItsPlace'
  BY DEF TypeOK, AtItsPlace
<1>3. OldKeysOnly'
  BY DEF TypeOK, OldKeysOnly, Unlisted, iam
<1>4. KeysRevoked'
  BY DEF TypeOK, AtItsPlace, OldKeysOnly, KeysRevoked, Unlisted, iam
<1>5. NoTraceOfNobody'
  BY DEF TypeOK, NoTraceOfNobody, iam
<1>6. Deleting => Deleting'
  BY DeletingStays DEF TypeOK, Place
<1>7. NewestKeyStays'
  BY <1>6 DEF TypeOK, AtItsPlace, OldKeysOnly, NewestKeyStays, iam
<1>8. CreatedHasAccess'
  BY <1>6 DEF TypeOK, CreatedHasAccess, iam
<1>9. DeletedIsGone'
  BY DEF TypeOK, NoTraceOfNobody, DeletedIsGone, Remember, iam
<1> QED
  BY <1>1, <1>2, <1>3, <1>4, <1>5, <1>7, <1>8, <1>9

(* Every step of every request preserves the invariant. *)
LEMMA NextIInv == IInv /\ [Next]_vars => IInv'
<1> SUFFICES ASSUME IInv, [Next]_vars PROVE IInv'
  OBVIOUS
<1>1. CASE UNCHANGED vars
  BY <1>1 DEF vars, iam, IInv, TypeOK, AtItsPlace, OldKeysOnly, KeysRevoked, NoTraceOfNobody,
       NewestKeyStays, CreatedHasAccess, DeletedIsGone, Deleting
<1>2. CASE Next
  BY <1>2, CreateUserIInv, WaitForUserIInv, JoinGroupIInv, FindUserIInv, ListKeysIInv,
     IssueKeyIInv, RevokeKeysIInv, FindUserToDeleteIInv, ListGroupsIInv, LeaveGroupIInv,
     ListKeysToDeleteIInv, DeleteAllKeysIInv, RemoveUserIInv DEF Next, RequestStep
<1> QED
  BY <1>1, <1>2

(* IInv holds in every reachable state. *)
THEOREM Invariance == Spec => []IInv
  BY InitIInv, NextIInv, PTL DEF Spec

(* However many resets race and whatever fails, the newest key survives.   *)
THEOREM ResetsSpareNewestKey == Spec => []NewestKeyStays
<1>1. IInv => NewestKeyStays
  BY DEF IInv
<1> QED
  BY <1>1, Invariance, PTL

(* A reset that was answered 200 has revoked every key it found, and its   *)
(* own key works until another request that saw it revokes it.             *)
THEOREM ResetReplaces == Spec => []ResetReplacesKeys
<1>1. IInv => ResetReplacesKeys
  BY DEF IInv, KeysRevoked, ResetReplacesKeys
<1> QED
  BY <1>1, Invariance, PTL

(* Whoever was answered 200 for creating the user gets one with access.    *)
THEOREM CreatedIsGrouped == Spec => []CreatedHasAccess
<1>1. IInv => CreatedHasAccess
  BY DEF IInv
<1> QED
  BY <1>1, Invariance, PTL

(* Whoever was answered 200 for deleting the user left nothing of it.      *)
THEOREM DeletedLeavesNothing == Spec => []DeletedIsGone
<1>1. IInv => DeletedIsGone
  BY DEF IInv
<1> QED
  BY <1>1, Invariance, PTL
=============================================================================
