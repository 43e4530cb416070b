-------------------------- MODULE FilesystemUpdate --------------------------
(***************************************************************************)
(* filesystemUpdate of api/orchestration_filesystem.go: any number of      *)
(* requests to update one filesystem, served concurrently.                 *)
(*                                                                         *)
(* A request names the settings it wants changed.  Its goroutine makes     *)
(* them one after another, the tags last, and copies the tags to the users *)
(* of the filesystem.  The service can only set both lifecycle rules       *)
(* together: the one a request omits is set to what it was found to be     *)
(* when the request was accepted.                                          *)
(*                                                                         *)
(* What a setting is set to is abstracted to the update that brought it.   *)
(* The filesystem exists throughout, and its users stay the same.          *)
(***************************************************************************)
EXTENDS Naturals

CONSTANTS
    Updates,        \* the requests; also the IDs of their tasks
    Unset,          \* the value of every setting before the updates
    Users,
    Wishes,         \* bound: the sets of settings a request may ask to change
    Faulty          \* whether calls may fail, with or without their effect

ASSUME UnsetAssumption == Unset \notin Updates
ASSUME FaultyAssumption == Faulty \in BOOLEAN

VARIABLES
    asks,           \* the settings each update wants changed
    value,          \* for each setting, the update it was last set by
    userTags,       \* the same for the tags of each user
    at,             \* where each update is
    found,          \* the lifecycle rules it found
    todo,           \* the users it has left to tag
    status,         \* the tasks, see FlywheelTask
    outcome

shared == <<value, userTags>>
local == <<asks, at, found, todo>>
tasks == <<status, outcome>>
vars == <<shared, local, tasks>>

Task == INSTANCE FlywheelTask WITH Tasks <- Updates

(* LifeCycleConfiguration and TransitionToPrimaryStorageClass. *)
Rules == {"infrequent", "primary"}
Settings == {"backup", "policy", "tags"} \cup Rules
Values == Updates \cup {Unset}

ASSUME WishesAssumption == Wishes \subseteq SUBSET Settings

Place == {"request", "backup", "lifecycle", "policy", "tags", "session", "users",
          "refused", "returned", "failed"}

TypeOK ==
    /\ Task!TypeOK
    /\ asks \in [Updates -> Wishes]
    /\ value \in [Settings -> Values]
    /\ userTags \in [Users -> Values]
    /\ at \in [Updates -> Place]
    /\ found \in [Updates -> [Rules -> Values]]
    /\ todo \in [Updates -> SUBSET Users]

Init ==
    /\ Task!Init
    /\ asks \in [Updates -> Wishes]
    /\ value = [s \in Settings |-> Unset]
    /\ userTags = [u \in Users |-> Unset]
    /\ at = [r \in Updates |-> "request"]
    /\ found = [r \in Updates |-> [s \in Rules |-> Unset]]
    /\ todo = [r \in Updates |-> {}]

-----------------------------------------------------------------------------
Advance(r, from, to) == at[r] = from /\ at' = [at EXCEPT ![r] = to]

(* The goroutine goes on. *)
Continue(r, from, to) == Advance(r, from, to) /\ UNCHANGED <<asks, found, todo, tasks>>

(* It returns, having handed over an error or not. *)
Return(r, from, to, o) ==
    /\ Advance(r, from, to)
    /\ Task!HandOver(r, o)
    /\ UNCHANGED <<asks, found, todo>>

(* One call: it succeeds and the goroutine goes on, or its error is the    *)
(* task's.                                                                 *)
Call(r, from, to, effect) ==
    \/ effect /\ Continue(r, from, to)
    \/ Faulty /\ (effect \/ UNCHANGED shared) /\ Return(r, from, "failed", "error")

Skip(r, from, to) == UNCHANGED shared /\ Continue(r, from, to)

AsksRules(r) == asks[r] \cap Rules # {}

-----------------------------------------------------------------------------
(* The request is checked.  If it asks for a lifecycle rule, the rules as  *)
(* they are now are looked up.                                             *)
Accept(r) ==
    /\ Advance(r, "request", "backup")
    /\ found' = IF AsksRules(r) THEN [found EXCEPT ![r] = [s \in Rules |-> value[s]]]
                               ELSE found
    /\ UNCHANGED <<shared, asks, todo, tasks>>

(* An invalid value, or a lookup that failed. *)
Refuse(r) == Skip(r, "request", "refused")

SetTo(r, s) == value' = [value EXCEPT ![s] = r] /\ UNCHANGED userTags

SetBackup(r) ==
    \/ "backup" \in asks[r] /\ Call(r, "backup", "lifecycle", SetTo(r, "backup"))
    \/ "backup" \notin asks[r] /\ Skip(r, "backup", "lifecycle")

(* One call sets both rules. *)
SetRules(r) ==
    /\ value' = [s \in Settings |->
          IF s \in Rules \cap asks[r] THEN r
          ELSE IF s \in Rules THEN found[r][s] ELSE value[s]]
    /\ UNCHANGED userTags

(* Mutant: a call for each rule. *)
RuleByRule(r) ==
    \/ \E s \in Rules \cap asks[r] :
          value[s] # r /\ Call(r, "lifecycle", "lifecycle", SetTo(r, s))
    \/ (\A s \in Rules \cap asks[r] : value[s] = r) /\ Skip(r, "lifecycle", "policy")

SetLifecycle(r) ==
    \/ AsksRules(r) /\ Call(r, "lifecycle", "policy", SetRules(r))
    \/ ~AsksRules(r) /\ Skip(r, "lifecycle", "policy")

SetPolicy(r) ==
    \/ "policy" \in asks[r] /\ Call(r, "policy", "tags", SetTo(r, "policy"))
    \/ "policy" \notin asks[r] /\ Skip(r, "policy", "tags")

(* Mutant: the users are tagged although the filesystem could not be. *)
TagIgnoringErrors(r) ==
    \/ /\ "tags" \in asks[r]
       /\ SetTo(r, "tags") \/ (Faulty /\ UNCHANGED shared)
       /\ Continue(r, "tags", "session")
    \/ /\ "tags" \notin asks[r]
       /\ UNCHANGED shared
       /\ Return(r, "tags", "returned", "ok")

(* Without tags to set the goroutine returns here. *)
TagFilesystem(r) ==
    \/ "tags" \in asks[r] /\ Call(r, "tags", "session", SetTo(r, "tags"))
    \/ "tags" \notin asks[r] /\ UNCHANGED shared /\ Return(r, "tags", "returned", "ok")

(* A role is assumed and the users are listed.  If the role cannot be      *)
(* assumed the goroutine returns and says nothing.                         *)
ListUsers(r) ==
    /\ \/ /\ Advance(r, "session", "users")
          /\ todo' = [todo EXCEPT ![r] = Users]
          /\ UNCHANGED <<asks, found, tasks>>
       \/ Faulty /\ Return(r, "session", "failed", "error")
       \/ Faulty /\ Return(r, "session", "returned", "ok")
    /\ UNCHANGED shared

(* Mutant: the loop ends after its first user. *)
TagOneUser(r) ==
    \E u \in todo[r] :
        /\ userTags' = [userTags EXCEPT ![u] = r]
        /\ UNCHANGED value
        /\ Return(r, "users", "returned", "ok")

TagUser(r) ==
    \/ \E u \in todo[r] :
          LET tag == userTags' = [userTags EXCEPT ![u] = r] /\ UNCHANGED value
          IN \/ /\ tag
                /\ at[r] = "users"
                /\ todo' = [todo EXCEPT ![r] = @ \ {u}]
                /\ UNCHANGED <<asks, at, found, tasks>>
             \/ /\ Faulty
                /\ tag \/ UNCHANGED shared
                /\ Return(r, "users", "failed", "error")
    \/ todo[r] = {} /\ UNCHANGED shared /\ Return(r, "users", "returned", "ok")

-----------------------------------------------------------------------------
UpdateStep(r) ==
    \/ Accept(r) \/ Refuse(r) \/ SetBackup(r) \/ SetLifecycle(r) \/ SetPolicy(r)
    \/ TagFilesystem(r) \/ ListUsers(r) \/ TagUser(r)

(* The tracker of the task of an update that was accepted. *)
TrackTask(r) ==
    /\ at[r] \notin {"request", "refused"}
    /\ Task!Start(r) \/ Task!Record(r)
    /\ UNCHANGED <<shared, local>>

Next == \E r \in Updates : UpdateStep(r) \/ TrackTask(r)

Spec == Init /\ [][Next]_vars

-----------------------------------------------------------------------------
(* The update has made its call for a setting, if it asks for it. *)
Passed(r, s) ==
    \/ at[r] \in {"session", "users"}
    \/ at[r] = "tags" /\ s # "tags"
    \/ at[r] = "policy" /\ s \in {"backup"} \cup Rules
    \/ at[r] = "lifecycle" /\ s = "backup"

(* It has made its call for the lifecycle rules; or may have. *)
RulesMade(r) ==
    AsksRules(r) /\ at[r] \in {"policy", "tags", "session", "users", "returned"}

RulesTried(r) == RulesMade(r) \/ (AsksRules(r) /\ at[r] = "failed")

(* A client that reads "completed" has had the tags it sent put on the     *)
(* filesystem, unless other updates sent tags, too: then it carries the    *)
(* tags of one of them.  The same goes for its users, all of them or, if   *)
(* the role to tag them could not be assumed, none: never for some only.   *)
CompletedMeansTagged ==
    \A r \in Updates : status[r] = "completed" /\ "tags" \in asks[r] =>
        /\ value["tags"] # Unset
        /\ (\A u \in Users : userTags[u] # Unset) \/ (\A u \in Users : userTags[u] # r)
        /\ (\A q \in Updates \ {r} : "tags" \notin asks[q]) => value["tags"] = r

(* Whatever fails, an update gets no further than its first error: a user  *)
(* never gets tags that the filesystem was not offered before, nor the     *)
(* filesystem tags of an update whose settings were not made first.        *)
AppliedInOrder ==
    \A r \in Updates :
        /\ \A u \in Users : userTags[u] = r => value["tags"] # Unset
        /\ value["tags"] = r => \A s \in asks[r] \ Rules : value[s] # Unset
        /\ value["policy"] = r /\ "backup" \in asks[r] => value["backup"] # Unset

(* However many updates race for the lifecycle rules and whatever fails,   *)
(* the outcome is one of them as it was asked for: all the rules it named  *)
(* are as it wanted them, never one from here and one from there with      *)
(* neither intact.                                                         *)
OneWishIntact ==
    (\E r \in Updates : RulesMade(r)) =>
        \E r \in Updates : RulesTried(r) /\ \A s \in asks[r] \cap Rules : value[s] = r

(* The invariant behind them: what an update has passed is made, by it or  *)
(* over it, and nothing is ever made undone; ...                           *)
PassedIsMade ==
    \A r \in Updates :
        /\ \A s \in asks[r] \ Rules : Passed(r, s) => value[s] # Unset
        /\ at[r] \in {"session", "users"} => "tags" \in asks[r]
        /\ value["tags"] = r => "tags" \in asks[r]

(* ... an update tags no user before it is at the users, and leaves none   *)
(* behind; ...                                                             *)
UsersFollow ==
    \A r \in Updates :
        /\ at[r] \notin {"users", "returned", "failed"} => \A u \in Users : userTags[u] # r
        /\ at[r] = "users" => \A u \in Users \ todo[r] : userTags[u] # Unset
        /\ at[r] = "returned" /\ "tags" \in asks[r] =>
              /\ value["tags"] # Unset
              /\ (\A u \in Users : userTags[u] # Unset) \/ (\A u \in Users : userTags[u] # r)

(* ... and a final status tells how the goroutine ended: one that reached   *)
(* its end has concluded, and none before.                                 *)
TasksTell ==
    \A r \in Updates :
        /\ status[r] = "completed" => outcome[r] = "ok"
        /\ status[r] = "failed" => outcome[r] = "error"
        /\ outcome[r] = "ok" <=> at[r] = "returned"
        /\ outcome[r] = "error" <=> at[r] = "failed"

IInv ==
    /\ TypeOK
    /\ PassedIsMade
    /\ UsersFollow
    /\ TasksTell
    /\ AppliedInOrder
    /\ OneWishIntact

(* Taken at its word, the log of filesystemUpdate would mean this: a rule  *)
(* a request omits is not updated.  So one that a single update names is,  *)
(* once that has completed, as that update wanted it.                      *)
OmittedRuleKept ==
    \A r \in Updates, s \in Rules :
        /\ status[r] = "completed"
        /\ s \in asks[r]
        /\ \A q \in Updates \ {r} : s \notin asks[q]
        => value[s] = r
=============================================================================
