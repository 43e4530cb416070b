# TLA+ models of efs-api

efs-api is a small HTTP service in front of AWS: it creates, changes and deletes
elastic filesystems (EFS) and the IAM users that may mount them. A request that
takes long is answered with a task ID, and a goroutine carries it out; the task's
record is kept in redis, through the flywheel library. Nothing else is stored, no
lock is taken, and every replica of the server runs the same code: what keeps two
requests about one filesystem apart is only the state AWS reports and the order in
which the code asks for it. These models say what can be relied on all the same.

All paths below are relative to `src/`.

## 1. The system

### Components, their state and their operations

| Component | Where | State | Operations |
|---|---|---|---|
| Task tracking | `api/orchestration_filesystem.go` `startTask` | two goroutines, two unbuffered channels and a context for each task; the record in redis | start, log, fail, complete |
| Creation | `filesystemCreate`, `accessPointCreate` | the goroutine's place, the stack of rollback functions, the access points' tasks | create, wait with `retry`, roll back |
| Rollback, retry | `api/server.go` | the place in the stack, attempts, the timeout | `rollBack`, `retry` |
| Update | `filesystemUpdate`, `updateTagsForUser` | the lifecycle rules read when the request came | set backup, lifecycle, policy, tags; tag the users |
| Deletion | `filesystemDelete`, `deleteAllFilesystemUsers` | lists of access points, users and mount targets read before they are used | delete all of it, wait, delete the filesystem |
| Users | `api/orchestration_users.go` | lists of groups and keys | create, reset the key, delete, list, show |
| Account preparation | `api/orchestration_account.go` | the cached policy document | create the admin policy and group if missing, update the policy |
| Access points | `api/orchestration_accesspoints.go` | - | create (with a task), list, show, delete |
| Sessions | `api/role.go` | the session cache | `assumeRole` |
| Tags, policies | `api/tags.go`, `api/policy.go` | - | pure functions |
| EFS, KMS, EC2, tagging clients | `efs/`, `kms/`, `ec2/`, `resourcegroupstaggingapi/` | - | one AWS call each; error codes |
| HTTP | `api/handlers*.go`, `routes.go`, `middleware.go` | - | decode, call an orchestration, answer |
| Start-up | `main.go`, `common/config.go` | - | read the configuration, serve |

### How they interact

A handler checks that the filesystem is in the group (a list by tags), assumes a
role (from the cache or from STS) and calls an orchestration. The orchestration
validates, makes its first calls while the client waits, and starts a goroutine
(the *worker*). The worker calls `startTask`, which starts the *tracker* and
returns two channels. The worker sends messages and at most one error to the
tracker; the tracker writes them to redis. The worker's context, cancelled by a
deferred call however the worker ends, tells the tracker that it is done. The
creation of a filesystem starts the creation of each access point, which has a task
of its own, and waits for it by reading that task's status from redis.
Workers of different requests share nothing in memory but the session cache, and
requests that create users the marshaled policy document; they meet in AWS: in the
filesystem with its mount targets and access points, in the users and their tags,
and in the account's admin group and policy.

### What is hard about it

- *Interleavings*: tracker against worker; a parent that waits for its child's task
  against the child's tracker; two deletions, two updates or two key resets of one
  thing, each acting on a list it read earlier; a deletion or a request for an access
  point in the middle of a creation; two requests that prepare one account; a user
  that is created while an update copies tags to users.
- *Partial failure*: an orchestration is a sequence of calls of which any may fail,
  with or without having had its effect. Only the creation undoes anything.
- *Bounded waits*: every wait ends after a number of attempts, whatever it waits for.
- *Crashes*: goroutines are lost with the process, records stay.
- *Age*: sessions taken from a cache have lived for a while.

What would make each component correct is stated in section 4, property by property;
the hazards behind the properties, with the lines where they bite, are listed in
`PROJECT.json`.

## 2. Modules

| Module | Models | Builds on |
|---|---|---|
| `FlywheelTask` | what a client may see of a task: the abstract specification | |
| `TaskTracker` | `startTask` and the worker's side of its protocol | refines `FlywheelTask` |
| `EFS` | filesystem, mount targets, access points, and the calls on them | |
| `FilesystemCreate` | creation, its access points, its rollback | `EFS`, `FlywheelTask` |
| `FilesystemDelete` | concurrent deletions, with the users | `EFS`, `FlywheelTask`, `SessionPolicies` |
| `FilesystemUpdate` | concurrent updates, with the users' tags | `FlywheelTask` |
| `Provisioning` | what the tasks promise about the filesystem's existence: the abstract specification | |
| `FilesystemLife` | a creation, deletions and requests about access points over one filesystem | `FilesystemCreate`, `FilesystemDelete`; refines `Provisioning` |
| `FilesystemUsers` | concurrent create, reset and delete of one user | |
| `Tags` | `normalizeTags` | |
| `SessionPolicies` | the IAM actions a session may take, from `api/policy.go` | |
| `AccountPreparation` | concurrent `prepareAccount` | `SessionPolicies` |
| `UserAccess` | users from the request to the group, while updates change the tags | `AccountPreparation`, `Tags` |
| `AccessPolicy` | access policy flags to statements and back | |
| `SessionCache` | `assumeRole`: sessions and their cache, in time | |
| `MC...` | definitions for model checking only | |
| `..._proofs` | theorems about the module of that name | `TLAPS` |

### From code to state and actions

**Places.** Every goroutine and every request has a variable (`pc`, `at`, `worker`,
`tracker`, `child`, `rb`) that says at which of its calls it is. There is an action
for each call; its guard is the place and the conditions of the code up to the
call, and the places its disjuncts lead to are where the code goes on if the call
succeeds or fails. Code between two calls touches only local state and is part of
the action before it. Loops are sets of what is left to do (`todo`): the order in
which AWS lists things is not the code's.

**Calls.** A call is accepted if the service's state (and the session's policy, where
it is modelled) allows it, and has its effect. With `Faulty` (always, in
`FilesystemUsers`; for the requests in `Unlucky`, in `UserAccess`) a call
may answer with an error although it was accepted, having had its effect or not: a
timeout, a throttled call, a lost answer. What the service does by itself - a
filesystem that is being created becomes available, one that is being deleted goes -
are the actions of `Environment`. These parts are marked external in the map; they
are written from how the code uses the service and what it expects of it.

**Waits.** `retry` is a counter of failed attempts. The sleeps between two attempts
are not steps: between any two attempts the service may make any progress or none.
The one place where the length of the sleeps matters, the rollback with its 120
seconds, adds up the shortest sleeps (`Slept`) to tell when the timeout can come
first.

**Tasks.** `TaskTracker` has both goroutines and every point where they hand over.
It implements `FlywheelTask` (`KeepsPromise`, checked and proved): the status is
written after the outcome is known, or not at all, and never contradicts it. The
other modules therefore use `FlywheelTask` for the trackers of their tasks: `Start` and
`Record` when the tracker writes. Their workers use `HandOver` where the code hands over
an error or returns; it does not look whether they did so before. That every worker
concludes once, so that its task behaves as `FlywheelTask` says, is proved of the
orchestrations (`TasksKeepPromise`).

**Values.** In `FilesystemUpdate` the value of a setting is the update that set it.
Keys in `FilesystemUsers` are numbered as they are issued. In `FilesystemDelete` a
user is the number of calls it takes to delete it (its groups, its keys and itself).
In `UserAccess` tags are keys with values, as properties are about both; the admin
policy's document is one of `Documents`, of which each server wants one.

**Composition.** `FilesystemLife` extends `FilesystemCreate` and instantiates
`FilesystemDelete`, with the state of `EFS` shared: a step of either is a step of the
whole that leaves the other's variables alone. It adds what `accessPointCreate` and
`deleteFilesystemAccessPoint` do for a request of their own. The whole implements
`Provisioning` (`ImplementsProvisioning`, checked and proved), which has no goroutines, calls or
mount targets left: the filesystem is there or not, and the tasks have an outcome or
not. The mapping is `resource`, the creation's outcome and the deletions' outcomes. `UserAccess` extends
`AccountPreparation` by what a request does after it, and by the updates.

## 3. Runs

All but the last column is what the configurations say. Unless noted, calls may fail
with or without effect.

| Run | Instance | Shows |
|---|---|---|
| `tracker` | 2 tasks, 2 messages each; redis fails for one of them; the server may die and restart at any time | the protocol between worker and tracker, and the refinement |
| `create_reliable` | 2 subnets in 2 zones, 1 access point, the code's retry counts and timeout; no call fails | what a rollback that ran to its end leaves when the service is only slow |
| `create_faulty` | the same with 3 attempts and a rollback of 6 seconds | completed means provisioned; everything ends |
| `create_conflict` | 2 subnets in one zone; no other call fails | *violated*: a failed creation leaves a filesystem although its rollback reports success |
| `delete_reliable` | 2 deletions, 2 mount targets, 2 access points, 2 users of up to 3 calls; no call fails | racing deletions leave no user, with the actions their session has, one of them reports success, and only one of them makes the other break off half way |
| `delete_faulty` | 2 deletions, 1 mount target, 1 user, 2 attempts | completed means deleted, one winner at most |
| `update` | 2 updates, 2 users | what racing and failing updates leave |
| `update_rules` | 2 updates, no call fails | *violated*: an update undoes a rule that it does not ask for |
| `users` | 3 requests of any kind, 2 keys at most | what racing requests about one user leave |
| `sessions` | an orchestration of 200 seconds and one of 1000, `retry(10, 2s)`, share the cache | who needs no more than the buffer never works with a dead session |
| `access` | 2 requests for a user each, 1 update, 2 documents, 2 versions at most; one request and the update may fail at every call and name another group | who was created is let in; the filesystem stays in its group; a client that keeps asking gets its user |
| `life` | a creation and a deletion, 1 subnet and 1 access point, made by the creation or on request; no call fails | what was completed stands until a deletion passes its checks; some task tells of the end; together they implement `Provisioning` |

**Bounds, and why they are enough.** Two deletions or updates are enough for every
conflict between a read and a write of one by the other; three requests about a user
are two that race of any kind and one that makes or takes away what they race for. Two
mount targets are needed for a list that is partly done, and a second zone, or one
zone twice, for the refusal EFS knows. One access point is enough for a child that fails or
stays behind; the loop over several is the same step again. A user takes up to three
calls so that two deletions can be at different ones. An update asks for both a backup policy
and an access policy or for neither (`Wishes`): one that asks for one of them only takes the
same two steps, one of which does nothing. The number of attempts only
has to allow a wait that succeeds late and one that gives up; the runs with the
code's own numbers are those where the numbers matter (the rollback's timeout).
`MaxMessages` bounds the messages of a worker: the tracker is back in its select
after each. In `access` the account starts in any state that earlier requests may have
left, so that two requests meet everything that more of them could have done before; one
server serves both (with two the state space is too large for a run; the theorems are
about any number, with different documents), and the update sends a tag of its own with
some of the reserved ones, or `ResourceName` alone. Only requests in `Unlucky` name
another group (`UnluckyStray`). `life` is small because it multiplies a creation with a
deletion: two mount targets or two access points are in the runs of its parts, and the
theorems have any number of all, with failing calls. `SessionCache` counts in units of 100 seconds, of which all times of the
code are multiples; its clock stops at `MaxTime`, after every client could have had
a session from a cache that was renewed once. The theorems do not depend on any of
these bounds.

Deadlock is not looked for where requests are finite: when all of them are done
nothing is left to happen. `SessionCache` is checked for it.

**Fairness.** Weak fairness, for each goroutine: the Go scheduler runs every
goroutine that can go on, an AWS call or redis write returns (the clients have
timeouts), and sleeps end. Nothing is assumed of the service (`Environment` has no
fairness) or of calls succeeding, and of clients only in `UserAccess`: there one whose
request failed sends it again, for without that nothing can be promised to two
requests that trip over each other. The rest of such a request is a goroutine like any
other. The other liveness properties are about the
code's own bounds: `CreateSettles` and `DeleteSettles` hold
because `retry` gives up and the rollback times out, not because AWS is kind.

## 4. Properties

*Tasks* (`TaskTracker`).
`NoStuckSender`: a worker that is blocked in a send has a tracker that will come back
for it. `StatusMatchesOutcome`: completed is only recorded for a worker that returned
without an error, although a failed worker's context is cancelled just the same.
`FinalStatusStays`: what a client was told is not taken back. `TrackerEnds`: no
tracker is left behind. `StatusSettles`: as long as redis and the process do their
part, the record becomes final. `KeepsPromise`: the refinement.

*Creation* (`FilesystemCreate`).
`CompletedMeansProvisioned`: a completed task stands for a filesystem with every mount
target and access point that was asked for, usable, and with its settings.
`RolledBackMeansRemoved`: if the creation fails after its mount targets, a rollback
that ran to its end deleted the filesystem, the mount targets first. `CreateSettles`:
it ends, its rollback too, and its tasks become final.

*Deletion* (`FilesystemDelete`).
`CompletedMeansDeleted`; `OneWinner`: never two; `GoneMeansSomeoneDidIt`: and not none,
as long as calls do not fail (checked as a part of `IInv`); `NoUserLeft`, `UsersGo`: requests that trip over each
other while they delete the same user still delete it between them, as long as calls do
not fail (this needs IAM to
list a user's groups and keys in one order for both, and that the session may make all
the calls). `NoHalfDeletion`: a request that is turned down for the state of the
filesystem or of a mount target has not deleted an access point; and one that breaks off
between the access points, with no task to tell that some are gone, does so only because a
call failed or another deletion is deleting them too. (It may answer 404 then:
`efs/errors.go:64` maps AccessPointNotFound to it.) `DeleteSettles`.

*Update* (`FilesystemUpdate`).
`AppliedInOrder`: an update gets no further than its first error; `CompletedMeansTagged`:
a completed one has tagged all users or none; `OneWishIntact`: racing updates of the
lifecycle rules leave those of one of them.

*Users* (`FilesystemUsers`).
`NewestKeyStays`: however many resets race, the newest key survives; `ResetReplacesKeys`:
a reset that was answered 200 has revoked what there was; `CreatedHasAccess`;
`DeletedIsGone`: a user whose deletion was answered 200 is gone with its keys and out of
the group until it is made again, whatever resets and creations are under way.

*The life of a filesystem* (`FilesystemLife`).
`CompletedStands`: what a client was told is complete is there and usable, and it takes
a deletion that passed its checks, or a request to delete the access point, to change
that - not the rollback of another part, nor the creation's own later steps. (An access
point that was added to a filesystem whose creation then fails goes with it.)
`EndIsTold`: a filesystem that disappears has a task that says so, a deletion that
succeeded or a creation that failed; and a rollback that is reported successful has
deleted the filesystem, unless a deletion took the mount targets from under it, which
then still is at it or has told its client that it failed.
`ImplementsProvisioning`: the refinement of `Provisioning`. Whatever fails, the filesystem comes
once and goes once; it goes by the rollback of a creation that is known to have failed, or
by one deletion, which says so unless the answer to its call was lost; no other says so.
`LifeInv`: its inductive invariant.

*Access* (`AccountPreparation`, `UserAccess`).
`PreparedMeansGranted`: who leaves `prepareAccount` without an error leaves the group
with a policy that one of the servers wants; `PreparedOnce`: one that finds it so
changes nothing, so that versions are not used up; `CreationSucceeds`: requests that
fail half way, or race, or send a torn document, do not keep a client that tries again from
its user - which takes every call that prepares the account and creates the user to be
among the actions of the session, and fails only where the versions are used up or the
filesystem has a tag `ResourceName`.
`CreatedMayMount`: a user whose creation was answered 200 is let in to the filesystem,
if it was created for the filesystem's group, whatever was tagged meanwhile, and is not
otherwise; `GroupKept`: no tags take the filesystem out of its group, but those of an
update that was answered with an error (the handler goes on after one);
`MissedOnlyIfUnfinished`: the only users that an update misses are those whose creation
had read the old tags and was not done when the users were listed.

*Sessions* (`SessionCache`).
`SessionHasBuffer`: a session that is handed out has the buffer left to live;
`NoTerminatedSession`: no orchestration that is short enough uses one that has ended,
whoever else shares the cache.

For each property of each passing run `PROJECT.json` names a mutant: a definition of the
model changed the way the code might plausibly be broken, under which the property is
violated. The mutants stand before the definitions they replace, marked as such.

### Where the code does something else than it says

1. `create_conflict`. `server.go:220` reports a successful rollback when all functions
   were called, also when they failed. When the second mount target is refused, the
   rollback of the first is not registered yet (line 268 of the orchestration), EFS does
   not delete a filesystem that has one, and it stays.
2. `update_rules`. `orchestration_filesystem.go:375` says it is not updating a rule the
   request omits. It is: with the value found when the request came (lines 376 and 444),
   over what another update has set since.

Worth knowing, and visible in the code or the models:

- A request without subnets completes with a filesystem that has no mount targets.
  `orchestration_filesystem.go:109` is about to use the defaults then, but the client's
  default was set from the request (line 51), and those of the account are not consulted.
- The buffer of 300 seconds that `role.go:20` counts on is less than the sleeps of one
  `retry(10, 2*time.Second, ...)`, which add up to 1022; a worker uses one session
  throughout. `NoTerminatedSession` therefore speaks of short orchestrations only.
- An update with a tag `ResourceName` overwrites what the users' admin policy compares,
  and no further user can be created: `CreateUser` would give IAM the key twice.
- A policy that has as many versions as IAM keeps cannot be changed any more, as nothing
  deletes a version: a server that wants another document creates no users then.
- A user whose deletion fails is only logged and the filesystem's deletion completes
  (`orchestration_users.go:103`); an update whose role for tagging cannot be assumed
  completes (`orchestration_filesystem.go:487`); a reset whose old key cannot be deleted
  has issued a key whose secret nobody gets (`handlers_users.go:288`); a user with two
  keys can never be reset.

## 5. Proofs

TLAPS proves these for all values of the constants, under the named assumptions of the
modules (attempts are positive numbers, and the like); what else a
theorem assumes is in its statement.

| Module | Theorem | States |
|---|---|---|
| `TaskTracker_proofs` | `SenderNeverStuck`, `StatusTellsTruth`, `FinalStatusIsKept` | `NoStuckSender`, `StatusMatchesOutcome`, `FinalStatusStays` |
| | `Refinement` | `KeepsPromise` |
| `FilesystemCreate_proofs` | `CompletedProvides` | `CompletedMeansProvisioned` |
| | `RollBackRemoves` | `RolledBackMeansRemoved`, if no call fails and the rollback's wait cannot give up before its timeout (`TimeoutFirst`) |
| `FilesystemDelete_proofs` | `CompletedDeletes`, `AtMostOneWinner`, `ErrorsAreHarmless` | `CompletedMeansDeleted`, `OneWinner`, `NoHalfDeletion` |
| | `DeletionIsAccounted`, `NoUserOutlives` | `GoneMeansSomeoneDidIt` and `NoUserLeft`, if no call fails |
| | `TasksKeepPromise` | each deletion hands over how it ended once, so its task behaves as `FlywheelTask` says |
| `FilesystemUpdate_proofs` | `UpdatesStopAtErrors`, `CompletedTags`, `RulesAreOneWish` | `AppliedInOrder`, `CompletedMeansTagged`, `OneWishIntact` |
| | `TasksKeepPromise`, `StatusTellsEnd` | each update hands over how it ended once, so its task behaves as `FlywheelTask` says; a final status says that the update is over, and how it ended |
| | `PolicyShownAsSet` | the flags of an access policy are those that are read back from its statements |
| `FilesystemUsers_proofs` | `ResetsSpareNewestKey`, `ResetReplaces`, `CreatedIsGrouped`, `DeletedLeavesNothing` | `NewestKeyStays`, `ResetReplacesKeys`, `CreatedHasAccess`, `DeletedIsGone` |
| `SessionCache_proofs` | `BufferIsKept` | `SessionHasBuffer` |
| | `BufferIsEnough` | `NoTerminatedSession` |
| `UserAccess_proofs` | `PreparationGrants`, `PreparationIsIdempotent`, `TagsKeepGroup` | `PreparedMeansGranted`, `PreparedOnce`, `GroupKept` |
| | `CreatedUsersMount`, `UpdatesReachUsers` | `CreatedMayMount`, `MissedOnlyIfUnfinished` |
| | `NormalizedTwice` | normalizing tags again changes only the name |
| `FilesystemLife_proofs` | `LifeInvariance`, `LifeRefinement` | `LifeInv`, `ImplementsProvisioning` |
| | `CompletionStands` | `CompletedStands` |
| | `EndIsAccounted` | `EndIsTold`, if no call fails and `TimeoutFirst` |
| | `GoneIsAccounted` | `GoneIsTold`, the second half of `EndIsTold`, if no call fails, whichever ends the rollback's wait |
| | `TasksKeepPromise`, `StatusTellsEnd` | creation, access points and deletions each hand over how they ended once and for their own task, so every task behaves as `FlywheelTask` says; a final status says that the goroutine is over, and how it ended |

Each module but the last has an inductive invariant `IInv` and the theorem `Invariance`,
from which the others follow. In `FilesystemLife_proofs` that is `LifeInv`, to which
`CompletionStands` and `EndIsAccounted` add what holds only until a deletion gets
somewhere.

- *Tasks.* `StatusMatchesOutcome` is not inductive: the tracker that is about to write
  may be long past the event it writes about. `Protocol` says for each place of the
  tracker where the worker can be and what the record can hold, and the reverse. The
  refinement maps a worker that handed over its error or returned to an outcome.
- *Creation.* `Progress` says what exists and is usable at each place of the worker,
  `Registered` what is on the rollback stack, `TasksTell` what outcomes imply; `Removal`
  follows the rollback step by step: at each place the mount targets are where no call
  of it can be refused. `Removal` needs that nothing fails, and that the wait for the
  mount targets is ended by the timeout, which does not report success; with ten
  attempts it is. All this is `CoreInv`; the access points whose tasks completed are told
  apart (`PointTells`), because each of them stands by itself. `Control`, the types and
  `Registered`, needs no more than the goroutines' own places, so it outlives what
  deletions do to the filesystem; so do `Concluded`, that each goroutine has handed over how
  it ended exactly when it is at its end, and `PointsOnce`.
- *Life, the refinement.* Most steps are stutters or steps of one goroutine; what has to
  be shown is that none of them is forbidden by `Provisioning`. A worker concludes once
  (`ConcludedAtEnd`: its outcome is known exactly when it is at its end), and not before
  the filesystem was made (`MadeBefore`). A rollback begins only when the creation has
  concluded with an error, so that its DeleteFileSystem is an `Undo`; one of a deletion
  that is accepted and answered ends the deletion at once, so that it is a `Remove`; one
  whose answer is lost is a `LoseAnswer`, also if the deletion then tries again. The
  filesystem's own transitions after that are stutters. `PointsOnce`, a part of the
  creation's own `IInv`, is what the creation needs of itself: an access point is asked for
  once, or its second goroutine would conclude the task of the first.
- *Life, the tasks.* `GoneIsTold` is a fact of `Provisioning`, where it is short.
  `TasksKeepPromise` needs the invariant: `HandOver` would overwrite an outcome, also one
  that was recorded. That no goroutine does is `ConcludedAtEnd`, with `PointsOnce` for the
  access points. What a final status tells follows from `FlywheelTask` and
  `ConcludedAtEnd`.
- *Life, the end.* `RolledBackOrTold` is about a rollback that meets a deletion. Until a
  deletion begins to take mount targets away (its place `unmount`) `CoreInv`, with
  `Removal`, is inductive, as below; from then on there is a deletion that is at one of
  the places that `RolledBackOrTold` names, or that has deleted the filesystem. It needs
  the hypotheses of `RolledBackMeansRemoved`, of which it is the extension.
- *Life, what was completed.* The invariant of the creation does not survive a deletion, and need not:
  `CompletedStands` is about the time until a deletion passes its checks. Until then a
  deletion has changed nothing (`DeletionPlace`) and requests about access points disturb
  nothing but the access point they name (`PointRequests`), so `CoreInv` and the
  `PointTells` of the access points that were not dropped are still inductive, by the
  very lemmas of `FilesystemCreate_proofs`.
- *Deletion.* Once the filesystem is being deleted there are no mount targets, and
  nobody can succeed again. For the users: a request that has left a user behind did so
  because another was at it (`Handled`), and that one cannot pass on without it.
- *Update.* `PassedIsMade`: a setting that an update has passed is set, by it or over it;
  `UsersFollow`: an update has tagged the users it has taken off its list, and none before
  it got there. Each step on the settings is an instance of three lemmas (`MadeStays`,
  `OrderStays`, `WishStays`).
- *Users.* `NewestKeyStays` is not inductive: a request may be about to delete a key.
  `OldKeysOnly` adds that a reset deletes only what it has seen, and that what it has seen
  is older than the key it was issued, hence never the newest.
- *Access.* That the policy says what a server wants when a request passes is not
  inductive: the request has compared the document it saw, and others may have replaced
  it since. `StepsHold` adds that what is written is always wanted by some server, so a
  document that was right when it was seen is only replaced by one that is right. For
  `PreparedOnce`, `SettledStays`: from the moment one request finds the account prepared,
  no other can unprepare it, as all write the same. For `GroupKept`, `TagsHold` follows
  what an update is about to send from the check of its group. For `CreatedMayMount`,
  `UsersHold` says what a user keeps, whatever updates put over its tags: its group, the
  name of its filesystem unless some update sent a tag `ResourceName`, and every key the
  filesystem had when its creation read it. For `MissedOnlyIfUnfinished`, `UpdatesHold`
  says that an update lists users of its group only and that those it has done with have
  the keys it sends; a user it did not list has those that its creation read.
- *Sessions.* An entry of the cache is handed out no longer than its session lives less
  the buffer.

Only model-checked: liveness (`TrackerEnds`, `StatusSettles`, `CreateSettles`,
`DeleteSettles`, `UsersGo`, `CreationSucceeds`), which is out of the prover's reach.
Every other property of a passing run is stated by a theorem.

## 6. Not modelled

- The key lookup (`kms/`), which only reads, and the table of error codes, which decides
  only how an error is worded.
- What the statements of an access policy say, other than their names; the session
  policies, other than for creating users and for deleting them with the filesystem.
- Requests that only read, other than as calls of the modelled ones.
- Lists that lag behind: what EFS or IAM lists is what there is. A list of mount targets
  that lacks one just created would let the creation take its wait for done
  (`orchestration_filesystem.go:253`).
- Lists that come in pages, names and ARNs, the choice of a zone for a one-zone
  filesystem: lists are complete, names are themselves, and the subnets of a request are
  those after the choice.
- Decoding, authentication, routing, configuration, logging: input and output.
- What a data race may do other than that one goroutine reads a variable before, during
  or after another writes it.
- Users in `FilesystemLife`: they are deleted in `FilesystemDelete` and created in
  `UserAccess`; a user that is created while the filesystem is being deleted is in neither, and may
  outlive the filesystem: nothing in the code looks for it.

## 7. Plan

Done: the modules of section 2, checked, with the proofs of section 5.

Next:

1. Users that are created while their filesystem is being deleted: `UserAccess` against
   the users' part of `FilesystemDelete`.
2. The hypotheses of the theorems that assume that no call fails: which calls have to
   succeed for `EndIsTold` and `NoUserLeft`, instead of all of them.
