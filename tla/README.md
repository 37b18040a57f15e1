# ampulla, specified and checked

ampulla is a Kubernetes controller. A service that wants backups has a `BackupPolicy` next
to it; ampulla provisions a bucket through COSI and a k8up `Schedule` that backs up into
it, and reports on the policy how far it got. This directory holds TLA+ modules of the
controller and of the world it works in, TLC runs that check them on small instances, and
proofs checked by TLAPS that hold for every instance. Paths below are relative to the root
of the repository's source tree.

## 1. The system

### 1.1 Components

| Component | State it keeps | Operations | Here |
| --- | --- | --- | --- |
| BackupPolicy reconciler (`controllers/backuppolicy_controller_manager.go`) | none between reconciles; within one, its copy of the policy and what it concluded | `Reconcile`, `desiredPhase`, `ensureRepositoryPassword`, `deleteSchedule`, `bucket`, `applyOwned` | `Reconciler` |
| Cache and watches (`controllers/cache.go`, `SetupWithManager`) | informer cache, work queue, timers | an event reaches the cache, the key is queued, a timer fires | `Reconciler` |
| Config resolution (`internal/backup/config.go`) | none | `Resolve`, `orDefault`, `DefaultDefaults`, `DefaultRetention` | `BackupConfig`, `OperatorRequirements` |
| Credentials secret (`internal/backup/bucket.go`) | none | `BucketFromSecret` | `BackupConfig` |
| Object builders (`controllers/objects.go`) | none | `bucketClaimFor`, `bucketAccessFor`, `scheduleFor`, `retentionFor`, `controllerRef`, `objectMeta` | `BackupConfig`, `Cluster`, `Names`, the Apply steps of `Reconciler` |
| API types (`api/v1`) | the policy's spec and status | - | `BackupConfig`, `Cluster` |
| Object names (`internal/backup/names.go`) | none | `NamesFor`, `suffixed` | `Names`, `OperatorRequirements` |
| Command line, manager (`cmd/`) | flags | start, stop, leader election | `Defaults`, `Controllers`, `Restart` |
| Generated code, scheme, manifests, test environment | - | - | not modelled |
| API server, garbage collector, COSI, k8up (not in this repository) | the objects, buckets, snapshots | see 1.2 | `Cluster` |

### 1.2 How they interact

Components never call each other directly except inside a reconcile; all else goes through
objects in the API server, one of each per policy:

- the **policy** is written by its user (spec, deletion) and by ampulla (status, applied by
  name);
- the **BucketClaim** and **BucketAccess** are applied by ampulla with the policy as their
  owner; COSI fills in their status, and writes the **credentials secret** when it grants
  the access. COSI's finalizers hold both while they are deleted;
- the **repository secret**, with the restic password, is created by ampulla once and
  never applied;
- the **Schedule** is applied by ampulla, or deleted in mode `BucketOnly`, and read by k8up,
  whose first backup makes a restic repository in the bucket with the password of that
  moment;
- the **garbage collector** deletes what is owned by a policy that is gone.

A reconcile reads through an informer cache (the policy, the claim, the access, the
repository secret if it has ampulla's label), except for the credentials secret, which it
reads from the API server. It is woken by changes of the policy, the claim, the access and
the Schedule, by the retry of an error, and by the two timers it asks for itself
(`credentialsRetry`, `resyncInterval`). No secret wakes it.

### 1.3 What is hard

- **A cache that lags**, object by object, behind what the controller itself just wrote:
  the read-back of the claim, the search for the repository secret, the comparison of the
  status all see some past.
- **Interleaving**: a reconcile is up to nine calls. Users, the collector, COSI, k8up and,
  since leader election is off by default, other replicas act between any two of them.
- **Faults**: a call fails, or takes effect and its answer is lost, or the process ends.
- **Deletion and re-creation under the same name**: objects are found by name, owned by uid.
- **Wake-ups**: nothing tells the controller that a secret was written.

### 1.4 What makes each component correct

- reconciler: a repository password that was used is never replaced; a status never claims
  a generation whose spec it was not computed from; Ready means that what the spec asks for
  is there; what replicas that race do to each other is put right; a Schedule never points at
  coordinates that are not real; a policy left alone reaches a final phase; an answer stands until the spec is edited; a rotation and a refusal
  arrive; a deleted policy goes and leaves nothing;
- config resolution: a policy is rejected exactly when it has no classes or, in mode
  Schedule, no backup schedule; nothing is provisioned for one that is; what a policy sets
  itself no default overrides; a prune keeps what was asked for and never everything;
- credentials: a secret k8up cannot use is never used;
- object builders: all that is made has an owner; the Schedule has exactly the jobs asked
  for;
- names: two objects of a kind never share a name, and no name is longer than the API server
  accepts. The label that carries the policy's name may be: see `long_name` in section 5.

## 2. The modules

| Module | What it is |
| --- | --- |
| `BackupConfig` | pure operators: `Config` and `Problems` (`Resolve`), `JobsFor` (`scheduleFor`), `BucketFromSecretOK` |
| `Names` | pure operators: `suffixed` and `NamesFor`, and which names are values of a label |
| `OperatorRequirements` | what the pure operators have to get right; its constants are the sets of inputs, its states the inputs |
| `MCOperators` | values of those sets for TLC |
| `Cluster` | the objects, and the actions of the user, the garbage collector, COSI and k8up |
| `Reconciler` | the replicas: one action per call of a reconcile, the cache, the queue, timers, faults; `Spec`, `FairSpec` |
| `PasswordRegister` | abstract: a password that is written once and kept while it is held |
| `BackupContract` | abstract: reports on what is wanted, and an answer that stands |
| `BackupRequirements` | the properties, the two refinement mappings, and `ProvisionedInit` |
| `MCReconciler` | values of the constants for TLC |
| `OperatorProofs` | the requirements of `OperatorRequirements`, whatever the sets of inputs |
| `ReconcilerProofs` | types, and `TypeInv`, which makes them inductive |
| `RepositoryProofs` | `RepositoryInv`; no snapshot becomes unreadable; the system implements `PasswordRegister` |
| `StatusProofs`, `ObjectProofs`, `CoordinateProofs` | statuses, what is made and goes, and coordinates, for any number of replicas |
| `ContractProofs` | with one replica, the system implements `BackupContract` |
| `WakeProofs` | with one replica, no wake-up is lost |

`Cluster` extends `BackupConfig` and `Names`; `Reconciler` extends `Cluster`;
`BackupRequirements` extends `Reconciler` and has the abstract modules as the instances
`Register` and `Contract`. Each proof module extends the one its argument rests on:
`ReconcilerProofs`, `RepositoryProofs`, `StatusProofs`, then on one side `ObjectProofs`,
`CoordinateProofs`, `ContractProofs`, on the other `WakeProofs`.

### 2.1 State

There is one policy name. `policy`, `claim`, `access`, `credentials`, `repoSecret` and
`schedule` are the objects of the API server, `None` when they do not exist. Their names are
those `NamesFor` derives from `PolicyName`, so there is one variable for each; of the name
itself the replicas only meet its length, in `LabelAdmitted`. An owner is the uid of a policy, and policies
made under the name count 1, 2, ... in `incarnations`. `snapshots[b]` is the password that
the repository in bucket `b` was made with.

A replica `c` has `pc[c]`, the call it makes next; `pol[c]`, the copy of the policy that it
read; `verdict[c]`, the `phase` struct it will return; `seenPolicy`, `seenClaim`,
`seenAccess` and `seenRepo`, its cache; `queued[c]`, the key is in the work queue; and
`timer[c]`, it will be added later. Rate-limited retries and `RequeueAfter` are both
`timer`: when they fire is any time later.

### 2.2 From code to actions

| Code | Action |
| --- | --- |
| `Reconcile` up to `desiredPhase`; `Resolve` | `StartGone`, `StartRejected`, `StartProvisioning` |
| apply and read back the claim | `ApplyClaim`, `ReadClaim` |
| apply and read back the access | `ApplyAccess`, `ReadAccess` |
| `bucket` | `ReadCredentials` |
| `deleteSchedule` | `DeleteSchedule` |
| `ensureRepositoryPassword` | `ReadRepoSecret`, `CreateRepoSecret` |
| apply the Schedule | `ApplySchedule` |
| compare and apply the status | `KeepStatus`, `WriteStatus` |
| an error from any call | `CallFails`; `LoseAnswer` if it took effect |
| `For`, `Owns` | `SyncPolicy`, `SyncClaim`, `SyncAccess`, `OtherEvent` |
| the cache of labelled secrets | `SyncRepo` |
| the process ends and starts | `Restart` |

Code between two calls touches nothing that another actor sees, so it is part of the step
of the call before it. A cached read is a step of its own, as the cache may move between
the write and the read-back.

### 2.3 What is abstracted

Cron expressions and class names are members of small sets; `""` is one not set. A message
is the set of phrases in it, since what can be wrong about one is which phrase is there.
The region, events, logs and the remaining metadata are left out. Of a cached claim or access
only what a reconcile reads is kept. A random password is one no repository was made with.
A backup is only its first: the one that makes the repository.

In `Names` the hash in a name is the name it is taken of: SHA-256, cut to 32 bits in the
code, is taken not to collide, and no policy is named by another's hash. A name keeps its
parts (head, hash, suffix), since two names in parts that differ only differ as text if the
head of the one does not end in the hash of the other.

An API server may refuse an Apply that changes the class of a claim or an access, or take
it: that is COSI's own validation, so `Refusable` leaves both open. A secret that a user
brings back from elsewhere may lack the label or, in another case, the password.

Two comments of the controller disagree on whether COSI writes the credentials secret
before or after it reports the access ready (lines 51 and 223 of
`backuppolicy_controller_manager.go`); `Mint` and `Grant` come in either order.

Kubernetes' server-side apply is modelled by what the controller relies on: fields it no
longer names go, the owner reference becomes the one applied, an object that does not exist
is created - except a status, which is NotFound.

What the environment does not do: nobody but ampulla, the collector and, for the repository
secret, a user who restores it when it is not there, writes or deletes the objects that
ampulla makes; COSI never takes a claim or an access back once it is ready, and its driver
gives no other bucket and no useless secret after that (it changes the endpoint, in
`rotation`); a cache lags behind the API server but never goes back, so a replica that starts
lists the objects as they are.

### 2.4 Faulty definitions

A definition whose comment begins with "Faulty" is a wrong form of one that follows it and
is used by nothing. Put in its place, it has to be noticed by a property; `PROJECT.json`
lists which by which under "mutants". For that, a property never uses the definition it is
about: whether a spec can be acted on (`SpecActionable`), what k8up needs in a secret
(`UsableCredentials`) and what a prune keeps are stated anew, from the README, from what
`scheduleFor` has k8up read and from the comments of `config.go`.

### 2.5 The two abstractions

`PasswordRegister` is what the repository secret promises k8up: a password is written once,
not discarded while it is held, and there before anything is locked with it. It is
implemented with `held` as the first life of a policy, `password` as the secret's password
or `None`, and `used` as `snapshots`. Deleting the policy releases the register, and only
then may the collector discard it.

`BackupContract` is what a policy promises its owner. `wanted` is the generation of the
policy, whether its spec can be had and the jobs it asks for; `report` the generation and
phase of its status; `running` the jobs of the Schedule. What runs may change and reports
may come only as long as the latest spec has no answer; a report is never of an older
generation than the last; one of the latest generation is Failed exactly if the spec cannot
be had, and Ready only if what runs is what is wanted. An answer therefore stands until the
next edit: no lagging cache, lost answer or restart takes Ready back.

## 3. The runs

Deadlock is not checked in the runs of the reconciler: a cluster in which nothing more
happens is a good one. `operators` has no steps other than stuttering and checks it.

| Run | Specification | What it shows |
| --- | --- | --- |
| `operators` | every input is an initial state | `RetentionIsHonoured`, `OverridesPrevail`, `ShippedDefaultsAreSafe`, `ObjectNamesFit`, `PoliciesShareNothing` |
| `life` | `Spec`, one replica: from nothing; four specs, one edit, one fault, drivers that give useless secrets, secrets restored without a label or a password | `RepositoryReadableInFirstLife`, `StatusTellsTheSpecInFirstLife`, `CoordinatesAreReal`, `ReadyMeansProvisioned`, `RejectedProvisionsNothing`, `NoWakeUpIsLost`, `ContractIsKept`, `TypeOK` |
| `racing` | `ProvisionedSpec`: two replicas, both modes, one edit | the safety properties that do not need leader election: `RepositoryReadableInFirstLife`, `StatusTellsTheSpecInFirstLife`, `PasswordIsARegister`, and `RacesAreSettled` |
| `convergence` | `FairSpec`: both modes, one edit, one fault, a driver that refuses the claim or the access and need not try again | `NoWakeUpIsLost` with drivers that refuse and with lost answers, `Converges`, `BucketOnlyDropsSchedule`, `RefusalIsReported` |
| `rotation` | `ProvisionedFairSpec`: two endpoints, any number of rotations, both modes, two edits, one fault | `RotationArrives`, and `PasswordIsARegister` through a switch to `BucketOnly` and back |
| `deletion` | `ProvisionedFairSpec`: both cascades, mode BucketOnly | `NothingComesBack`, `DeletionCompletes`, `NothingOutlivesThePolicy` |
| `deletion_of_schedule` | `ProvisionedSpec`: background deletion, mode Schedule, one fault, a secret restored | `PasswordIsARegister` with its release and discard |
| `unusable_credentials` and four more | see section 5 | violated |

**Bounds.** `MaxGeneration = 2`: every generation property compares a copy with the policy,
and one edit makes them differ; a second edit makes a copy that is two behind, treated as
one that is one behind, and a switch of the mode and back, which `rotation` has
(`MaxGeneration = 3`). `MaxFaults = 1`: after a fault the replica is idle with its timer
set, as after any error, so two faults are twice one. `racing` has none: a fault leaves the
replica to its timer, and `RacesAreSettled` is about what needs none. The proofs have
neither bound. `MaxIncarnations` is 1 where the property is about the first life and 2 where
it is about a second. One bucket: a claim never gets another. Two replicas in `racing`: the
hazards are pairwise, and the proofs have any number. `racing`, `rotation` and the deletions
start from a cluster on which COSI is done (`ProvisionedInit`, reachable: the replicas that
made the claim were replaced before they saw the credentials), since before that the
replicas apply equal objects. `Passwords` has two values where one could be replaced by
another, and one in `convergence` and `rotation`, where the danger to a password is that it
goes: that another takes its place is looked for in `life`, `racing` and
`deletion_of_schedule`. In `operators` the names have the lengths around those at which a
name is cut for one of the suffixes (225 to 253) and differ in the last character, so past
the cut; every combination of set and unset fields meets every combination of defaults.

**Symmetry** (over replicas and passwords) is used in `life`, `racing` and
`deletion_of_schedule` only, which check no liveness.

**Fairness.** `Fairness` is weak fairness of a replica's worker, timers and watches, of the
garbage collector and of COSI's progress: controller-runtime runs a worker as long as the
process lives, requeues after errors, and relists when a watch breaks. A driver need not
ever try again what it failed at, so fairness of `Driver` stops at a claim or access whose
state is an error, and `Converges` ends there too (`Refused`); a driver rotates whenever it
likes; the user and k8up need never act; nothing is fair about `OtherEvent`, so no property
rests on events that happen to come.

## 4. The proofs

`tlapm` checks all eight proof modules from nothing. The theorems hold for every value of the
constants under the assumptions in `Cluster` and `Reconciler` (that specs are specs, that
`None` is none of the objects, views and values it stands in for the absence of, and that the
bound on faults is a number): for any number of edits, faults, buckets, passwords and
re-creations, and of replicas where the table says any. Where it says both, the theorem is of
`Spec` and of `ProvisionedSpec`, whose initial states the runs `racing`, `rotation` and the
deletions begin with.

| Theorem | States, always | Of | Replicas |
| --- | --- | --- | --- |
| `TypeCorrect` | `TypeOK` | both | any |
| `SnapshotsStayReadable` | `RepositoryReadableInFirstLife` | both | any |
| `PasswordIsWrittenOnce` | `PasswordIsARegister` | both | any |
| `StatusTellsTheTruth` | `StatusTellsTheSpecInFirstLife` | both | any |
| `LongNamesAreNeverServed` | (a name that is no value of a label) nothing is made for the policy, and in its first life a spec that can be acted on gets no answer | `Spec` | any |
| `WhatIsDeletedStaysDeleted` | `NothingComesBack` | both | any |
| `CoordinatesAreAlwaysReal` | `CoordinatesAreReal` | both | any |
| `NothingIsMadeOfAGuess` | `RejectedProvisionsNothing` | `Spec` | any |
| `WakeUpsAreNotLost` | `NoWakeUpIsLost` | both | one |
| `ReadyIsTheTruth` | `ReadyMeansProvisioned` | `Spec` | one |
| `TheContractIsKept` | `ContractIsKept` | `Spec` | one |
| `RetentionIsAlwaysHonoured`, `PoliciesPrevail`, `ShippedDefaultsAreAlwaysSafe`, `ObjectNamesAlwaysFit`, `PoliciesNeverShare` | the requirements of the pure operators | any inputs | - |

The invariants, in the order they build on each other:

- `TypeInv`. `TypeOK` alone is not inductive: a reconcile that applies a Schedule takes the
  bucket from its verdict, where it could be `None`. `TypeInv` adds that a ready claim has a
  bucket, and that a reconcile under way has a policy and, past the credentials, a bucket and
  an endpoint. One lemma per group of actions, put together in `TypesAreInductive`.
- `RepositoryInv`. The danger is that the secret goes or changes once a repository was made
  with it. It only changes from `None` (`CreateRepoSecret` leaves one that exists,
  `RestoreSecret` needs none and fits the repositories there are), so it must not go: its
  owner is at most the last uid given out, and the policy there is has that uid - so in the
  first life the owner is the live policy or nobody, and the collector passes by. This needs
  that every copy of a policy has a uid that was given out (`Began`), and that before the
  first policy there is no Schedule and no snapshot. From it every
  step is a step of the register, one lemma for each abstract action.
- `VerdictInv` and `StatusInv`. What a reconcile concluded fits the spec it works from; no
  copy of the policy, cached or at work, is of a later generation than the policy, and one of
  the same generation has the same spec (`UpToDate`). A status written with the copy's
  generation is then right when that generation is the policy's, and claims nothing when it
  is not. `UnservedInv`, for a name that is no value of a label, says that a reconcile of it
  gets to the claim, or rejects the spec, and no further.
- `OwnerInv`. Claims, accesses and Schedules are owned by a uid that was given out, and in the
  first life none is being deleted: so nothing that was ready or made goes while it lasts.
- `CoordinateInv`. A reconcile past the credentials has a verdict with their bucket, and they
  stay usable and of that bucket. `RejectedInv` is what makes `NothingIsMadeOfAGuess`
  inductive: a reconcile that applies anything works from a spec that can be acted on, which
  on generation 1 is the spec there is.
- `SeenInv`, `CopyInv` and `ReadyInv`, for one replica. What is cached as ready is ready; no
  copy of the policy is older than what was reported of it - false with two replicas, where
  one reports on a generation that the other has not seen; what a reconcile found at each
  call still holds at the next (`Found`), and while a status says Ready all of it does. So
  once a spec is answered, each later reconcile works on that spec, finds all ready, and
  concludes the same: the step is a stutter of the contract.

- `WakeInv`, for one replica. While the key is not in the queue, a reconcile works from the
  cache as it is, since whatever changes the cache puts the key there; at rest without a timer,
  the status tells what was seen, unless the policy is another one by now, and then the event
  is still to come; past the credentials every end of a reconcile asks for a later one. One
  replica, because `SyncPolicy` compares the values of two copies: with two writers a status
  could go there and back unseen, where real copies still differ in their resourceVersion.

`WhatIsDeletedStaysDeleted` needs nothing but the types: an idle replica whose copy is being
deleted starts nothing but `StartGone`, and no sync replaces that copy by one that is not
being deleted before a policy is created. The theorems of `OperatorProofs` are of a
specification whose states are the inputs, so that they say of all inputs what `operators`
checks of some; its lemmas say the same of each operator by itself.

The invariants and safety properties of steps that the passing runs check are each stated by
a theorem, except `RacesAreSettled`. Only model-checked are that one, the liveness properties
(fairness and `ENABLED` are beyond this prover) - `Converges`, `BucketOnlyDropsSchedule`,
`RefusalIsReported`, `RotationArrives`, `DeletionCompletes`, `NothingOutlivesThePolicy` - and
the counterexamples of section 5. `NothingOutlivesThePolicy` is checked in mode BucketOnly,
where the claim and the access are what a late reconcile leaves; with a Schedule its graph
does not finish in five minutes.

## 5. Where the code does not do what the repository says

| Run | Says | Does |
| --- | --- | --- |
| `unusable_credentials` | `internal/backup/bucket.go:39`: a secret without keys is turned "into one clear message on the policy" | the error is returned before a status is written: the policy says it waits |
| `recreated_password` | `README.md:125`: the repository password is never rewritten | a policy deleted and made again before the collector ran keeps its claim and bucket, whose owner is applied anew, and loses the secret, whose owner is not; another password is created for the same bucket |
| `recreated_status` | `api/v1/backuppolicy_types.go:122`: the generation is the one the phase was computed from | the status is applied by name, without the uid: a reconcile of the old policy writes it on the new one, until the next reconcile |
| `long_name` | `internal/backup/config.go:57`: not backing up silently "is the one outcome this controller must never produce"; `internal/backup/names_test.go:22` has names of 253 characters | the policy's name is the value of a label, which has 63 characters at most: for a longer name each Apply is refused, the error is returned before a status is written, and the policy never gets a phase (`LongNamesAreNeverServed`: no such name ever does) |
| `class_edit` | `api/v1/backuppolicy_types.go:44`: the class "is the object storage the backups are written to" | an edit of the class of a policy that has its bucket changes the claim or is refused, and the policy stays Ready with its backups in the bucket of the class of before |

Without a run, since a property of it would restate one assignment: while the access is not
ready the status has the name of the `Bucket` object (line 216 of the controller), where
`api/v1/backuppolicy_types.go:129` says the bucket as clients address it. `CoordinatesAreReal`
has that with `credentialsSecret` set it is the latter.

## 6. What is left

1. The second life: what is adopted, what is replaced, and that the status is right in the
   end. Its state space is large; it needs fewer specs and no lost answers.
2. Liveness with two replicas. The graph of `racing` with fairness does not finish in five
   minutes; one without an edit says little.
3. A repository secret without password and without label; objects of these names that
   something other than ampulla made.
4. Leader election and its hand-over. A standby fills its cache before it leads, and at the
   hand-over it may lag behind what the last leader wrote, while a call of that leader is
   still on its way. The theorems for any number of replicas cover it; `ReadyMeansProvisioned`
   and `ContractIsKept`, claimed of one replica, need not hold until the next reconcile.

Not modelled: logs and events, metrics and probes, the certificate watcher, generated code
(setters, deep copies), the registration of types, manifests and the test environment. They
hold no state of the program's own. Leader election itself is in controller-runtime.
