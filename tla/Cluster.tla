------------------------------ MODULE Cluster ------------------------------
(***************************************************************************)
(* The world the controller of Reconciler.tla works in: the objects of one *)
(* BackupPolicy in the API server, and the actors other than ampulla that  *)
(* change them.  The user owns the policy, the garbage collector follows   *)
(* owner references, COSI provisions the bucket and the credentials, k8up  *)
(* runs the backups.  None of them is under src/: they are modelled from   *)
(* how the controller and its tests use them.                              *)
(*                                                                         *)
(* Every object has the name that NamesFor derives from PolicyName, so     *)
(* there is one variable per object, None when it does not exist.  An      *)
(* owner is the uid of a policy; 0 is no owner.                            *)
(***************************************************************************)
EXTENDS BackupConfig, Names

CONSTANTS
  None,             \* no object, no bucket, no password
  PolicyName,       \* the name of the policy
  Specs,            \* the specs a user may write
  Defaults,         \* the controller's flags
  Buckets,          \* the buckets COSI can provision
  Endpoints,        \* where COSI may say a bucket lives
  Passwords,        \* the random passwords
  DriverOutputs,    \* what a driver may put in a credentials secret
  Refusals,         \* what a driver may fail at first: "claim", "access"
  RestoredSecrets,  \* repository secrets a user may bring back from elsewhere
  Cascades,         \* how the user deletes: "background", "foreground"
  MaxIncarnations,  \* bound: policies created under the name
  MaxGeneration     \* bound: generation a user edits a policy up to

VARIABLES
  policy, claim, access, credentials, repoSecret, schedule,
  buckets,          \* the buckets provisioned so far
  snapshots,        \* the password the restic repository in a bucket was made with
  incarnations      \* policies created so far: the last uid given out

world == <<policy, claim, access, credentials, repoSecret, schedule,
           buckets, snapshots, incarnations>>

(* All of the world but one. *)
butPolicy == <<claim, access, credentials, repoSecret, schedule, buckets, snapshots, incarnations>>
butClaim == <<policy, access, credentials, repoSecret, schedule, buckets, snapshots, incarnations>>
butAccess == <<policy, claim, credentials, repoSecret, schedule, buckets, snapshots, incarnations>>
butCredentials == <<policy, claim, access, repoSecret, schedule, buckets, snapshots, incarnations>>
butRepoSecret == <<policy, claim, access, credentials, schedule, buckets, snapshots, incarnations>>
butSchedule == <<policy, claim, access, credentials, repoSecret, buckets, snapshots, incarnations>>
butSnapshots == <<policy, claim, access, credentials, repoSecret, schedule, buckets, incarnations>>

(***************************************************************************)
(* Objects.                                                                *)
(***************************************************************************)
Phases == {"", "Pending", "Ready", "Failed"}

(* The bucket in a status: nothing, the Bucket's name, or its id for clients. *)
UnsetBucket == [by |-> "", bucket |-> None]
BucketName(b) == [by |-> "name", bucket |-> b]
BucketID(b) == [by |-> "id", bucket |-> b]

(* What a message may say. *)
Texts ==
  ProblemTexts \cup
  {"waiting for the bucket", "waiting for the bucket credentials", "COSI error", "ready"}

BackupPolicyStatus ==
  [phase: Phases, observedGeneration: Nat, message: SUBSET Texts,
   bucket: [by: {"", "name", "id"}, bucket: Buckets \cup {None}],
   endpoint: Endpoints \cup {None}, credentialsSecret: BOOLEAN,
   schedule: Crons \cup {""}]

NoStatus ==
  [phase |-> "", observedGeneration |-> 0, message |-> {}, bucket |-> UnsetBucket,
   endpoint |-> None, credentialsSecret |-> FALSE, schedule |-> ""]

BackupPolicy ==
  [uid: Nat, generation: Nat, spec: Specs, deleting: BOOLEAN,
   status: BackupPolicyStatus]

(* "error" is a claim or access that is not ready and whose status has an error. *)
COSIStates == {"waiting", "error", "ready"}

BucketClaim ==
  [owner: Nat, class: ClassNames \cup {""}, state: COSIStates, bucket: Buckets \cup {None},
   deleting: BOOLEAN]

BucketAccess ==
  [owner: Nat, class: ClassNames \cup {""}, state: COSIStates, deleting: BOOLEAN]

Credentials ==
  [bucket: Buckets, endpoint: Endpoints, protocol: Protocols, missing: SUBSET SecretKeys]

(* managed: has ampulla's label.  A secret may lack the password key. *)
RepositorySecret ==
  [owner: Nat, managed: BOOLEAN, password: Passwords \cup {None}]

JobsType == {JobsFor(Config(spec, Defaults)) : spec \in Specs}

Schedule ==
  [owner: Nat, bucket: Buckets, endpoint: Endpoints, jobs: JobsType]

Optional(S) == S \cup {None}

ASSUME ConfigAssumption ==
  /\ Specs \subseteq BackupPolicySpec
  /\ Defaults \in DefaultsType

ASSUME DriverAssumption ==
  /\ DriverOutputs \subseteq [protocol: Protocols, missing: SUBSET SecretKeys]
  /\ RestoredSecrets \subseteq [managed: BOOLEAN, password: Passwords \cup {None}]

ASSUME NoneAssumption ==
  /\ None \notin Buckets \cup Endpoints \cup Passwords
  /\ None \notin BackupPolicy
  /\ None \notin BucketClaim \cup BucketAccess
  /\ None \notin Credentials \cup RepositorySecret \cup Schedule

WorldTypeOK ==
  /\ policy \in Optional(BackupPolicy)
  /\ claim \in Optional(BucketClaim)
  /\ access \in Optional(BucketAccess)
  /\ credentials \in Optional(Credentials)
  /\ repoSecret \in Optional(RepositorySecret)
  /\ schedule \in Optional(Schedule)
  /\ buckets \subseteq Buckets
  /\ snapshots \in [Buckets -> Passwords \cup {None}]
  /\ incarnations \in Nat

WorldInit ==
  /\ policy = None /\ claim = None /\ access = None
  /\ credentials = None /\ repoSecret = None /\ schedule = None
  /\ buckets = {}
  /\ snapshots = [b \in Buckets |-> None]
  /\ incarnations = 0

(***************************************************************************)
(* The user.  A background deletion takes the policy away at once and      *)
(* leaves its objects to the garbage collector, a foreground one first     *)
(* marks it - a change of its generation - and waits for them.             *)
(***************************************************************************)
CreatePolicy ==
  /\ policy = None
  /\ incarnations < MaxIncarnations
  /\ incarnations' = incarnations + 1
  /\ \E spec \in Specs :
       policy' = [uid |-> incarnations', generation |-> 1, spec |-> spec,
                  deleting |-> FALSE, status |-> NoStatus]
  /\ UNCHANGED <<claim, access, credentials, repoSecret, schedule, buckets, snapshots>>

EditSpec ==
  /\ policy # None
  /\ ~policy.deleting
  /\ policy.generation < MaxGeneration
  /\ \E spec \in Specs \ {policy.spec} :
       policy' = [policy EXCEPT !.spec = spec, !.generation = @ + 1]
  /\ UNCHANGED butPolicy

DeletePolicy ==
  /\ policy # None
  /\ \/ "background" \in Cascades /\ policy' = None
     \/ /\ "foreground" \in Cascades
        /\ ~policy.deleting
        /\ policy' = [policy EXCEPT !.deleting = TRUE, !.generation = @ + 1]
  /\ UNCHANGED butPolicy

(* A secret from a backup of the namespace, that a repository was not made against. *)
RestoreSecret ==
  /\ repoSecret = None
  /\ \E s \in RestoredSecrets :
       /\ \A b \in Buckets : snapshots[b] \in {None, s.password}
       /\ repoSecret' = [owner |-> 0, managed |-> s.managed, password |-> s.password]
  /\ UNCHANGED butRepoSecret

User == CreatePolicy \/ EditSpec \/ DeletePolicy \/ RestoreSecret

(***************************************************************************)
(* The garbage collector.  An owned object goes when its owner is gone, is *)
(* another policy of the same name, or waits for its dependents to go.     *)
(* COSI's finalizers hold a claim and an access that are being deleted.    *)
(***************************************************************************)
Orphan(owner) ==
  /\ owner # 0
  /\ policy # None => policy.uid # owner \/ policy.deleting

CollectClaim ==
  /\ claim # None
  /\ ~claim.deleting
  /\ Orphan(claim.owner)
  /\ claim' = [claim EXCEPT !.deleting = TRUE]
  /\ UNCHANGED butClaim

CollectAccess ==
  /\ access # None
  /\ ~access.deleting
  /\ Orphan(access.owner)
  /\ access' = [access EXCEPT !.deleting = TRUE]
  /\ UNCHANGED butAccess

CollectRepoSecret ==
  /\ repoSecret # None
  /\ Orphan(repoSecret.owner)
  /\ repoSecret' = None
  /\ UNCHANGED butRepoSecret

CollectSchedule ==
  /\ schedule # None
  /\ Orphan(schedule.owner)
  /\ schedule' = None
  /\ UNCHANGED butSchedule

OwnedBy(object, uid) == object # None /\ object.owner = uid

FinishDeletion ==
  /\ policy # None
  /\ policy.deleting
  /\ ~OwnedBy(claim, policy.uid)
  /\ ~OwnedBy(access, policy.uid)
  /\ ~OwnedBy(repoSecret, policy.uid)
  /\ ~OwnedBy(schedule, policy.uid)
  /\ policy' = None
  /\ UNCHANGED butPolicy

Collect ==
  CollectClaim \/ CollectAccess \/ CollectRepoSecret \/ CollectSchedule \/ FinishDeletion

(***************************************************************************)
(* COSI.  A claim gets a bucket of its own; its driver may fail first.  An *)
(* access gets a secret and is reported ready, in either order: the two    *)
(* comments in the controller that speak of it disagree.  The secret goes  *)
(* with the access.  Buckets are retained.                                 *)
(***************************************************************************)
Provision ==
  /\ claim # None
  /\ ~claim.deleting
  /\ claim.state # "ready"
  /\ \E b \in Buckets \ buckets :
       /\ claim' = [claim EXCEPT !.state = "ready", !.bucket = b]
       /\ buckets' = buckets \cup {b}
  /\ UNCHANGED <<policy, access, credentials, repoSecret, schedule, snapshots, incarnations>>

RefuseClaim ==
  /\ "claim" \in Refusals
  /\ claim # None
  /\ ~claim.deleting
  /\ claim.state = "waiting"
  /\ claim' = [claim EXCEPT !.state = "error"]
  /\ UNCHANGED butClaim

ClaimReady == claim # None /\ claim.state = "ready"

Mint ==
  /\ ClaimReady
  /\ access # None
  /\ ~access.deleting
  /\ credentials = None
  /\ \E e \in Endpoints, out \in DriverOutputs :
       credentials' = [bucket |-> claim.bucket, endpoint |-> e,
                       protocol |-> out.protocol, missing |-> out.missing]
  /\ UNCHANGED butCredentials

Grant ==
  /\ ClaimReady
  /\ access # None
  /\ ~access.deleting
  /\ access.state # "ready"
  /\ access' = [access EXCEPT !.state = "ready"]
  /\ UNCHANGED butAccess

RefuseAccess ==
  /\ "access" \in Refusals
  /\ access # None
  /\ ~access.deleting
  /\ access.state = "waiting"
  /\ access' = [access EXCEPT !.state = "error"]
  /\ UNCHANGED butAccess

Rotate ==
  /\ credentials # None
  /\ \E e \in Endpoints \ {credentials.endpoint} :
       credentials' = [credentials EXCEPT !.endpoint = e]
  /\ UNCHANGED butCredentials

FinalizeClaim ==
  /\ claim # None
  /\ claim.deleting
  /\ claim' = None
  /\ UNCHANGED butClaim

FinalizeAccess ==
  /\ access # None
  /\ access.deleting
  /\ access' = None
  /\ credentials' = None
  /\ UNCHANGED <<policy, claim, repoSecret, schedule, buckets, snapshots, incarnations>>

COSI ==
  \/ Provision \/ RefuseClaim \/ FinalizeClaim
  \/ Mint \/ Grant \/ RefuseAccess \/ Rotate \/ FinalizeAccess

(***************************************************************************)
(* k8up.  The first backup makes the restic repository in the bucket, with *)
(* the password of that moment; a job needs credentials for the bucket.    *)
(***************************************************************************)
Backup ==
  /\ schedule # None
  /\ repoSecret # None
  /\ repoSecret.password # None
  /\ credentials # None
  /\ credentials.bucket = schedule.bucket
  /\ snapshots[schedule.bucket] = None
  /\ snapshots' = [snapshots EXCEPT ![schedule.bucket] = repoSecret.password]
  /\ UNCHANGED butSnapshots

Environment == User \/ Collect \/ COSI \/ Backup

=============================================================================
