-------------------------- MODULE ReconcilerProofs --------------------------
(***************************************************************************)
(* Proofs about Reconciler.tla, for every value of its constants: any      *)
(* number of replicas, any bound on faults, edits and incarnations.        *)
(***************************************************************************)
EXTENDS BackupRequirements, TLAPS

(* The tuples that stand for the whole world but one variable. *)
USE DEF butPolicy, butClaim, butAccess, butCredentials, butRepoSecret, butSchedule,
        butSnapshots

(* The calls made after the credentials were read. *)
AfterCredentials == {"deleteSchedule", "readRepoSecret", "createRepoSecret", "applySchedule"}

(* A reconcile under way has a policy, and a bucket once it read one. *)
UnderWay(c) ==
  /\ pc[c] # "idle" => pol[c] # None
  /\ pc[c] \in AfterCredentials =>
       /\ verdict[c].status.bucket.bucket # None
       /\ verdict[c].status.endpoint # None

BucketBound == claim # None /\ claim.state = "ready" => claim.bucket # None

(* TypeOK alone is not inductive: ApplySchedule takes the bucket from the  *)
(* verdict.                                                                *)
TypeInv == TypeOK /\ BucketBound /\ \A c \in Controllers : UnderWay(c)

(* The status of a bucket that is published or waited for. *)
LEMMA BucketRefs ==
  ASSUME NEW b \in Buckets \cup {None}
  PROVE  /\ BucketName(b) \in [by: {"", "name", "id"}, bucket: Buckets \cup {None}]
         /\ BucketID(b) \in [by: {"", "name", "id"}, bucket: Buckets \cup {None}]
         /\ UnsetBucket \in [by: {"", "name", "id"}, bucket: Buckets \cup {None}]
BY DEF BucketName, BucketID, UnsetBucket

LEMMA NoStatusType == NoStatus \in BackupPolicyStatus
BY DEF NoStatus, BackupPolicyStatus, Phases, UnsetBucket

LEMMA NoVerdictType == NoVerdict \in Verdict
BY NoStatusType DEF NoVerdict, Verdict, Requeues

LEMMA ConfigType ==
  ASSUME NEW spec \in Specs
  PROVE  /\ Config(spec, Defaults).bucketClass \in ClassNames \cup {""}
         /\ Config(spec, Defaults).accessClass \in ClassNames \cup {""}
         /\ Config(spec, Defaults).mode \in Modes
         /\ Config(spec, Defaults).schedules["backup"] \in Crons \cup {""}
         /\ JobsFor(Config(spec, Defaults)) \in JobsType
BY ConfigAssumption
DEF BackupPolicySpec, DefaultsType, Config, OrDefault, Modes, JobNames, JobsType

LEMMA WaitingType ==
  ASSUME NEW text \in Texts, NEW state \in COSIStates,
         NEW ref \in [by: {"", "name", "id"}, bucket: Buckets \cup {None}]
  PROVE  Waiting(text, state, ref) \in BackupPolicyStatus
BY NoStatusType DEF Waiting, WaitMessage, BackupPolicyStatus, Phases, NoStatus, Texts

LEMMA FailedType ==
  ASSUME NEW spec
  PROVE  [NoStatus EXCEPT !.phase = "Failed", !.message = Problems(spec, Defaults)]
           \in BackupPolicyStatus
<1>1. Problems(spec, Defaults) \in SUBSET Texts
  BY DEF Problems, Texts
<1> QED
  BY <1>1, NoStatusType DEF BackupPolicyStatus, NoStatus, Phases

(***************************************************************************)
(* Type correctness.  The parts of TypeInv that a step touches: the world, *)
(* the reconcile that is under way, and the cache.                         *)
(***************************************************************************)
WorldOK == WorldTypeOK /\ BucketBound

ControlOK ==
  /\ pc \in [Controllers -> Calls \cup CachedReads \cup {"idle"}]
  /\ pol \in [Controllers -> Optional(BackupPolicy)]
  /\ verdict \in [Controllers -> Verdict]
  /\ queued \in [Controllers -> BOOLEAN]
  /\ timer \in [Controllers -> BOOLEAN]
  /\ faults \in Nat
  /\ \A c \in Controllers : UnderWay(c)

CacheOK ==
  /\ seenPolicy \in [Controllers -> Optional(BackupPolicy)]
  /\ seenClaim \in [Controllers -> Optional([state: COSIStates, bucket: Optional(Buckets)])]
  /\ seenAccess \in [Controllers -> Optional([state: COSIStates])]
  /\ seenRepo \in [Controllers -> Optional([hasPassword: BOOLEAN])]

LEMMA TypeInvParts == TypeInv <=> WorldOK /\ ControlOK /\ CacheOK
BY DEF TypeInv, TypeOK, ControllerTypeOK, WorldOK, ControlOK, CacheOK

LEMMA TypeInvNext == TypeInv' <=> WorldOK' /\ ControlOK' /\ CacheOK'
BY DEF TypeInv, TypeOK, ControllerTypeOK, WorldOK, ControlOK, CacheOK

LEMMA TypeInit == Init => TypeInv
<1> SUFFICES ASSUME Init PROVE TypeInv
  OBVIOUS
<1>1. WorldOK
  BY DEF Init, WorldInit, WorldOK, WorldTypeOK, BucketBound, Optional
<1>2. ControlOK
  BY NoVerdictType DEF Init, ControllerInit, ControlOK, Optional, UnderWay, AfterCredentials
<1>3. CacheOK
  BY DEF Init, ControllerInit, CacheOK, Optional
<1> QED
  BY <1>1, <1>2, <1>3, TypeInvParts

(* The user. *)
LEMMA UserType ==
  ASSUME TypeInv, User
  PROVE  WorldOK'
<1> USE TypeInvParts DEF WorldOK, WorldTypeOK, BucketBound, Optional
<1>1. CASE CreatePolicy
  <2>1. PICK spec \in Specs :
          policy' = [uid |-> incarnations', generation |-> 1, spec |-> spec,
                     deleting |-> FALSE, status |-> NoStatus]
    BY <1>1 DEF CreatePolicy
  <2> QED
    BY <1>1, <2>1, NoStatusType DEF CreatePolicy, BackupPolicy
<1>2. CASE EditSpec
  <2>1. PICK spec \in Specs :
          policy' = [policy EXCEPT !.spec = spec, !.generation = @ + 1]
    BY <1>2 DEF EditSpec
  <2>2. policy \in BackupPolicy /\ policy.generation + 1 \in Nat
    BY <1>2 DEF EditSpec, BackupPolicy
  <2>3. policy' \in BackupPolicy
    BY <2>1, <2>2 DEF BackupPolicy
  <2> QED
    BY <1>2, <2>3 DEF EditSpec
<1>3. CASE DeletePolicy
  <2>1. policy \in BackupPolicy /\ policy.generation + 1 \in Nat
    BY <1>3 DEF DeletePolicy, BackupPolicy
  <2>2. [policy EXCEPT !.deleting = TRUE, !.generation = @ + 1] \in BackupPolicy
    BY <2>1 DEF BackupPolicy
  <2> QED
    BY <1>3, <2>2 DEF DeletePolicy
<1>4. CASE RestoreSecret
  BY <1>4, DriverAssumption DEF RestoreSecret, RepositorySecret
<1> QED
  BY <1>1, <1>2, <1>3, <1>4 DEF User

(* The garbage collector. *)
LEMMA CollectType ==
  ASSUME TypeInv, Collect
  PROVE  WorldOK'
<1> USE TypeInvParts DEF WorldOK, WorldTypeOK, BucketBound, Optional
<1>1. CASE CollectClaim
  BY <1>1 DEF CollectClaim, BucketClaim
<1>2. CASE CollectAccess
  BY <1>2 DEF CollectAccess, BucketAccess
<1>3. CASE CollectRepoSecret
  BY <1>3 DEF CollectRepoSecret
<1>4. CASE CollectSchedule
  BY <1>4 DEF CollectSchedule
<1>5. CASE FinishDeletion
  BY <1>5 DEF FinishDeletion
<1> QED
  BY <1>1, <1>2, <1>3, <1>4, <1>5 DEF Collect

(* COSI: a bucket is minted for only when the claim has one. *)
LEMMA COSIType ==
  ASSUME TypeInv, COSI
  PROVE  WorldOK'
<1> USE TypeInvParts DEF WorldOK, WorldTypeOK, BucketBound, Optional
<1>1. CASE Provision
  BY <1>1, NoneAssumption DEF Provision, BucketClaim, COSIStates
<1>2. CASE RefuseClaim
  BY <1>2 DEF RefuseClaim, BucketClaim, COSIStates
<1>3. CASE Mint
  <2>1. claim.bucket \in Buckets
    BY <1>3 DEF Mint, ClaimReady, BucketClaim
  <2> QED
    BY <1>3, <2>1, DriverAssumption DEF Mint, Credentials
<1>4. CASE Grant
  BY <1>4 DEF Grant, BucketAccess, COSIStates
<1>5. CASE RefuseAccess
  BY <1>5 DEF RefuseAccess, BucketAccess, COSIStates
<1>6. CASE Rotate
  BY <1>6 DEF Rotate, Credentials
<1>7. CASE FinalizeClaim
  BY <1>7 DEF FinalizeClaim
<1>8. CASE FinalizeAccess
  BY <1>8 DEF FinalizeAccess
<1> QED
  BY <1>1, <1>2, <1>3, <1>4, <1>5, <1>6, <1>7, <1>8 DEF COSI

(* k8up. *)
LEMMA BackupType ==
  ASSUME TypeInv, Backup
  PROVE  WorldOK'
BY TypeInvParts
DEF Backup, WorldOK, WorldTypeOK, BucketBound, Optional, Schedule, RepositorySecret

LEMMA EnvironmentType ==
  ASSUME TypeInv, Environment, UNCHANGED controller
  PROVE  TypeInv'
<1>1. WorldOK'
  BY UserType, CollectType, COSIType, BackupType DEF Environment
<1>2. ControlOK' /\ CacheOK'
  BY TypeInvParts DEF controller, cache, queue, ControlOK, CacheOK, UnderWay
<1> QED
  BY <1>1, <1>2, TypeInvNext

(***************************************************************************)
(* How a reconcile's step ends.                                            *)
(***************************************************************************)
LEMMA LeaveType ==
  ASSUME TypeInv, NEW c \in Controllers, NEW later \in BOOLEAN, Leave(c, later),
         faults' \in Nat
  PROVE  ControlOK'
BY TypeInvParts, NoVerdictType
DEF Leave, ControlOK, Optional, UnderWay, AfterCredentials

LEMMA FaultType == TypeInv /\ Fault => faults' \in Nat
BY TypeInvParts DEF ControlOK, Fault

LEMMA LoseAnswerType ==
  ASSUME TypeInv, NEW c \in Controllers, LoseAnswer(c)
  PROVE  ControlOK'
BY LeaveType, FaultType DEF LoseAnswer

LEMMA GiveUpType ==
  ASSUME TypeInv, NEW c \in Controllers, GiveUp(c)
  PROVE  ControlOK'
BY LeaveType, TypeInvParts DEF GiveUp, ControlOK

LEMMA FinishType ==
  ASSUME TypeInv, NEW c \in Controllers, Finish(c)
  PROVE  ControlOK'
BY LeaveType, TypeInvParts DEF Finish, ControlOK

(* Going on to a call; the bucket has to be known for those that follow the *)
(* credentials.                                                             *)
LEMMA GoToType ==
  ASSUME TypeInv, NEW c \in Controllers, NEW v \in Verdict,
         NEW call \in Calls \cup CachedReads, GoTo(c, call),
         verdict' = [verdict EXCEPT ![c] = v], pc[c] # "idle",
         call \in AfterCredentials =>
           v.status.bucket.bucket # None /\ v.status.endpoint # None
  PROVE  ControlOK'
BY TypeInvParts DEF GoTo, queue, ControlOK, Optional, UnderWay

LEMMA GoOnType ==
  ASSUME TypeInv, NEW c \in Controllers,
         NEW call \in Calls \cup CachedReads, GoTo(c, call),
         UNCHANGED verdict, pc[c] # "idle",
         call \in AfterCredentials => pc[c] \in AfterCredentials
  PROVE  ControlOK'
BY TypeInvParts DEF GoTo, queue, ControlOK, Optional, UnderWay

(***************************************************************************)
(* The calls of a reconcile, each with the facts its step rests on.        *)
(***************************************************************************)
LEMMA StartType ==
  ASSUME TypeInv, NEW c \in Controllers,
         StartGone(c) \/ StartRejected(c) \/ StartProvisioning(c)
  PROVE  TypeInv'
<1>1. WorldOK' /\ CacheOK'
  BY TypeInvParts
  DEF StartGone, StartRejected, StartProvisioning, Start, Dequeue, world, cache,
      WorldOK, WorldTypeOK, BucketBound, CacheOK
<1>2. ASSUME StartGone(c) PROVE ControlOK'
  BY <1>2, TypeInvParts DEF StartGone, Dequeue, ControlOK, UnderWay
<1>3. ASSUME StartRejected(c) PROVE ControlOK'
  <2> DEFINE v == [status |-> [NoStatus EXCEPT !.phase = "Failed",
                                 !.message = Problems(seenPolicy[c].spec, Defaults)],
                   requeue |-> ""]
  <2>1. v \in Verdict
    BY FailedType DEF Verdict, Requeues
  <2>2. verdict' = [verdict EXCEPT ![c] = v]
    BY <1>3 DEF StartRejected, Conclude
  <2>3. seenPolicy[c] \in BackupPolicy
    BY <1>3, TypeInvParts DEF StartRejected, Start, CacheOK, Optional
  <2> HIDE DEF v
  <2> QED
    BY <1>3, <2>1, <2>2, <2>3, TypeInvParts, NoneAssumption
    DEF StartRejected, Start, Dequeue, ControlOK, UnderWay, Optional, Calls, AfterCredentials
<1>4. ASSUME StartProvisioning(c) PROVE ControlOK'
  <2>1. seenPolicy[c] \in BackupPolicy
    BY <1>4, TypeInvParts DEF StartProvisioning, Start, CacheOK, Optional
  <2> QED
    BY <1>4, <2>1, TypeInvParts, NoneAssumption
    DEF StartProvisioning, Start, Dequeue, ControlOK, UnderWay, Optional, Calls,
        AfterCredentials
<1> QED
  BY <1>1, <1>2, <1>3, <1>4, TypeInvNext

(* The policy a reconcile works from. *)
LEMMA PolType ==
  ASSUME TypeInv, NEW c \in Controllers, pc[c] # "idle"
  PROVE  /\ pol[c] \in BackupPolicy
         /\ Owner(c) \in Nat
         /\ Resolved(c).bucketClass \in ClassNames \cup {""}
         /\ Resolved(c).accessClass \in ClassNames \cup {""}
         /\ Resolved(c).mode \in Modes
         /\ Resolved(c).schedules["backup"] \in Crons \cup {""}
         /\ JobsFor(Resolved(c)) \in JobsType
<1>1. pol[c] \in BackupPolicy
  BY TypeInvParts DEF ControlOK, UnderWay, Optional
<1>2. pol[c].spec \in Specs /\ pol[c].uid \in Nat
  BY <1>1 DEF BackupPolicy
<1> QED
  BY <1>1, <1>2, ConfigType DEF Resolved, Owner

LEMMA ApplyClaimType ==
  ASSUME TypeInv, NEW c \in Controllers, ApplyClaim(c)
  PROVE  TypeInv'
<1>1. WorldOK'
  <2>1. Owner(c) \in Nat /\ Resolved(c).bucketClass \in ClassNames \cup {""}
    BY PolType DEF ApplyClaim
  <2>2. CASE UNCHANGED claim
    BY <2>2, TypeInvParts DEF ApplyClaim, WorldOK, WorldTypeOK, BucketBound
  <2>3. CASE claim = None /\ claim' # claim
    <3> DEFINE made == [owner |-> Owner(c), class |-> Resolved(c).bucketClass,
                        state |-> "waiting", bucket |-> None, deleting |-> FALSE]
    <3>1. made \in BucketClaim /\ made.state = "waiting"
      BY <2>1 DEF BucketClaim, COSIStates
    <3>2. claim' = made
      BY <2>3 DEF ApplyClaim
    <3> HIDE DEF made
    <3> QED
      BY <3>1, <3>2, TypeInvParts DEF ApplyClaim, WorldOK, WorldTypeOK, BucketBound, Optional
  <2>4. CASE claim # None /\ claim' # claim
    BY <2>1, <2>4, TypeInvParts
    DEF ApplyClaim, WorldOK, WorldTypeOK, BucketBound, Optional, BucketClaim
  <2> QED
    BY <2>2, <2>3, <2>4
<1>2. ControlOK'
  BY GoOnType, LoseAnswerType, GiveUpType
  DEF ApplyClaim, Answer, CachedReads, AfterCredentials
<1>3. CacheOK'
  BY TypeInvParts DEF ApplyClaim, cache, CacheOK
<1> QED
  BY <1>1, <1>2, <1>3, TypeInvNext

LEMMA ApplyAccessType ==
  ASSUME TypeInv, NEW c \in Controllers, ApplyAccess(c)
  PROVE  TypeInv'
<1>1. WorldOK'
  <2>1. Owner(c) \in Nat /\ Resolved(c).accessClass \in ClassNames \cup {""}
    BY PolType DEF ApplyAccess
  <2>2. CASE UNCHANGED access
    BY <2>2, TypeInvParts DEF ApplyAccess, WorldOK, WorldTypeOK, BucketBound
  <2>3. CASE access = None /\ access' # access
    <3> DEFINE made == [owner |-> Owner(c), class |-> Resolved(c).accessClass,
                        state |-> "waiting", deleting |-> FALSE]
    <3>1. made \in BucketAccess /\ made.state = "waiting"
      BY <2>1 DEF BucketAccess, COSIStates
    <3>2. access' = made
      BY <2>3 DEF ApplyAccess
    <3> HIDE DEF made
    <3> QED
      BY <3>1, <3>2, TypeInvParts DEF ApplyAccess, WorldOK, WorldTypeOK, BucketBound, Optional
  <2>4. CASE access # None /\ access' # access
    BY <2>1, <2>4, TypeInvParts
    DEF ApplyAccess, WorldOK, WorldTypeOK, BucketBound, Optional, BucketAccess
  <2> QED
    BY <2>2, <2>3, <2>4
<1>2. ControlOK'
  BY GoOnType, LoseAnswerType, GiveUpType
  DEF ApplyAccess, Answer, CachedReads, AfterCredentials
<1>3. CacheOK'
  BY TypeInvParts DEF ApplyAccess, cache, CacheOK
<1> QED
  BY <1>1, <1>2, <1>3, TypeInvNext

(* A step that only reads leaves the world and the cache as they are. *)
LEMMA ReadOnlyType ==
  ASSUME TypeInv, UNCHANGED <<world, cache>>
  PROVE  WorldOK' /\ CacheOK'
BY TypeInvParts DEF world, cache, WorldOK, WorldTypeOK, BucketBound, CacheOK

LEMMA ReadClaimType ==
  ASSUME TypeInv, NEW c \in Controllers, ReadClaim(c)
  PROVE  TypeInv'
<1> DEFINE waiting == Waiting("waiting for the bucket", seenClaim[c].state, UnsetBucket)
           bound == [NoStatus EXCEPT !.bucket = BucketName(seenClaim[c].bucket)]
<1>1. seenClaim[c] # None => seenClaim[c].state \in COSIStates
                          /\ seenClaim[c].bucket \in Buckets \cup {None}
  BY TypeInvParts DEF CacheOK, Optional
<1>2. ASSUME seenClaim[c] # None,
             verdict' = [verdict EXCEPT ![c] = [status |-> waiting, requeue |-> ""]],
             GoTo(c, "writeStatus")
      PROVE  ControlOK'
  <2>1. waiting \in BackupPolicyStatus
    BY <1>1, <1>2, WaitingType DEF Texts, UnsetBucket
  <2> HIDE DEF waiting
  <2>2. [status |-> waiting, requeue |-> ""] \in Verdict
    BY <2>1 DEF Verdict, Requeues
  <2> QED
    BY <1>2, <2>2, GoToType DEF ReadClaim, Calls, AfterCredentials
<1>3. ASSUME seenClaim[c] # None,
             verdict' = [verdict EXCEPT ![c] = [status |-> bound, requeue |-> ""]],
             GoTo(c, "applyAccess")
      PROVE  ControlOK'
  <2>1. bound \in BackupPolicyStatus
    BY <1>1, <1>3, NoStatusType, BucketRefs DEF BackupPolicyStatus
  <2> HIDE DEF bound
  <2>2. [status |-> bound, requeue |-> ""] \in Verdict
    BY <2>1 DEF Verdict, Requeues
  <2> QED
    BY <1>3, <2>2, GoToType DEF ReadClaim, Calls, AfterCredentials
<1>4. ControlOK'
  BY <1>2, <1>3, GiveUpType DEF ReadClaim, Conclude
<1> QED
  BY <1>4, ReadOnlyType, TypeInvNext DEF ReadClaim

LEMMA ReadAccessType ==
  ASSUME TypeInv, NEW c \in Controllers, ReadAccess(c)
  PROVE  TypeInv'
<1> DEFINE waiting == Waiting("waiting for the bucket credentials", seenAccess[c].state,
                              verdict[c].status.bucket)
<1>1. ASSUME seenAccess[c] # None,
             verdict' = [verdict EXCEPT ![c] = [status |-> waiting, requeue |-> ""]],
             GoTo(c, "writeStatus")
      PROVE  ControlOK'
  <2>1. /\ seenAccess[c].state \in COSIStates
        /\ verdict[c].status.bucket \in [by: {"", "name", "id"}, bucket: Buckets \cup {None}]
    BY <1>1, TypeInvParts DEF CacheOK, ControlOK, Optional, Verdict, BackupPolicyStatus
  <2>2. waiting \in BackupPolicyStatus
    BY <2>1, WaitingType DEF Texts
  <2> HIDE DEF waiting
  <2>3. [status |-> waiting, requeue |-> ""] \in Verdict
    BY <2>2 DEF Verdict, Requeues
  <2> QED
    BY <1>1, <2>3, GoToType DEF ReadAccess, Calls, AfterCredentials
<1>2. ASSUME GoTo(c, "readCredentials"), UNCHANGED verdict
      PROVE  ControlOK'
  BY <1>2, GoOnType DEF ReadAccess, Calls, AfterCredentials
<1>3. ControlOK'
  BY <1>1, <1>2, GiveUpType DEF ReadAccess, Conclude
<1> QED
  BY <1>3, ReadOnlyType, TypeInvNext DEF ReadAccess

LEMMA ReadCredentialsType ==
  ASSUME TypeInv, NEW c \in Controllers, ReadCredentials(c)
  PROVE  TypeInv'
<1> DEFINE waiting == Waiting("waiting for the bucket credentials", "waiting", UnsetBucket)
           next == IF Resolved(c).mode = "BucketOnly" THEN "deleteSchedule"
                                                      ELSE "readRepoSecret"
<1>1. ASSUME verdict' = [verdict EXCEPT ![c] =
                           [status |-> waiting, requeue |-> CredentialsRetry]],
             GoTo(c, "writeStatus")
      PROVE  ControlOK'
  <2>1. waiting \in BackupPolicyStatus
    BY WaitingType DEF Texts, UnsetBucket, COSIStates
  <2> HIDE DEF waiting
  <2>2. [status |-> waiting, requeue |-> CredentialsRetry] \in Verdict
    BY <2>1 DEF Verdict, Requeues
  <2> QED
    BY <1>1, <2>2, GoToType DEF ReadCredentials, Calls, AfterCredentials
<1>2. ASSUME credentials # None,
             verdict' = [verdict EXCEPT ![c] =
                           [status |-> BucketStatus, requeue |-> ResyncInterval]],
             GoTo(c, next)
      PROVE  ControlOK'
  <2>1. credentials.bucket \in Buckets /\ credentials.endpoint \in Endpoints
    BY <1>2, TypeInvParts DEF WorldOK, WorldTypeOK, Optional, Credentials
  <2>2. BucketStatus \in BackupPolicyStatus
    BY <2>1, NoStatusType, BucketRefs DEF BucketStatus, BackupPolicyStatus, Phases, Texts
  <2>3. /\ BucketStatus.bucket.bucket # None
        /\ BucketStatus.endpoint # None
    BY <2>1, NoneAssumption DEF BucketStatus, NoStatus, BucketID
  <2> DEFINE v == [status |-> BucketStatus, requeue |-> ResyncInterval]
  <2>4. v \in Verdict /\ v.status = BucketStatus
    BY <2>2 DEF Verdict, Requeues
  <2>5. next \in Calls \cup CachedReads
    BY DEF Calls, CachedReads
  <2> HIDE DEF v, next
  <2>6. verdict' = [verdict EXCEPT ![c] = v]
    BY <1>2 DEF v
  <2> QED
    BY <1>2, <2>3, <2>4, <2>5, <2>6, GoToType DEF ReadCredentials
<1>3. ControlOK'
  BY <1>1, <1>2, GiveUpType DEF ReadCredentials, Conclude
<1> QED
  BY <1>3, ReadOnlyType, TypeInvNext DEF ReadCredentials

LEMMA DeleteScheduleType ==
  ASSUME TypeInv, NEW c \in Controllers, DeleteSchedule(c)
  PROVE  TypeInv'
<1>1. WorldOK'
  BY TypeInvParts DEF DeleteSchedule, WorldOK, WorldTypeOK, BucketBound, Optional
<1>2. ControlOK'
  BY GoOnType, LoseAnswerType DEF DeleteSchedule, Answer, Calls, AfterCredentials
<1>3. CacheOK'
  BY TypeInvParts DEF DeleteSchedule, cache, CacheOK
<1> QED
  BY <1>1, <1>2, <1>3, TypeInvNext

LEMMA ReadRepoSecretType ==
  ASSUME TypeInv, NEW c \in Controllers, ReadRepoSecret(c)
  PROVE  TypeInv'
<1>1. ControlOK'
  BY GoOnType, GiveUpType DEF ReadRepoSecret, Calls, AfterCredentials
<1> QED
  BY <1>1, ReadOnlyType, TypeInvNext DEF ReadRepoSecret

LEMMA CreateRepoSecretType ==
  ASSUME TypeInv, NEW c \in Controllers, CreateRepoSecret(c)
  PROVE  TypeInv'
<1>1. repoSecret' \in Optional(RepositorySecret)
  <2>1. CASE UNCHANGED repoSecret
    BY <2>1, TypeInvParts DEF WorldOK, WorldTypeOK
  <2>2. ASSUME NEW p \in FreshPasswords,
               repoSecret' = [owner |-> Owner(c), managed |-> TRUE, password |-> p]
        PROVE  repoSecret' \in RepositorySecret
    <3>1. Owner(c) \in Nat /\ p \in Passwords
      BY <2>2, PolType DEF CreateRepoSecret, FreshPasswords
    <3> QED
      BY <2>2, <3>1 DEF RepositorySecret
  <2> QED
    BY <2>1, <2>2 DEF CreateRepoSecret, Optional
<1>2. WorldOK'
  BY <1>1, TypeInvParts DEF CreateRepoSecret, WorldOK, WorldTypeOK, BucketBound
<1>3. ControlOK'
  BY GoOnType, LoseAnswerType DEF CreateRepoSecret, Answer, Calls, AfterCredentials
<1>4. CacheOK'
  BY TypeInvParts DEF CreateRepoSecret, cache, CacheOK
<1> QED
  BY <1>2, <1>3, <1>4, TypeInvNext

LEMMA ApplyScheduleType ==
  ASSUME TypeInv, NEW c \in Controllers, ApplySchedule(c)
  PROVE  TypeInv'
<1>1. /\ verdict[c] \in Verdict
      /\ verdict[c].status \in BackupPolicyStatus
      /\ verdict[c].status.bucket.bucket \in Buckets
      /\ verdict[c].status.endpoint \in Endpoints
  BY TypeInvParts
  DEF ApplySchedule, ControlOK, UnderWay, AfterCredentials, Verdict, BackupPolicyStatus
<1>2. schedule' \in Schedule
  BY <1>1, PolType DEF ApplySchedule, Schedule
<1>3. WorldOK'
  BY <1>2, TypeInvParts DEF ApplySchedule, WorldOK, WorldTypeOK, BucketBound, Optional
<1>4. ASSUME GoTo(c, "writeStatus"),
             verdict' = [verdict EXCEPT ![c].status.schedule = Resolved(c).schedules["backup"]]
      PROVE  ControlOK'
  <2> DEFINE status == [verdict[c].status EXCEPT !.schedule = Resolved(c).schedules["backup"]]
             v == [verdict[c] EXCEPT !.status = status]
  <2>1. status \in BackupPolicyStatus
    BY <1>1, PolType DEF ApplySchedule, BackupPolicyStatus
  <2>2. verdict' = [verdict EXCEPT ![c] = v]
    BY <1>1, <1>4 DEF Verdict
  <2> HIDE DEF status
  <2>3. v \in Verdict
    BY <1>1, <2>1 DEF Verdict
  <2> HIDE DEF v
  <2> QED
    BY <1>4, <2>2, <2>3, GoToType DEF ApplySchedule, Calls, AfterCredentials
<1>5. ControlOK'
  BY <1>4, LoseAnswerType DEF ApplySchedule
<1>6. CacheOK'
  BY TypeInvParts DEF ApplySchedule, cache, CacheOK
<1> QED
  BY <1>3, <1>5, <1>6, TypeInvNext

LEMMA WantType ==
  ASSUME TypeInv, NEW c \in Controllers, pc[c] # "idle"
  PROVE  Want(c) \in BackupPolicyStatus
<1>1. verdict[c].status \in BackupPolicyStatus
  BY TypeInvParts DEF ControlOK, Verdict
<1>2. pol[c].generation \in Nat
  BY PolType DEF BackupPolicy
<1> QED
  BY <1>1, <1>2 DEF Want, BackupPolicyStatus

LEMMA WriteStatusType ==
  ASSUME TypeInv, NEW c \in Controllers, KeepStatus(c) \/ WriteStatus(c)
  PROVE  TypeInv'
<1>1. Want(c) \in BackupPolicyStatus
  BY WantType DEF KeepStatus, WriteStatus
<1>2. WorldOK'
  BY <1>1, TypeInvParts
  DEF KeepStatus, WriteStatus, world, WorldOK, WorldTypeOK, BucketBound, Optional, BackupPolicy
<1>3. ControlOK'
  BY FinishType, GiveUpType, LoseAnswerType DEF KeepStatus, WriteStatus
<1>4. CacheOK'
  BY TypeInvParts DEF KeepStatus, WriteStatus, cache, CacheOK
<1> QED
  BY <1>2, <1>3, <1>4, TypeInvNext

LEMMA ReconcileType ==
  ASSUME TypeInv, NEW c \in Controllers, Reconcile(c)
  PROVE  TypeInv'
BY StartType, ApplyClaimType, ReadClaimType, ApplyAccessType, ReadAccessType,
   ReadCredentialsType, DeleteScheduleType, ReadRepoSecretType, CreateRepoSecretType,
   ApplyScheduleType, WriteStatusType
DEF Reconcile

(***************************************************************************)
(* What wakes a replica, and a new process.                                *)
(***************************************************************************)
LEMMA ViewTypes ==
  ASSUME TypeInv
  PROVE  /\ ClaimView \in Optional([state: COSIStates, bucket: Optional(Buckets)])
         /\ AccessView \in Optional([state: COSIStates])
         /\ RepoView \in Optional([hasPassword: BOOLEAN])
BY TypeInvParts
DEF WorldOK, WorldTypeOK, Optional, ClaimView, AccessView, RepoView, BucketClaim,
    BucketAccess, RepositorySecret

LEMMA EventType ==
  ASSUME TypeInv, NEW c \in Controllers,
         SyncPolicy(c) \/ SyncOwned(c) \/ TimerFires(c) \/ OtherEvent(c)
  PROVE  TypeInv'
<1>1. WorldOK'
  BY TypeInvParts
  DEF SyncPolicy, SyncOwned, SyncClaim, SyncAccess, SyncRepo, TimerFires, OtherEvent,
      world, WorldOK, WorldTypeOK, BucketBound
<1>2. ControlOK'
  BY TypeInvParts
  DEF SyncPolicy, SyncOwned, SyncClaim, SyncAccess, SyncRepo, TimerFires, OtherEvent,
      Wake, queue, ControlOK, UnderWay
<1>3. CacheOK'
  BY ViewTypes, TypeInvParts
  DEF SyncPolicy, SyncOwned, SyncClaim, SyncAccess, SyncRepo, TimerFires, OtherEvent,
      cache, CacheOK, WorldOK, WorldTypeOK
<1> QED
  BY <1>1, <1>2, <1>3, TypeInvNext

LEMMA RestartType ==
  ASSUME TypeInv, NEW c \in Controllers, Restart(c)
  PROVE  TypeInv'
<1>1. WorldOK'
  BY TypeInvParts DEF Restart, world, WorldOK, WorldTypeOK, BucketBound
<1>2. ControlOK'
  BY TypeInvParts, FaultType, NoVerdictType
  DEF Restart, ControlOK, Optional, UnderWay, AfterCredentials
<1>3. CacheOK'
  BY ViewTypes, TypeInvParts DEF Restart, CacheOK, WorldOK, WorldTypeOK
<1> QED
  BY <1>1, <1>2, <1>3, TypeInvNext

LEMMA CallFailsType ==
  ASSUME TypeInv, NEW c \in Controllers, CallFails(c)
  PROVE  TypeInv'
BY ReadOnlyType, LoseAnswerType, TypeInvNext DEF CallFails

LEMMA TypeStep == TypeInv /\ [Next]_vars => TypeInv'
<1> SUFFICES ASSUME TypeInv, [Next]_vars PROVE TypeInv'
  OBVIOUS
<1>1. CASE Environment /\ UNCHANGED controller
  BY <1>1, EnvironmentType
<1>2. ASSUME NEW c \in Controllers, Step(c) PROVE TypeInv'
  BY <1>2, ReconcileType, CallFailsType, EventType, RestartType DEF Step
<1>3. CASE UNCHANGED vars
  <2>1. UNCHANGED <<world, cache>> /\ UNCHANGED <<pc, pol, verdict, queued, timer, faults>>
    BY <1>3 DEF vars, controller, queue
  <2>2. ControlOK'
    BY <2>1, TypeInvParts DEF ControlOK, UnderWay
  <2> QED
    BY <2>1, <2>2, ReadOnlyType, TypeInvNext
<1> QED
  BY <1>1, <1>2, <1>3 DEF Next

(***************************************************************************)
(* The clusters that racing replicas start on.                             *)
(***************************************************************************)
(* What the policy says there. *)
LEMMA ProvisionedPolicy ==
  ASSUME ProvisionedInit
  PROVE  /\ policy.generation = 1 /\ policy.status.observedGeneration = 1
         /\ policy.status.phase = "Pending" /\ policy.status.schedule = ""
         /\ ~policy.status.credentialsSecret
         /\ Actionable(policy.spec, Defaults)
<1>1. PICK spec \in Specs, b \in Buckets :
        /\ Actionable(spec, Defaults)
        /\ policy = [uid |-> 1, generation |-> 1, spec |-> spec, deleting |-> FALSE,
                     status |-> [NoStatus EXCEPT
                       !.phase = "Pending", !.observedGeneration = 1,
                       !.message = {"waiting for the bucket credentials"},
                       !.bucket = BucketName(b)]]
  BY DEF ProvisionedInit
<1>2. /\ policy.generation = 1 /\ policy.spec = spec
      /\ policy.status = [NoStatus EXCEPT
                           !.phase = "Pending", !.observedGeneration = 1,
                           !.message = {"waiting for the bucket credentials"},
                           !.bucket = BucketName(b)]
  BY <1>1
<1> QED
  BY <1>1, <1>2 DEF NoStatus

LEMMA ProvisionedWorldType == ProvisionedInit => WorldOK
<1> SUFFICES ASSUME NEW spec \in Specs, NEW b \in Buckets, NEW e \in Endpoints,
                    NEW out \in DriverOutputs, Actionable(spec, Defaults),
                    policy = [uid |-> 1, generation |-> 1, spec |-> spec, deleting |-> FALSE,
                              status |-> [NoStatus EXCEPT
                                !.phase = "Pending", !.observedGeneration = 1,
                                !.message = {"waiting for the bucket credentials"},
                                !.bucket = BucketName(b)]],
                    claim = [owner |-> 1, class |-> Config(spec, Defaults).bucketClass,
                             state |-> "ready", bucket |-> b, deleting |-> FALSE],
                    access = [owner |-> 1, class |-> Config(spec, Defaults).accessClass,
                              state |-> "ready", deleting |-> FALSE],
                    credentials = [bucket |-> b, endpoint |-> e,
                                   protocol |-> out.protocol, missing |-> out.missing],
                    buckets = {b}, repoSecret = None, schedule = None,
                    snapshots = [bucket \in Buckets |-> None], incarnations = 1
             PROVE  WorldOK
  BY DEF ProvisionedInit
<1>1. policy.status \in BackupPolicyStatus
  BY NoStatusType, BucketRefs DEF BackupPolicyStatus, Phases, Texts
<1>2. policy \in BackupPolicy
  BY <1>1 DEF BackupPolicy
<1>3. claim \in BucketClaim /\ access \in BucketAccess
  BY ConfigType DEF BucketClaim, BucketAccess, COSIStates
<1>4. credentials \in Credentials
  BY DriverAssumption DEF Credentials
<1>5. BucketBound
  BY NoneAssumption DEF BucketBound
<1> QED
  BY <1>2, <1>3, <1>4, <1>5 DEF WorldOK, WorldTypeOK, Optional

LEMMA ProvisionedType == ProvisionedInit => TypeInv
<1> SUFFICES ASSUME ProvisionedInit PROVE TypeInv
  OBVIOUS
<1>1. WorldOK
  BY ProvisionedWorldType
<1>2. ControlOK
  BY NoVerdictType DEF ProvisionedInit, ControlOK, UnderWay, AfterCredentials, Optional
<1>3. CacheOK
  <2>1. policy \in Optional(BackupPolicy)
    BY <1>1 DEF WorldOK, WorldTypeOK
  <2>2. /\ ClaimView \in Optional([state: COSIStates, bucket: Optional(Buckets)])
        /\ AccessView \in Optional([state: COSIStates])
    BY <1>1
    DEF WorldOK, WorldTypeOK, Optional, ClaimView, AccessView, BucketClaim, BucketAccess
  <2>3. /\ seenPolicy = [c \in Controllers |-> policy]
        /\ seenClaim = [c \in Controllers |-> ClaimView]
        /\ seenAccess = [c \in Controllers |-> AccessView]
        /\ seenRepo = [c \in Controllers |-> None]
    BY DEF ProvisionedInit
  <2> HIDE DEF ProvisionedInit
  <2> QED
    BY <2>1, <2>2, <2>3 DEF CacheOK, Optional
<1> QED
  BY <1>1, <1>2, <1>3, TypeInvParts

(* A reconcile never goes on to the Schedule without a bucket and an       *)
(* endpoint to put in it, nor without a policy (desiredPhase): what makes  *)
(* the types inductive.                                                    *)
THEOREM TypesAreInductive == Spec \/ ProvisionedSpec => []TypeInv
<1>1. Init \/ ProvisionedInit => TypeInv
  BY TypeInit, ProvisionedType
<1>2. TypeInv /\ [Next]_vars => TypeInv'
  BY TypeStep
<1> QED
  BY <1>1, <1>2, PTL DEF Spec, ProvisionedSpec

(* Every variable keeps its type: a Schedule never points nowhere, whatever *)
(* a reconcile was told by the caches before it applies one.                *)
THEOREM TypeCorrect == Spec \/ ProvisionedSpec => []TypeOK
<1>1. TypeInv => TypeOK
  BY DEF TypeInv
<1> QED
  BY <1>1, TypesAreInductive, PTL

=============================================================================
