---------------------------- MODULE ObjectProofs ----------------------------
(***************************************************************************)
(* What is made for a policy is its own, so that nothing goes in the       *)
(* policy's first life, and what went with a policy that was deleted does  *)
(* not come back - for any number of replicas.                             *)
(***************************************************************************)
EXTENDS StatusProofs

USE DEF butPolicy, butClaim, butAccess, butCredentials, butRepoSecret, butSchedule,
        butSnapshots

Owned(object) == object # None => object.owner \in 1..incarnations

(* In the first life nothing is an orphan, so nothing goes. *)
OwnerInv ==
  /\ Owned(claim) /\ Owned(access) /\ Owned(schedule)
  /\ credentials # None => incarnations # 0
  /\ FirstLife => /\ claim # None => ~claim.deleting
                  /\ access # None => ~access.deleting

(***************************************************************************)
(* The steps, by what they do to the objects.                              *)
(***************************************************************************)
ObjectFrame(c) ==
  /\ UNCHANGED <<credentials, incarnations>>
  /\ claim' # claim =>
       /\ pc[c] = "applyClaim" /\ claim' # None
       /\ claim'.owner = pol[c].uid
       /\ claim = None => ~claim'.deleting /\ claim'.state = "waiting"
       /\ claim # None => /\ claim'.deleting = claim.deleting
                          /\ claim'.state = claim.state
                          /\ claim'.bucket = claim.bucket
  /\ access' # access =>
       /\ pc[c] = "applyAccess" /\ access' # None
       /\ access'.owner = pol[c].uid
       /\ access = None => ~access'.deleting /\ access'.state = "waiting"
       /\ access # None => access'.deleting = access.deleting /\ access'.state = access.state
  /\ schedule' # schedule =>
       \/ pc[c] = "deleteSchedule" /\ schedule' = None
       \/ /\ pc[c] = "applySchedule" /\ schedule' # None
          /\ schedule'.owner = pol[c].uid
          /\ schedule'.bucket = verdict[c].status.bucket.bucket
          /\ schedule'.jobs = JobsFor(Resolved(c))

LEMMA ClaimFrame ==
  ASSUME TypeInv, NEW c \in Controllers, ApplyClaim(c)
  PROVE  ObjectFrame(c)
<1>1. CASE UNCHANGED claim
  BY <1>1 DEF ApplyClaim, ObjectFrame
<1>2. /\ Owner(c) \in Nat /\ Owner(c) = pol[c].uid
      /\ Resolved(c).bucketClass \in ClassNames \cup {""}
  BY PolType DEF ApplyClaim, Owner
<1>3. CASE claim = None /\ claim' # claim
  <2> DEFINE made == [owner |-> Owner(c), class |-> Resolved(c).bucketClass,
                      state |-> "waiting", bucket |-> None, deleting |-> FALSE]
  <2>1. /\ made \in BucketClaim /\ made.owner = Owner(c)
        /\ ~made.deleting /\ made.state = "waiting"
    BY <1>2 DEF BucketClaim, COSIStates
  <2>2. claim' = made
    BY <1>3 DEF ApplyClaim
  <2> HIDE DEF made
  <2> QED
    BY <1>2, <1>3, <2>1, <2>2, NoneAssumption DEF ApplyClaim, ObjectFrame
<1>4. CASE claim # None /\ claim' # claim
  <2> DEFINE applied == [claim EXCEPT !.owner = Owner(c), !.class = Resolved(c).bucketClass]
  <2>1. claim \in BucketClaim
    BY <1>4, TypeInvParts DEF WorldOK, WorldTypeOK, Optional
  <2>2. /\ applied \in BucketClaim /\ applied.owner = Owner(c)
        /\ applied.deleting = claim.deleting /\ applied.state = claim.state
        /\ applied.bucket = claim.bucket
    BY <1>2, <2>1 DEF BucketClaim
  <2>3. claim' = applied
    BY <1>4 DEF ApplyClaim
  <2> HIDE DEF applied
  <2> QED
    BY <1>2, <1>4, <2>2, <2>3, NoneAssumption DEF ApplyClaim, ObjectFrame
<1> QED
  BY <1>1, <1>3, <1>4

LEMMA AccessFrame ==
  ASSUME TypeInv, NEW c \in Controllers, ApplyAccess(c)
  PROVE  ObjectFrame(c)
<1>1. CASE UNCHANGED access
  BY <1>1 DEF ApplyAccess, ObjectFrame
<1>2. /\ Owner(c) \in Nat /\ Owner(c) = pol[c].uid
      /\ Resolved(c).accessClass \in ClassNames \cup {""}
  BY PolType DEF ApplyAccess, Owner
<1>3. CASE access = None /\ access' # access
  <2> DEFINE made == [owner |-> Owner(c), class |-> Resolved(c).accessClass,
                      state |-> "waiting", deleting |-> FALSE]
  <2>1. /\ made \in BucketAccess /\ made.owner = Owner(c)
        /\ ~made.deleting /\ made.state = "waiting"
    BY <1>2 DEF BucketAccess, COSIStates
  <2>2. access' = made
    BY <1>3 DEF ApplyAccess
  <2> HIDE DEF made
  <2> QED
    BY <1>2, <1>3, <2>1, <2>2, NoneAssumption DEF ApplyAccess, ObjectFrame
<1>4. CASE access # None /\ access' # access
  <2> DEFINE applied == [access EXCEPT !.owner = Owner(c), !.class = Resolved(c).accessClass]
  <2>1. access \in BucketAccess
    BY <1>4, TypeInvParts DEF WorldOK, WorldTypeOK, Optional
  <2>2. /\ applied \in BucketAccess /\ applied.owner = Owner(c)
        /\ applied.deleting = access.deleting /\ applied.state = access.state
    BY <1>2, <2>1 DEF BucketAccess
  <2>3. access' = applied
    BY <1>4 DEF ApplyAccess
  <2> HIDE DEF applied
  <2> QED
    BY <1>2, <1>4, <2>2, <2>3, NoneAssumption DEF ApplyAccess, ObjectFrame
<1> QED
  BY <1>1, <1>3, <1>4

LEMMA ScheduleFrame ==
  ASSUME TypeInv, NEW c \in Controllers, ApplySchedule(c)
  PROVE  ObjectFrame(c)
<1>1. /\ verdict[c].status.bucket.bucket \in Buckets
      /\ verdict[c].status.endpoint \in Endpoints
  BY TypeInvParts
  DEF ApplySchedule, ControlOK, UnderWay, AfterCredentials, Verdict, BackupPolicyStatus
<1>2. schedule' \in Schedule
  BY <1>1, PolType DEF ApplySchedule, Schedule
<1> QED
  BY <1>2, NoneAssumption DEF ApplySchedule, ObjectFrame, Owner

LEMMA StepObjects ==
  ASSUME TypeInv, NEW c \in Controllers, Step(c)
  PROVE  ObjectFrame(c)
<1>1. CASE ApplyClaim(c) \/ ApplyAccess(c) \/ ApplySchedule(c)
  BY <1>1, ClaimFrame, AccessFrame, ScheduleFrame
<1>2. CASE DeleteSchedule(c)
  BY <1>2 DEF DeleteSchedule, ObjectFrame
<1>3. CASE ~(ApplyClaim(c) \/ ApplyAccess(c) \/ ApplySchedule(c) \/ DeleteSchedule(c))
  <2>1. UNCHANGED <<claim, access, schedule, credentials, incarnations>>
    BY <1>3
    DEF Step, Reconcile, StartGone, StartRejected, StartProvisioning, Start, Dequeue,
        ReadClaim, ReadAccess, ReadCredentials, ReadRepoSecret, CreateRepoSecret, KeepStatus,
        WriteStatus, CallFails, SyncPolicy, SyncOwned, SyncClaim, SyncAccess, SyncRepo,
        TimerFires, OtherEvent, Restart, world
  <2> QED
    BY <2>1 DEF ObjectFrame
<1> QED
  BY <1>1, <1>2, <1>3

(* A first life only begins when a policy is made for the first time. *)
LEMMA LifeStep ==
  ASSUME TypeInv, [Next]_vars, FirstLife'
  PROVE  FirstLife \/ (CreatePolicy /\ incarnations = 0 /\ UNCHANGED controller)
<1>1. incarnations \in Nat /\ (policy # None => policy \in BackupPolicy)
  BY TypeInvParts DEF WorldOK, WorldTypeOK, Optional
<1>2. CASE Environment /\ UNCHANGED controller
  <2>1. CASE CreatePolicy
    <3>1. incarnations' = incarnations + 1 /\ incarnations' = 1
      BY <2>1 DEF CreatePolicy, FirstLife
    <3>2. incarnations = 0
      BY <1>1, <3>1
    <3> QED
      BY <1>2, <2>1, <3>2
  <2>2. CASE EditSpec
    BY <1>1, <2>2 DEF EditSpec, FirstLife, Live, BackupPolicy
  <2>3. CASE DeletePolicy
    BY <1>1, <2>3 DEF DeletePolicy, FirstLife, Live, BackupPolicy
  <2>4. CASE ~(CreatePolicy \/ EditSpec \/ DeletePolicy)
    <3>1. policy' \in {policy, None} /\ UNCHANGED incarnations
      BY <1>2, <2>4
      DEF Environment, User, RestoreSecret, Collect, CollectClaim, CollectAccess,
          CollectRepoSecret, CollectSchedule, FinishDeletion, COSI, Provision, RefuseClaim,
          FinalizeClaim, Mint, Grant, RefuseAccess, Rotate, FinalizeAccess, Backup
    <3> QED
      BY <3>1 DEF FirstLife, Live
  <2> QED
    BY <2>1, <2>2, <2>3, <2>4
<1>3. ASSUME NEW c \in Controllers, Step(c) PROVE FirstLife
  <2>1. Frame(c)
    BY <1>3, ReconcileFrame, OtherFrame DEF Step
  <2>2. /\ policy' # None <=> policy # None
        /\ policy # None => policy'.deleting = policy.deleting
    BY <1>1, <2>1, NoneAssumption DEF Frame, BackupPolicy
  <2> QED
    BY <2>1, <2>2 DEF Frame, FirstLife, Live
<1>4. CASE UNCHANGED vars
  BY <1>4 DEF vars, world, FirstLife, Live
<1> QED
  BY <1>2, <1>3, <1>4 DEF Next

(***************************************************************************)
(* Owners.                                                                 *)
(***************************************************************************)
LEMMA OwnerInit == Init => OwnerInv
BY DEF Init, WorldInit, OwnerInv, Owned, FirstLife, Live

LEMMA NotOrphan ==
  ASSUME TypeInv, RepositoryInv, FirstLife, NEW owner \in 0..incarnations
  PROVE  ~Orphan(owner)
BY DEF RepositoryInv, FirstLife, Live, Orphan

LEMMA OwnerUser ==
  ASSUME TypeInv, OwnerInv, User
  PROVE  OwnerInv'
<1>1. incarnations \in Nat /\ (policy # None => policy \in BackupPolicy)
  BY TypeInvParts DEF WorldOK, WorldTypeOK, Optional
<1>2. CASE CreatePolicy
  <2>1. incarnations' = incarnations + 1 /\ UNCHANGED <<claim, access, credentials, repoSecret, schedule>>
    BY <1>2 DEF CreatePolicy
  <2>2. FirstLife' => claim = None /\ access = None
    BY <1>1, <2>1 DEF FirstLife, OwnerInv, Owned
  <2> QED
    BY <1>1, <2>1, <2>2 DEF OwnerInv, Owned
<1>3. CASE EditSpec \/ DeletePolicy
  <2>1. UNCHANGED butPolicy
    BY <1>3 DEF EditSpec, DeletePolicy
  <2>2. FirstLife' => FirstLife
    BY <1>1, <1>3, <2>1 DEF EditSpec, DeletePolicy, FirstLife, Live, BackupPolicy
  <2> QED
    BY <2>1, <2>2 DEF OwnerInv, Owned
<1>4. CASE RestoreSecret
  BY <1>1, <1>4 DEF RestoreSecret, OwnerInv, Owned, FirstLife, Live
<1> QED
  BY <1>2, <1>3, <1>4 DEF User

LEMMA OwnerCollect ==
  ASSUME TypeInv, RepositoryInv, OwnerInv, Collect
  PROVE  OwnerInv'
<1>1. incarnations \in Nat /\ UNCHANGED <<incarnations, credentials>>
  BY TypeInvParts
  DEF WorldOK, WorldTypeOK, Collect, CollectClaim, CollectAccess, CollectRepoSecret,
      CollectSchedule, FinishDeletion
<1>2. CASE CollectClaim
  <2>1. claim \in BucketClaim /\ ~FirstLife /\ ~FirstLife'
    BY <1>1, <1>2, TypeInvParts, NotOrphan
    DEF CollectClaim, OwnerInv, Owned, WorldOK, WorldTypeOK, Optional, FirstLife, Live
  <2>2. claim'.owner = claim.owner
    BY <1>2, <2>1 DEF CollectClaim, BucketClaim
  <2> QED
    BY <1>1, <1>2, <2>1, <2>2 DEF CollectClaim, OwnerInv, Owned
<1>3. CASE CollectAccess
  <2>1. access \in BucketAccess /\ ~FirstLife /\ ~FirstLife'
    BY <1>1, <1>3, TypeInvParts, NotOrphan
    DEF CollectAccess, OwnerInv, Owned, WorldOK, WorldTypeOK, Optional, FirstLife, Live
  <2>2. access'.owner = access.owner
    BY <1>3, <2>1 DEF CollectAccess, BucketAccess
  <2> QED
    BY <1>1, <1>3, <2>1, <2>2 DEF CollectAccess, OwnerInv, Owned
<1>4. CASE CollectRepoSecret \/ CollectSchedule \/ FinishDeletion
  BY <1>1, <1>4
  DEF CollectRepoSecret, CollectSchedule, FinishDeletion, OwnerInv, Owned, FirstLife, Live
<1> QED
  BY <1>2, <1>3, <1>4 DEF Collect

LEMMA OwnerCOSI ==
  ASSUME TypeInv, OwnerInv, COSI
  PROVE  OwnerInv'
<1> USE DEF WorldOK, WorldTypeOK, Optional, OwnerInv, Owned, FirstLife, Live
<1>1. incarnations \in Nat
  BY TypeInvParts
<1>2. CASE Provision \/ RefuseClaim
  <2>1. claim \in BucketClaim /\ claim'.owner = claim.owner /\ claim'.deleting = claim.deleting
    BY <1>2, TypeInvParts DEF Provision, RefuseClaim, BucketClaim
  <2> QED
    BY <1>2, <2>1 DEF Provision, RefuseClaim
<1>3. CASE Grant \/ RefuseAccess
  <2>1. /\ access \in BucketAccess
        /\ access'.owner = access.owner /\ access'.deleting = access.deleting
    BY <1>3, TypeInvParts DEF Grant, RefuseAccess, BucketAccess
  <2> QED
    BY <1>3, <2>1 DEF Grant, RefuseAccess
<1>4. CASE Mint
  BY <1>1, <1>4 DEF Mint
<1>5. CASE Rotate
  BY <1>5 DEF Rotate
<1>6. CASE FinalizeClaim \/ FinalizeAccess
  BY <1>6 DEF FinalizeClaim, FinalizeAccess
<1> QED
  BY <1>2, <1>3, <1>4, <1>5, <1>6 DEF COSI

LEMMA OwnerReplica ==
  ASSUME TypeInv, RepositoryInv, OwnerInv, NEW c \in Controllers, Step(c)
  PROVE  OwnerInv'
<1>1. Frame(c) /\ ObjectFrame(c)
  BY StepObjects, ReconcileFrame, OtherFrame DEF Step
<1>2. incarnations \in Nat
  BY TypeInvParts DEF WorldOK, WorldTypeOK
<1>3. pc[c] # "idle" => pol[c].uid \in 1..incarnations
  BY TypeInvParts DEF ControlOK, UnderWay, RepositoryInv, Began
<1>4. FirstLife' => FirstLife
  <2>1. [Next]_vars
    BY DEF Next
  <2> QED
    BY <1>1, <2>1, LifeStep, TypeInvParts DEF CreatePolicy, ObjectFrame, WorldOK, WorldTypeOK
<1>5. /\ (claim # None => claim.owner \in 1..incarnations)'
      /\ (access # None => access.owner \in 1..incarnations)'
      /\ (schedule # None => schedule.owner \in 1..incarnations)'
  BY <1>1, <1>3 DEF ObjectFrame, OwnerInv, Owned
<1>6. (FirstLife => /\ claim # None => ~claim.deleting
                    /\ access # None => ~access.deleting)'
  BY <1>1, <1>4 DEF ObjectFrame, OwnerInv
<1> QED
  BY <1>1, <1>5, <1>6 DEF OwnerInv, Owned, ObjectFrame

LEMMA OwnerStep == TypeInv /\ RepositoryInv /\ OwnerInv /\ [Next]_vars => OwnerInv'
<1> SUFFICES ASSUME TypeInv, RepositoryInv, OwnerInv, [Next]_vars PROVE OwnerInv'
  OBVIOUS
<1>1. CASE Backup
  BY <1>1 DEF Backup, OwnerInv, Owned, FirstLife, Live
<1>2. CASE User \/ Collect \/ COSI
  BY <1>2, OwnerUser, OwnerCollect, OwnerCOSI
<1>3. ASSUME NEW c \in Controllers, Step(c) PROVE OwnerInv'
  BY <1>3, OwnerReplica
<1>4. CASE UNCHANGED vars
  BY <1>4 DEF vars, world, OwnerInv, Owned, FirstLife, Live
<1> QED
  BY <1>1, <1>2, <1>3, <1>4 DEF Next, Environment

LEMMA ProvisionedOwner == ProvisionedInit => OwnerInv
BY DEF ProvisionedInit, OwnerInv, Owned

LEMMA OwnerInvariance == Spec \/ ProvisionedSpec => []OwnerInv
<1>1. Init \/ ProvisionedInit => OwnerInv
  BY OwnerInit, ProvisionedOwner
<1>2. TypeInv /\ RepositoryInv /\ OwnerInv /\ [Next]_vars => OwnerInv'
  BY OwnerStep
<1> QED
  BY <1>1, <1>2, TypesAreInductive, SecretsAreInductive, PTL DEF Spec, ProvisionedSpec

LEMMA Invariance ==
  Spec \/ ProvisionedSpec => [](TypeInv /\ RepositoryInv /\ VerdictInv /\ StatusInv /\ OwnerInv)
BY TypesAreInductive, SecretsAreInductive, StatusInvariance, OwnerInvariance, PTL

(***************************************************************************)
(* A policy whose deletion has reached every replica.                      *)
(***************************************************************************)
(* The step of NothingComesBack. *)
Stays ==
  /\ PutDown'
  /\ claim = None => claim' = None
  /\ access = None => access' = None
  /\ access = None /\ credentials = None => credentials' = None
  /\ schedule = None => schedule' = None
  /\ repoSecret = None /\ repoSecret' # None => repoSecret'.owner = 0

LEMMA PutDownEnvironment ==
  ASSUME TypeInv, PutDown, Environment, UNCHANGED controller, incarnations' = incarnations
  PROVE  Stays
<1>1. ~CreatePolicy
  BY TypeInvParts DEF CreatePolicy, WorldOK, WorldTypeOK
<1>2. policy' \in {policy, None}
  <2>1. CASE EditSpec \/ DeletePolicy
    BY <2>1 DEF PutDown, EditSpec, DeletePolicy
  <2>2. CASE RestoreSecret \/ Collect
    BY <2>2
    DEF RestoreSecret, Collect, CollectClaim, CollectAccess, CollectRepoSecret,
        CollectSchedule, FinishDeletion
  <2>3. CASE COSI \/ Backup
    BY <2>3
    DEF COSI, Provision, RefuseClaim, FinalizeClaim, Mint, Grant, RefuseAccess, Rotate,
        FinalizeAccess, Backup
  <2> QED
    BY <1>1, <2>1, <2>2, <2>3 DEF Environment, User
<1>3. PutDown'
  BY <1>2 DEF PutDown, controller, cache
<1>4. CASE User
  <2>1. CASE RestoreSecret
    <3>1. repoSecret'.owner = 0
      BY <2>1 DEF RestoreSecret
    <3> QED
      BY <1>3, <2>1, <3>1 DEF Stays, RestoreSecret
  <2>2. CASE EditSpec \/ DeletePolicy
    BY <1>3, <2>2 DEF Stays, EditSpec, DeletePolicy
  <2> QED
    BY <1>1, <1>4, <2>1, <2>2 DEF User
<1>5. CASE Collect \/ Backup
  BY <1>3, <1>5
  DEF Stays, Collect, CollectClaim, CollectAccess, CollectRepoSecret, CollectSchedule,
      FinishDeletion, Backup
<1>6. CASE COSI
  BY <1>3, <1>6
  DEF Stays, COSI, Provision, RefuseClaim, FinalizeClaim, Mint, Grant, RefuseAccess, Rotate,
      FinalizeAccess
<1> QED
  BY <1>4, <1>5, <1>6 DEF Environment

LEMMA PutDownReplica ==
  ASSUME TypeInv, PutDown, NEW c \in Controllers, Step(c)
  PROVE  Stays
<1>1. pc[c] = "idle" /\ (seenPolicy[c] # None => seenPolicy[c].deleting)
  BY DEF PutDown
<1>2. Reconcile(c) => StartGone(c)
  BY <1>1
  DEF Reconcile, StartRejected, StartProvisioning, Start, ApplyClaim, ReadClaim, ApplyAccess,
      ReadAccess, ReadCredentials, DeleteSchedule, ReadRepoSecret, CreateRepoSecret,
      ApplySchedule, KeepStatus, WriteStatus
<1>3. ~CallFails(c)
  BY <1>1 DEF CallFails, Calls
<1>4. UNCHANGED world
  BY <1>2, <1>3
  DEF Step, StartGone, Dequeue, SyncPolicy, SyncOwned, SyncClaim, SyncAccess, SyncRepo,
      TimerFires, OtherEvent, Restart
<1>5. pc'[c] = "idle"
  BY <1>1, <1>2, <1>3, TypeInvParts
  DEF ControlOK, Step, StartGone, SyncPolicy, SyncOwned, SyncClaim, SyncAccess, SyncRepo,
      TimerFires, OtherEvent, Restart, Wake
<1>6. \A d \in Controllers : d # c => pc'[d] = pc[d]
  BY OthersStay
<1>7. \A d \in Controllers : seenPolicy'[d] \in {seenPolicy[d], policy}
  BY ReconcileFrame, OtherFrame DEF Step, Frame
<1> QED
  BY <1>4, <1>5, <1>6, <1>7 DEF Stays, PutDown, world

(* Once the deletion of a policy reached every replica, no replica brings  *)
(* back an object of it that is gone, or starts on it again, until another *)
(* policy is created: for any number of replicas, restarts among them.     *)
THEOREM WhatIsDeletedStaysDeleted == Spec \/ ProvisionedSpec => NothingComesBack
<1>1. TypeInv /\ [Next]_vars =>
        [PutDown /\ incarnations' = incarnations =>
           /\ PutDown'
           /\ claim = None => claim' = None
           /\ access = None => access' = None
           /\ access = None /\ credentials = None => credentials' = None
           /\ schedule = None => schedule' = None
           /\ repoSecret = None /\ repoSecret' # None => repoSecret'.owner = 0]_vars
  <2> SUFFICES ASSUME TypeInv, Next, PutDown, incarnations' = incarnations PROVE Stays
    BY DEF Stays
  <2> QED
    BY PutDownEnvironment, PutDownReplica DEF Next
<1> QED
  BY <1>1, TypesAreInductive, PTL DEF Spec, ProvisionedSpec, NothingComesBack

=============================================================================
