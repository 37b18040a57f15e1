--------------------------- MODULE ContractProofs ---------------------------
(***************************************************************************)
(* One replica implements BackupContract.tla: its cache only gets newer,   *)
(* and what made a policy Ready stays ready in the policy's first life, so *)
(* no later reconcile concludes anything else of the same spec.            *)
(***************************************************************************)
EXTENDS CoordinateProofs

USE DEF butPolicy, butClaim, butAccess, butCredentials, butRepoSecret, butSchedule,
        butSnapshots

(* What is ready or made stays so until the first life ends. *)
Early == FirstLife \/ incarnations = 0

AccessReady == access # None /\ access.state = "ready"

SeenClaimReady(c) == seenClaim[c] # None /\ seenClaim[c].state = "ready"

SeenAccessReady(c) == seenAccess[c] # None /\ seenAccess[c].state = "ready"

SeenInv ==
  Early =>
    \A c \in Controllers :
      /\ SeenClaimReady(c) => ClaimReady
      /\ SeenAccessReady(c) => AccessReady
      /\ seenRepo[c] # None => repoSecret # None

(* No copy of the policy is older than what was reported of it. *)
CopyInv ==
  FirstLife =>
    \A c \in Controllers :
      /\ policy.status.observedGeneration # 0 => seenPolicy[c] # None
      /\ seenPolicy[c] # None =>
           policy.status.observedGeneration <= seenPolicy[c].generation
      /\ pol[c] # None =>
           /\ seenPolicy[c] # None
           /\ policy.status.observedGeneration <= pol[c].generation
           /\ pol[c].generation <= seenPolicy[c].generation

AllSeen(c) == SeenClaimReady(c) /\ SeenAccessReady(c) /\ UsableCredentials

PastAccess == {"readCredentials"} \cup AfterCredentials

PastClaim == {"applyAccess", "readAccess"} \cup PastAccess

JobsOf(spec) ==
  LET cfg == Config(spec, Defaults) IN IF cfg.mode = "BucketOnly" THEN None ELSE JobsFor(cfg)

(* How far a reconcile is says what it found. *)
Found(c) ==
  /\ pc[c] = "applySchedule" => repoSecret # None
  /\ pc[c] \in PastClaim => SeenClaimReady(c)
  /\ pc[c] \in PastAccess => SeenAccessReady(c)
  /\ pc[c] = "writeStatus" /\ verdict[c].status.phase = "Ready" =>
       AllSeen(c) /\ RunningJobs = JobsOf(pol[c].spec)
  /\ policy.status.phase = "Ready" =>
       AllSeen(c) /\ (pc[c] = "writeStatus" => verdict[c].status.phase # "Pending")

ReadyInv ==
  FirstLife =>
    /\ schedule # None => repoSecret # None
    /\ Observed /\ policy.status.phase = "Ready" => RunningJobs = SpecJobs
    /\ \A c \in Controllers : Found(c)

BaseInv ==
  TypeInv /\ RepositoryInv /\ VerdictInv /\ StatusInv /\ OwnerInv /\ CoordinateInv

(***************************************************************************)
(* What stays.                                                             *)
(***************************************************************************)
LEMMA EarlyStep ==
  ASSUME TypeInv, [Next]_vars, Early'
  PROVE  Early
<1>1. CASE FirstLife'
  BY <1>1, LifeStep DEF Early
<1>2. CASE incarnations' = 0
  <2>1. incarnations' \in {incarnations, incarnations + 1}
    <3>1. CASE Environment
      BY <3>1
      DEF Environment, User, CreatePolicy, EditSpec, DeletePolicy, RestoreSecret, Collect,
          CollectClaim, CollectAccess, CollectRepoSecret, CollectSchedule, FinishDeletion,
          COSI, Provision, RefuseClaim, FinalizeClaim, Mint, Grant, RefuseAccess, Rotate,
          FinalizeAccess, Backup
    <3>2. ASSUME NEW c \in Controllers, Step(c) PROVE UNCHANGED incarnations
      BY <3>2, StepObjects DEF ObjectFrame
    <3>3. CASE UNCHANGED vars
      BY <3>3 DEF vars, world
    <3> QED
      BY <3>1, <3>2, <3>3 DEF Next
  <2> QED
    BY <1>2, <2>1, TypeInvParts DEF Early, WorldOK, WorldTypeOK
<1> QED
  BY <1>1, <1>2 DEF Early

LEMMA FirstLifeGoesOn ==
  ASSUME TypeInv, NEW c \in Controllers, Step(c), FirstLife'
  PROVE  FirstLife
<1>1. [Next]_vars
  BY DEF Next
<1>2. incarnations' = incarnations /\ incarnations \in Nat
  BY StepObjects, TypeInvParts DEF ObjectFrame, WorldOK, WorldTypeOK
<1> QED
  BY <1>1, <1>2, LifeStep DEF CreatePolicy

(* Nothing is collected early. *)
LEMMA NothingGoes ==
  ASSUME TypeInv, RepositoryInv, OwnerInv, Early
  PROVE  /\ ~CollectClaim /\ ~CollectAccess /\ ~CollectRepoSecret /\ ~CollectSchedule
         /\ ~FinalizeClaim /\ ~FinalizeAccess
<1>1. CASE FirstLife
  <2>1. ~CollectClaim /\ ~CollectAccess /\ ~CollectSchedule
    BY <1>1, NotOrphan DEF CollectClaim, CollectAccess, CollectSchedule, OwnerInv, Owned
  <2>2. ~CollectRepoSecret
    BY <1>1, SecretNotCollected
  <2>3. ~FinalizeClaim /\ ~FinalizeAccess
    BY <1>1 DEF FinalizeClaim, FinalizeAccess, OwnerInv
  <2> QED
    BY <2>1, <2>2, <2>3
<1>2. CASE incarnations = 0
  <2>1. claim = None /\ access = None /\ schedule = None
    BY <1>2 DEF OwnerInv, Owned
  <2>2. repoSecret # None => repoSecret.owner \in Nat /\ repoSecret.owner <= incarnations
    BY TypeInvParts DEF WorldOK, WorldTypeOK, Optional, RepositorySecret, RepositoryInv
  <2>3. repoSecret # None => repoSecret.owner = 0
    BY <1>2, <2>2
  <2> QED
    BY <2>1, <2>3
    DEF CollectClaim, CollectAccess, CollectRepoSecret, CollectSchedule, FinalizeClaim,
        FinalizeAccess, Orphan
<1> QED
  BY <1>1, <1>2 DEF Early

LEMMA ReadyStands ==
  ASSUME TypeInv, RepositoryInv, OwnerInv, [Next]_vars, Early
  PROVE  /\ ClaimReady => ClaimReady'
         /\ AccessReady => AccessReady'
         /\ repoSecret # None => repoSecret' # None
<1>1. /\ claim # None => claim \in BucketClaim
      /\ access # None => access \in BucketAccess
  BY TypeInvParts DEF WorldOK, WorldTypeOK, Optional
<1>2. CASE Environment
  <2>1. ClaimReady => ClaimReady'
    <3>1. CASE Provision
      BY <3>1 DEF Provision, ClaimReady
    <3>2. CASE RefuseClaim
      BY <3>2 DEF RefuseClaim, ClaimReady
    <3>3. CASE ~Provision /\ ~RefuseClaim
      <4>1. UNCHANGED claim
        BY <1>2, <3>3, NothingGoes
        DEF Environment, User, CreatePolicy, EditSpec, DeletePolicy, RestoreSecret, Collect,
            CollectRepoSecret, CollectSchedule, CollectAccess, FinishDeletion,
            COSI, Mint, Grant, RefuseAccess, Rotate, Backup
      <4> QED
        BY <4>1 DEF ClaimReady
    <3> QED
      BY <3>1, <3>2, <3>3
  <2>2. AccessReady => AccessReady'
    <3>1. CASE Grant
      BY <3>1 DEF Grant, AccessReady
    <3>2. CASE RefuseAccess
      BY <3>2 DEF RefuseAccess, AccessReady
    <3>3. CASE ~Grant /\ ~RefuseAccess
      <4>1. UNCHANGED access
        BY <1>2, <3>3, NothingGoes
        DEF Environment, User, CreatePolicy, EditSpec, DeletePolicy, RestoreSecret, Collect,
            CollectRepoSecret, CollectSchedule, CollectClaim, FinishDeletion,
            COSI, Mint, Provision, RefuseClaim, Rotate, Backup
      <4> QED
        BY <4>1 DEF AccessReady
    <3> QED
      BY <3>1, <3>2, <3>3
  <2>3. repoSecret # None => repoSecret' # None
    <3>1. ~RestoreSecret \/ repoSecret = None
      BY DEF RestoreSecret
    <3> QED
      BY <1>2, <3>1, NothingGoes
      DEF Environment, User, CreatePolicy, EditSpec, DeletePolicy, Collect,
          CollectSchedule, CollectClaim, CollectAccess, FinishDeletion,
          COSI, Mint, Provision, RefuseClaim, Rotate, Grant, RefuseAccess, Backup
  <2> QED
    BY <2>1, <2>2, <2>3
<1>3. ASSUME NEW c \in Controllers, Step(c)
      PROVE  /\ ClaimReady => ClaimReady'
             /\ AccessReady => AccessReady'
             /\ repoSecret # None => repoSecret' # None
  <2>1. ObjectFrame(c) /\ Frame(c)
    BY <1>3, StepObjects, ReconcileFrame, OtherFrame DEF Step
  <2> QED
    BY <2>1 DEF ObjectFrame, Frame, ClaimReady, AccessReady
<1>4. CASE UNCHANGED vars
  BY <1>4 DEF vars, world, ClaimReady, AccessReady
<1> QED
  BY <1>2, <1>3, <1>4 DEF Next

(* The environment writes no status and, in the first life, no Schedule. *)
LEMMA StatusStands ==
  ASSUME TypeInv, RepositoryInv, Environment, FirstLife, FirstLife'
  PROVE  policy'.status = policy.status
<1>1. policy # None /\ policy \in BackupPolicy /\ policy' # None
  BY TypeInvParts DEF FirstLife, Live, WorldOK, WorldTypeOK, Optional
<1>2. ~CreatePolicy
  BY <1>1 DEF CreatePolicy
<1>3. CASE EditSpec \/ DeletePolicy \/ FinishDeletion
  BY <1>1, <1>3 DEF EditSpec, DeletePolicy, FinishDeletion, BackupPolicy
<1>4. CASE ~(EditSpec \/ DeletePolicy \/ FinishDeletion)
  BY <1>2, <1>4
  DEF Environment, User, RestoreSecret, Collect, CollectClaim, CollectAccess,
      CollectRepoSecret, CollectSchedule, COSI, Provision, RefuseClaim, FinalizeClaim,
      Mint, Grant, RefuseAccess, Rotate, FinalizeAccess, Backup
<1> QED
  BY <1>3, <1>4

LEMMA ScheduleStands ==
  ASSUME TypeInv, RepositoryInv, OwnerInv, Environment, FirstLife
  PROVE  UNCHANGED schedule
BY NothingGoes
DEF Early, Environment, User, CreatePolicy, EditSpec, DeletePolicy, RestoreSecret, Collect,
    CollectClaim, CollectAccess, CollectRepoSecret, FinishDeletion, COSI, Provision,
    RefuseClaim, FinalizeClaim, Mint, Grant, RefuseAccess, Rotate, FinalizeAccess, Backup

(* The user edits its spec, and nothing else of the policy changes. *)
LEMMA PolicyStands ==
  ASSUME TypeInv, RepositoryInv, Environment, FirstLife, FirstLife', ~EditSpec
  PROVE  policy' = policy
<1>1. policy # None /\ policy \in BackupPolicy /\ policy' # None /\ ~policy'.deleting
  BY TypeInvParts DEF FirstLife, Live, WorldOK, WorldTypeOK, Optional
<1>2. ~CreatePolicy /\ ~FinishDeletion
  BY <1>1 DEF CreatePolicy, FinishDeletion
<1>3. ~DeletePolicy
  BY <1>1 DEF DeletePolicy, BackupPolicy
<1> QED
  BY <1>2, <1>3
  DEF Environment, User, RestoreSecret, Collect, CollectClaim, CollectAccess,
      CollectRepoSecret, CollectSchedule, COSI, Provision, RefuseClaim, FinalizeClaim,
      Mint, Grant, RefuseAccess, Rotate, FinalizeAccess, Backup

LEMMA OnlyWriteStatusWrites ==
  ASSUME NEW c \in Controllers, Step(c), policy' # policy
  PROVE  WriteStatus(c)
BY DEF Step, Reconcile, StartGone, StartRejected, StartProvisioning, Start, Dequeue,
       ApplyClaim, ReadClaim, ApplyAccess, ReadAccess, ReadCredentials, DeleteSchedule,
       ReadRepoSecret, CreateRepoSecret, ApplySchedule, KeepStatus, CallFails, SyncPolicy,
       SyncOwned, SyncClaim, SyncAccess, SyncRepo, TimerFires, OtherEvent, Restart, world

(***************************************************************************)
(* The cache.                                                              *)
(***************************************************************************)
(* A cached object is as it was, or as it is. *)
LEMMA CacheStep ==
  ASSUME TypeInv, NEW c \in Controllers, Step(c)
  PROVE  /\ seenClaim'[c] \in {seenClaim[c], ClaimView}
         /\ seenAccess'[c] \in {seenAccess[c], AccessView}
         /\ seenRepo'[c] \in {seenRepo[c], RepoView}
         /\ seenPolicy'[c] \in {seenPolicy[c], policy}
<1> USE TypeInvParts DEF CacheOK
<1>1. CASE Reconcile(c) \/ CallFails(c) \/ TimerFires(c) \/ OtherEvent(c)
  <2>1. UNCHANGED cache
    BY <1>1
    DEF Reconcile, StartGone, StartRejected, StartProvisioning, Start, Dequeue, ApplyClaim,
        ReadClaim, ApplyAccess, ReadAccess, ReadCredentials, DeleteSchedule, ReadRepoSecret,
        CreateRepoSecret, ApplySchedule, KeepStatus, WriteStatus, CallFails, TimerFires,
        OtherEvent
  <2> QED
    BY <2>1 DEF cache
<1>2. CASE SyncPolicy(c) \/ SyncOwned(c) \/ Restart(c)
  BY <1>2 DEF SyncPolicy, SyncOwned, SyncClaim, SyncAccess, SyncRepo, Restart
<1> QED
  BY <1>1, <1>2 DEF Step

LEMMA ViewsTell ==
  ASSUME TypeInv
  PROVE  /\ ClaimView # None /\ ClaimView.state = "ready" => ClaimReady
         /\ ClaimReady => ClaimView # None /\ ClaimView.state = "ready"
         /\ AccessView # None /\ AccessView.state = "ready" => AccessReady
         /\ AccessReady => AccessView # None /\ AccessView.state = "ready"
         /\ RepoView # None => repoSecret # None
<1>1. /\ claim # None => claim \in BucketClaim
      /\ access # None => access \in BucketAccess
  BY TypeInvParts DEF WorldOK, WorldTypeOK, Optional
<1>2. ClaimReady => ClaimView # None /\ ClaimView.state = "ready"
  <2>1. SUFFICES ASSUME claim # None
                 PROVE  ClaimView # None /\ ClaimView.state = claim.state
    BY DEF ClaimReady
  <2>2. ClaimView = [state |-> claim.state, bucket |-> claim.bucket]
    BY <2>1 DEF ClaimView
  <2>3. ClaimView \in [state: COSIStates, bucket: Optional(Buckets)]
    BY <1>1, <2>1, <2>2 DEF BucketClaim, Optional
  <2> QED
    BY <2>2, <2>3, ViewAssumption
<1>3. AccessReady => AccessView # None /\ AccessView.state = "ready"
  <2>1. SUFFICES ASSUME access # None
                 PROVE  AccessView # None /\ AccessView.state = access.state
    BY DEF AccessReady
  <2>2. AccessView = [state |-> access.state]
    BY <2>1 DEF AccessView
  <2>3. AccessView \in [state: COSIStates]
    BY <1>1, <2>1, <2>2 DEF BucketAccess
  <2> QED
    BY <2>2, <2>3, ViewAssumption
<1>4. /\ ClaimView # None /\ ClaimView.state = "ready" => ClaimReady
      /\ AccessView # None /\ AccessView.state = "ready" => AccessReady
      /\ RepoView # None => repoSecret # None
  BY DEF ClaimView, AccessView, RepoView, ClaimReady, AccessReady
<1> QED
  BY <1>2, <1>3, <1>4

LEMMA SeenInit == Init => SeenInv
BY DEF Init, ControllerInit, SeenInv, SeenClaimReady, SeenAccessReady

LEMMA SeenStep ==
  TypeInv /\ RepositoryInv /\ OwnerInv /\ SeenInv /\ [Next]_vars => SeenInv'
<1> SUFFICES ASSUME TypeInv, RepositoryInv, OwnerInv, SeenInv, [Next]_vars, Early',
                    NEW d \in Controllers
             PROVE  /\ SeenClaimReady(d)' => ClaimReady'
                    /\ SeenAccessReady(d)' => AccessReady'
                    /\ (seenRepo[d] # None)' => repoSecret' # None
  BY DEF SeenInv
<1>1. Early
  BY EarlyStep
<1>2. /\ ClaimReady => ClaimReady'
      /\ AccessReady => AccessReady'
      /\ repoSecret # None => repoSecret' # None
  BY <1>1, ReadyStands
<1>3. /\ SeenClaimReady(d) => ClaimReady
      /\ SeenAccessReady(d) => AccessReady
      /\ seenRepo[d] # None => repoSecret # None
  BY <1>1 DEF SeenInv
<1>4. CASE UNCHANGED cache
  BY <1>2, <1>3, <1>4 DEF cache, SeenClaimReady, SeenAccessReady
<1>5. ASSUME NEW c \in Controllers, Step(c)
      PROVE  /\ seenClaim'[d] \in {seenClaim[d], ClaimView}
             /\ seenAccess'[d] \in {seenAccess[d], AccessView}
             /\ seenRepo'[d] \in {seenRepo[d], RepoView}
  BY <1>5, CacheStep, OthersStay
<1>6. CASE \E c \in Controllers : Step(c)
  BY <1>2, <1>3, <1>5, <1>6, ViewsTell DEF SeenClaimReady, SeenAccessReady
<1> QED
  BY <1>4, <1>6 DEF Next, vars, controller

(* What was seen ready is seen ready until the first life ends. *)
LEMMA SeenStands ==
  ASSUME BaseInv, SeenInv, [Next]_vars, Early, NEW c \in Controllers
  PROVE  /\ SeenClaimReady(c) => SeenClaimReady(c)'
         /\ SeenAccessReady(c) => SeenAccessReady(c)'
<1>1. /\ SeenClaimReady(c) => ClaimView # None /\ ClaimView.state = "ready"
      /\ SeenAccessReady(c) => AccessView # None /\ AccessView.state = "ready"
  BY ViewsTell DEF BaseInv, SeenInv
<1>2. CASE UNCHANGED cache
  BY <1>2 DEF cache, SeenClaimReady, SeenAccessReady
<1>3. ASSUME NEW d \in Controllers, Step(d)
      PROVE  /\ seenClaim'[c] \in {seenClaim[c], ClaimView}
             /\ seenAccess'[c] \in {seenAccess[c], AccessView}
  BY <1>3, CacheStep, OthersStay DEF BaseInv
<1>4. CASE \E d \in Controllers : Step(d)
  BY <1>1, <1>3, <1>4 DEF SeenClaimReady, SeenAccessReady
<1> QED
  BY <1>2, <1>4 DEF Next, vars, controller

(***************************************************************************)
(* The copies of the policy.  With one replica its cache is the only one   *)
(* that a status was ever computed from.                                   *)
(***************************************************************************)
LEMMA CopyInit == Init => CopyInv
BY DEF Init, WorldInit, CopyInv, FirstLife, Live

LEMMA CopyEnvironment ==
  ASSUME TypeInv, RepositoryInv, CopyInv, [Next]_vars, Environment, UNCHANGED controller
  PROVE  CopyInv'
<1> SUFFICES ASSUME FirstLife' PROVE CopyInv'
  BY DEF CopyInv
<1>1. \A c \in Controllers : seenPolicy'[c] = seenPolicy[c] /\ pol'[c] = pol[c]
  BY DEF controller, cache
<1>2. CASE ~FirstLife
  <2>1. CreatePolicy /\ incarnations = 0
    BY <1>2, LifeStep
  <2>2. policy'.status.observedGeneration = 0
    <3>1. policy'.status = NoStatus
      BY <2>1 DEF CreatePolicy
    <3>2. NoStatus.observedGeneration = 0
      BY Zenon DEF NoStatus
    <3> QED
      BY <3>1, <3>2
  <2>3. \A c \in Controllers : seenPolicy[c] = None /\ pol[c] = None
    BY <2>1 DEF RepositoryInv, Began
  <2> QED
    BY <1>1, <2>2, <2>3 DEF CopyInv
<1>3. CASE FirstLife
  <2>1. policy'.status = policy.status
    BY <1>3, StatusStands
  <2> QED
    BY <1>1, <1>3, <2>1 DEF CopyInv
<1> QED
  BY <1>2, <1>3

LEMMA CopyReplica ==
  ASSUME OneReplica, TypeInv, RepositoryInv, StatusInv, CopyInv, [Next]_vars,
         NEW c \in Controllers, Step(c)
  PROVE  CopyInv'
<1> SUFFICES ASSUME FirstLife' PROVE CopyInv'
  BY DEF CopyInv
<1>1. Frame(c)
  BY ReconcileFrame, OtherFrame DEF Step
<1>2. FirstLife
  BY FirstLifeGoesOn
<1>3. /\ policy \in BackupPolicy /\ policy # None
      /\ policy.status.observedGeneration <= policy.generation
      /\ policy.generation \in Nat /\ policy.status.observedGeneration \in Nat
  BY <1>2, TypeInvParts
  DEF FirstLife, Live, WorldOK, WorldTypeOK, Optional, StatusInv, BackupPolicy,
      BackupPolicyStatus
<1>4. /\ seenPolicy[c] # None => seenPolicy[c].generation \in 1..policy.generation
      /\ pol[c] # None => pol[c].generation \in 1..policy.generation
  BY <1>2 DEF StatusInv, UpToDate
<1>5. /\ policy.status.observedGeneration # 0 => seenPolicy[c] # None
      /\ seenPolicy[c] # None =>
           policy.status.observedGeneration <= seenPolicy[c].generation
      /\ pol[c] # None =>
           /\ seenPolicy[c] # None
           /\ policy.status.observedGeneration <= pol[c].generation
           /\ pol[c].generation <= seenPolicy[c].generation
  BY <1>2 DEF CopyInv
<1>6. /\ pol'[c] \in {pol[c], seenPolicy[c], None}
      /\ seenPolicy'[c] \in {seenPolicy[c], policy}
      /\ pol'[c] = pol[c] \/ seenPolicy'[c] = seenPolicy[c] \/ pol'[c] = None
  <2>1. CASE Reconcile(c) \/ CallFails(c) \/ TimerFires(c) \/ OtherEvent(c)
    <3>1. UNCHANGED cache
      BY <2>1
      DEF Reconcile, StartGone, StartRejected, StartProvisioning, Start, Dequeue, ApplyClaim,
          ReadClaim, ApplyAccess, ReadAccess, ReadCredentials, DeleteSchedule,
          ReadRepoSecret, CreateRepoSecret, ApplySchedule, KeepStatus, WriteStatus,
          CallFails, TimerFires, OtherEvent
    <3> QED
      BY <1>1, <3>1 DEF Frame, cache
  <2>2. CASE SyncPolicy(c) \/ SyncOwned(c)
    BY <1>1, <2>2 DEF Frame, SyncPolicy, SyncOwned, SyncClaim, SyncAccess, SyncRepo, Wake
  <2>3. CASE Restart(c)
    BY <1>1, <2>3, TypeInvParts DEF Frame, Restart, ControlOK
  <2> QED
    BY <2>1, <2>2, <2>3 DEF Step
<1>7. CASE policy' = policy
  BY <1>3, <1>4, <1>5, <1>6, <1>7 DEF CopyInv, OneReplica
<1>8. CASE policy' # policy
  <2>1. pc[c] = "writeStatus" /\ policy'.status = Want(c)
    BY <1>3, <1>8, OnlyWriteStatus DEF BackupPolicy
  <2>2. pol[c] # None /\ verdict[c].status \in BackupPolicyStatus
    BY <2>1, TypeInvParts DEF ControlOK, UnderWay, Verdict
  <2>3. policy'.status.observedGeneration = pol[c].generation
    BY <2>1, <2>2 DEF Want, BackupPolicyStatus
  <2>4. seenPolicy'[c] = seenPolicy[c] /\ pol'[c] \in {pol[c], None}
    <3>1. WriteStatus(c)
      BY <1>8, OnlyWriteStatusWrites
    <3> QED
      BY <3>1, TypeInvParts DEF WriteStatus, Finish, GiveUp, LoseAnswer, Leave, cache, ControlOK
  <2> QED
    BY <1>4, <1>5, <2>2, <2>3, <2>4 DEF CopyInv, OneReplica
<1> QED
  BY <1>7, <1>8

LEMMA CopyStep ==
  ASSUME OneReplica
  PROVE  TypeInv /\ RepositoryInv /\ StatusInv /\ CopyInv /\ [Next]_vars => CopyInv'
<1> SUFFICES ASSUME TypeInv, RepositoryInv, StatusInv, CopyInv, [Next]_vars PROVE CopyInv'
  OBVIOUS
<1>1. CASE UNCHANGED vars
  BY <1>1 DEF vars, world, controller, cache, CopyInv, FirstLife, Live
<1> QED
  BY <1>1, CopyEnvironment, CopyReplica DEF Next

(* Once the latest spec was reported on, no older copy of it is around. *)
LEMMA ObservedIsAtWork ==
  ASSUME TypeInv, StatusInv, CopyInv, FirstLife, Observed, NEW c \in Controllers,
         pol[c] # None
  PROVE  pol[c].spec = policy.spec
<1>1. /\ pol[c].generation \in 1..policy.generation
      /\ policy.generation <= pol[c].generation
      /\ pol[c].generation = policy.generation => pol[c].spec = policy.spec
  BY DEF StatusInv, UpToDate, CopyInv, Observed
<1>2. policy.generation \in Nat
  BY TypeInvParts DEF FirstLife, Live, WorldOK, WorldTypeOK, Optional, BackupPolicy
<1> QED
  BY <1>1, <1>2

(***************************************************************************)
(* What a step of a reconcile learns.                                      *)
(***************************************************************************)
Moves(c, from, to) == pc[c] = from /\ pc'[c] = to /\ pol'[c] = pol[c]

Waits(c, from) == Moves(c, from, "writeStatus") /\ verdict'[c].status.phase = "Pending"

Learns(c) ==
  \/ UNCHANGED <<pc[c], pol[c], verdict[c]>>
  \/ pc'[c] \in {"idle", "applyClaim", "readClaim"}
  \/ pc'[c] = "writeStatus" /\ verdict'[c].status.phase = "Failed"
  \/ Waits(c, "readClaim") /\ ~SeenClaimReady(c)
  \/ Moves(c, "readClaim", "applyAccess") /\ SeenClaimReady(c)
  \/ Moves(c, "applyAccess", "readAccess")
  \/ Waits(c, "readAccess") /\ ~SeenAccessReady(c)
  \/ Moves(c, "readAccess", "readCredentials") /\ SeenAccessReady(c)
  \/ Waits(c, "readCredentials") /\ credentials = None
  \/ Moves(c, "readCredentials", "deleteSchedule")
  \/ Moves(c, "readCredentials", "readRepoSecret")
  \/ Moves(c, "readRepoSecret", "createRepoSecret")
  \/ Moves(c, "readRepoSecret", "applySchedule") /\ seenRepo[c] # None
  \/ Moves(c, "createRepoSecret", "applySchedule") /\ repoSecret' # None
  \/ /\ Moves(c, "deleteSchedule", "writeStatus") \/ Moves(c, "applySchedule", "writeStatus")
     /\ verdict'[c].status.phase = "Ready"
     /\ RunningJobs' = JobsOf(pol[c].spec)

LEMMA Leaves ==
  ASSUME TypeInv, NEW c \in Controllers, LoseAnswer(c) \/ GiveUp(c) \/ Finish(c)
  PROVE  Learns(c)
<1>1. pc'[c] = "idle"
  BY TypeInvParts DEF ControlOK, LoseAnswer, GiveUp, Finish, Leave
<1> QED
  BY <1>1 DEF Learns

LEMMA GoesTo ==
  ASSUME TypeInv, NEW c \in Controllers, NEW call, GoTo(c, call)
  PROVE  pc'[c] = call /\ pol'[c] = pol[c]
BY TypeInvParts DEF ControlOK, GoTo

LEMMA Concludes ==
  ASSUME TypeInv, NEW c \in Controllers, NEW status, NEW requeue, Conclude(c, status, requeue)
  PROVE  verdict'[c].status = status
BY TypeInvParts DEF ControlOK, Conclude

LEMMA LearnsStart ==
  ASSUME TypeInv, NEW c \in Controllers, StartGone(c) \/ StartRejected(c) \/ StartProvisioning(c)
  PROVE  Learns(c)
<1> USE TypeInvParts DEF ControlOK
<1>1. CASE StartGone(c)
  BY <1>1 DEF StartGone, Learns
<1>2. CASE StartProvisioning(c)
  <2>1. pc'[c] = "applyClaim"
    BY <1>2 DEF StartProvisioning, Start
  <2> QED
    BY <2>1 DEF Learns
<1>3. CASE StartRejected(c)
  <2>1. pc'[c] = "writeStatus"
    BY <1>3 DEF StartRejected, Start
  <2>2. verdict'[c].status = [NoStatus EXCEPT !.phase = "Failed",
                                !.message = Problems(seenPolicy[c].spec, Defaults)]
    BY <1>3, Concludes DEF StartRejected
  <2>3. verdict'[c].status.phase = "Failed"
    BY <2>2 DEF NoStatus
  <2> QED
    BY <2>1, <2>3 DEF Learns
<1> QED
  BY <1>1, <1>2, <1>3

LEMMA LearnsReading ==
  ASSUME TypeInv, NEW c \in Controllers,
         \/ ApplyClaim(c) \/ ReadClaim(c) \/ ApplyAccess(c) \/ ReadAccess(c)
         \/ ReadCredentials(c)
  PROVE  Learns(c)
<1>1. ASSUME NEW text, NEW state, NEW ref, NEW requeue,
             Conclude(c, Waiting(text, state, ref), requeue)
      PROVE  verdict'[c].status.phase = "Pending"
  BY <1>1, Concludes, WaitingStatus
<1>2. CASE ApplyClaim(c)
  BY <1>2, Leaves, GoesTo DEF ApplyClaim, Answer, Learns
<1>3. CASE ReadClaim(c)
  BY <1>1, <1>3, Leaves, GoesTo DEF ReadClaim, Learns, Moves, Waits, SeenClaimReady
<1>4. CASE ApplyAccess(c)
  BY <1>4, Leaves, GoesTo DEF ApplyAccess, Answer, Learns, Moves
<1>5. CASE ReadAccess(c)
  BY <1>1, <1>5, Leaves, GoesTo DEF ReadAccess, Learns, Moves, Waits, SeenAccessReady
<1>6. CASE ReadCredentials(c)
  BY <1>1, <1>6, Leaves, GoesTo DEF ReadCredentials, Learns, Moves, Waits
<1> QED
  BY <1>2, <1>3, <1>4, <1>5, <1>6

LEMMA LearnsSchedule ==
  ASSUME TypeInv, VerdictInv, NEW c \in Controllers,
         DeleteSchedule(c) \/ ReadRepoSecret(c) \/ CreateRepoSecret(c) \/ ApplySchedule(c)
  PROVE  Learns(c)
<1>1. /\ verdict[c].status.phase = "Ready"
      /\ pc[c] = "deleteSchedule" <=> Config(pol[c].spec, Defaults).mode = "BucketOnly"
  BY DEF VerdictInv, VerdictFits, AfterCredentials, DeleteSchedule, ReadRepoSecret,
         CreateRepoSecret, ApplySchedule
<1>2. CASE DeleteSchedule(c)
  <2>1. RunningJobs' = JobsOf(pol[c].spec)
    BY <1>1, <1>2 DEF DeleteSchedule, RunningJobs, JobsOf
  <2>2. ASSUME GoTo(c, "writeStatus"), UNCHANGED verdict PROVE Learns(c)
    BY <1>1, <1>2, <2>1, <2>2, GoesTo DEF DeleteSchedule, Learns, Moves
  <2> QED
    BY <1>2, <2>2, Leaves DEF DeleteSchedule, Answer
<1>3. CASE ReadRepoSecret(c)
  BY <1>3, Leaves, GoesTo DEF ReadRepoSecret, Learns, Moves
<1>4. CASE CreateRepoSecret(c)
  <2>1. repoSecret' # None
    <3>1. ASSUME NEW p \in FreshPasswords, pc[c] = "createRepoSecret",
                 repoSecret' = [owner |-> Owner(c), managed |-> TRUE, password |-> p]
          PROVE  repoSecret' # None
      <4>1. repoSecret' \in RepositorySecret
        BY <3>1, PolType DEF FreshPasswords, RepositorySecret, Owner
      <4> QED
        BY <4>1, NoneAssumption
    <3> QED
      BY <1>4, <3>1 DEF CreateRepoSecret
  <2> QED
    BY <1>4, <2>1, Leaves, GoesTo DEF CreateRepoSecret, Answer, Learns, Moves
<1>5. CASE ApplySchedule(c)
  <2>1. RunningJobs' = JobsOf(pol[c].spec)
    <3>1. /\ verdict[c].status.bucket.bucket \in Buckets
          /\ verdict[c].status.endpoint \in Endpoints
      BY <1>5, TypeInvParts
      DEF ApplySchedule, ControlOK, UnderWay, AfterCredentials, Verdict, BackupPolicyStatus
    <3>2. schedule' \in Schedule /\ schedule'.jobs = JobsFor(Config(pol[c].spec, Defaults))
      BY <1>5, <3>1, PolType DEF ApplySchedule, Schedule, Resolved
    <3>3. schedule' # None
      BY <3>2, NoneAssumption
    <3>4. Config(pol[c].spec, Defaults).mode # "BucketOnly"
      BY <1>1, <1>5 DEF ApplySchedule
    <3> QED
      BY <3>2, <3>3, <3>4 DEF RunningJobs, JobsOf
  <2>2. ASSUME GoTo(c, "writeStatus"),
               verdict' = [verdict EXCEPT ![c].status.schedule = Resolved(c).schedules["backup"]]
        PROVE  Learns(c)
    <3>1. verdict \in [Controllers -> Verdict]
      BY TypeInvParts DEF ControlOK
    <3>2. verdict'[c].status.phase = verdict[c].status.phase
      BY <2>2, <3>1 DEF Verdict, BackupPolicyStatus
    <3> QED
      BY <1>1, <1>5, <2>1, <2>2, <3>2, GoesTo DEF ApplySchedule, Learns, Moves
  <2> QED
    BY <1>5, <2>2, Leaves DEF ApplySchedule
<1> QED
  BY <1>2, <1>3, <1>4, <1>5

LEMMA StepLearns ==
  ASSUME TypeInv, VerdictInv, NEW c \in Controllers, Step(c)
  PROVE  Learns(c)
<1>1. CASE KeepStatus(c) \/ WriteStatus(c) \/ CallFails(c)
  BY <1>1, Leaves DEF KeepStatus, WriteStatus, CallFails
<1>2. CASE SyncPolicy(c) \/ SyncOwned(c) \/ TimerFires(c) \/ OtherEvent(c)
  BY <1>2
  DEF SyncPolicy, SyncOwned, SyncClaim, SyncAccess, SyncRepo, TimerFires, OtherEvent, Wake,
      Learns
<1>3. CASE Restart(c)
  BY <1>3, TypeInvParts DEF Restart, ControlOK, Learns
<1> QED
  BY <1>1, <1>2, <1>3, LearnsStart, LearnsReading, LearnsSchedule DEF Step, Reconcile

(***************************************************************************)
(* Ready is the truth.                                                     *)
(***************************************************************************)
LEMMA ReadyInit == Init => ReadyInv
BY DEF Init, WorldInit, ReadyInv, FirstLife, Live

LEMMA AllSeenStands ==
  ASSUME BaseInv, SeenInv, [Next]_vars, FirstLife, NEW c \in Controllers, AllSeen(c)
  PROVE  AllSeen(c)'
BY SeenStands, CredentialsStand DEF BaseInv, AllSeen, Early

LEMMA ReadyCreate ==
  ASSUME TypeInv, RepositoryInv, OwnerInv, CreatePolicy, incarnations = 0,
         UNCHANGED controller
  PROVE  ReadyInv'
<1>1. schedule' = None
  BY DEF OwnerInv, Owned, CreatePolicy
<1>2. policy'.status.phase = ""
  <2>1. policy'.status = NoStatus
    BY DEF CreatePolicy
  <2>2. NoStatus.phase = ""
    BY Zenon DEF NoStatus
  <2> QED
    BY <2>1, <2>2
<1>3. ASSUME NEW c \in Controllers PROVE pc'[c] = "idle"
  <2>1. pol[c] = None
    BY DEF RepositoryInv, Began
  <2> QED
    BY <2>1, TypeInvParts DEF ControlOK, UnderWay, controller
<1> QED
  BY <1>1, <1>2, <1>3 DEF ReadyInv, Found, PastClaim, PastAccess, AfterCredentials

LEMMA ReadyEnvironment ==
  ASSUME BaseInv, SeenInv, ReadyInv, [Next]_vars, Environment, UNCHANGED controller
  PROVE  ReadyInv'
<1> USE DEF BaseInv
<1> SUFFICES ASSUME FirstLife' PROVE ReadyInv'
  BY DEF ReadyInv
<1>1. CASE ~FirstLife
  BY <1>1, LifeStep, ReadyCreate
<1>2. CASE FirstLife
  <2>1. /\ policy'.status = policy.status
        /\ UNCHANGED schedule
        /\ repoSecret # None => repoSecret' # None
    BY <1>2, StatusStands, ScheduleStands, ReadyStands DEF Early
  <2>2. \A c \in Controllers : Found(c)'
    <3> SUFFICES ASSUME NEW c \in Controllers PROVE Found(c)'
      OBVIOUS
    <3>1. Found(c)
      BY <1>2 DEF ReadyInv
    <3>2. UNCHANGED <<pc[c], pol[c], verdict[c], seenClaim[c], seenAccess[c]>>
      BY DEF controller, cache
    <3>3. AllSeen(c) => AllSeen(c)'
      BY <1>2, AllSeenStands
    <3> QED
      BY <2>1, <3>1, <3>2, <3>3 DEF Found, SeenClaimReady, SeenAccessReady, RunningJobs
  <2>3. (Observed /\ policy.status.phase = "Ready" => RunningJobs = SpecJobs)'
    <3>1. CASE EditSpec
      <4>1. /\ policy \in BackupPolicy
            /\ policy.status.observedGeneration <= policy.generation
        BY <1>2, TypeInvParts
        DEF FirstLife, Live, WorldOK, WorldTypeOK, Optional, StatusInv
      <4>2. /\ policy.generation \in Nat /\ policy.status.observedGeneration \in Nat
            /\ policy'.generation = policy.generation + 1
        BY <3>1, <4>1 DEF EditSpec, BackupPolicy, BackupPolicyStatus
      <4>3. policy'.status.observedGeneration # policy'.generation
        BY <2>1, <4>1, <4>2
      <4> QED
        BY <4>3 DEF Observed
    <3>2. CASE ~EditSpec
      <4>1. policy' = policy
        BY <1>2, <3>2, PolicyStands
      <4> QED
        BY <1>2, <2>1, <4>1 DEF ReadyInv, Observed, RunningJobs, SpecJobs, SpecConfig
    <3> QED
      BY <3>1, <3>2
  <2> QED
    BY <1>2, <2>1, <2>2, <2>3 DEF ReadyInv
<1> QED
  BY <1>1, <1>2

(* What a reconcile found stays so, and what it learns is so. *)
LEMMA FoundStep ==
  ASSUME BaseInv, SeenInv, ReadyInv, [Next]_vars, FirstLife, NEW c \in Controllers, Step(c)
  PROVE  Found(c)'
<1> USE DEF BaseInv
<1>1. Found(c) /\ Learns(c)
  BY StepLearns DEF ReadyInv
<1>2. /\ SeenClaimReady(c) => SeenClaimReady(c)'
      /\ SeenAccessReady(c) => SeenAccessReady(c)'
      /\ AllSeen(c) => AllSeen(c)'
      /\ repoSecret # None => repoSecret' # None
      /\ seenRepo[c] # None => repoSecret # None
  BY SeenStands, AllSeenStands, ReadyStands DEF Early, SeenInv
<1>3. (pc[c] = "applySchedule" => repoSecret # None)'
  BY <1>1, <1>2 DEF Found, Learns, Moves, Waits
<1>4. (pc[c] \in PastClaim => SeenClaimReady(c))'
  BY <1>1, <1>2 DEF Found, Learns, Moves, Waits, PastClaim, PastAccess, AfterCredentials
<1>5. (pc[c] \in PastAccess => SeenAccessReady(c))'
  BY <1>1, <1>2 DEF Found, Learns, Moves, Waits, PastAccess, AfterCredentials
<1>6. ASSUME pc'[c] = "writeStatus", verdict'[c].status.phase = "Ready"
      PROVE  AllSeen(c)' /\ RunningJobs' = JobsOf(pol'[c].spec)
  <2>1. CASE UNCHANGED <<pc[c], pol[c], verdict[c]>>
    <3>1. AllSeen(c) /\ RunningJobs = JobsOf(pol[c].spec)
      BY <1>1, <1>6, <2>1 DEF Found
    <3>2. UNCHANGED schedule
      BY <1>6, <2>1, StepObjects DEF ObjectFrame
    <3> QED
      BY <1>2, <2>1, <3>1, <3>2 DEF RunningJobs
  <2>2. CASE /\ Moves(c, "deleteSchedule", "writeStatus") \/ Moves(c, "applySchedule", "writeStatus")
             /\ RunningJobs' = JobsOf(pol[c].spec)
    <3>1. pc[c] \in AfterCredentials /\ pol'[c] = pol[c]
      BY <2>2 DEF Moves, AfterCredentials
    <3>2. SeenClaimReady(c) /\ SeenAccessReady(c)
      BY <1>1, <3>1 DEF Found, PastClaim, PastAccess
    <3>3. UsableCredentials
      BY <3>1 DEF CoordinateInv, Concluded, Published
    <3> QED
      BY <1>2, <2>2, <3>1, <3>2, <3>3 DEF AllSeen
  <2> QED
    BY <1>1, <1>6, <2>1, <2>2 DEF Learns, Moves, Waits
<1>7. ASSUME policy'.status.phase = "Ready"
      PROVE  AllSeen(c)' /\ (pc'[c] = "writeStatus" => verdict'[c].status.phase # "Pending")
  <2>1. CASE policy' = policy
    <3>1. /\ AllSeen(c)
          /\ pc[c] = "writeStatus" => verdict[c].status.phase # "Pending"
      BY <1>1, <1>7, <2>1 DEF Found
    <3> QED
      BY <1>1, <1>2, <3>1 DEF Learns, Moves, Waits, AllSeen, UsableCredentials
  <2>2. CASE policy' # policy
    <3>1. pc[c] = "writeStatus" /\ policy'.status = Want(c)
      BY <2>2, OnlyWriteStatus, TypeInvParts
      DEF BackupPolicy, WorldOK, WorldTypeOK, Optional
    <3>2. pc'[c] = "idle"
      BY <2>2, OnlyWriteStatusWrites, TypeInvParts
      DEF WriteStatus, Finish, GiveUp, LoseAnswer, Leave, ControlOK
    <3>3. verdict[c].status \in BackupPolicyStatus
      BY TypeInvParts DEF ControlOK, Verdict
    <3>4. policy'.status.phase = verdict[c].status.phase
      BY <3>1, <3>3 DEF Want, BackupPolicyStatus
    <3>5. AllSeen(c)
      BY <1>1, <1>7, <3>1, <3>4 DEF Found
    <3> QED
      BY <1>2, <3>2, <3>5
  <2> QED
    BY <2>1, <2>2
<1> QED
  BY <1>3, <1>4, <1>5, <1>6, <1>7 DEF Found

(* What runs for a policy that is Ready on its spec is left alone. *)
LEMMA AnswerStands ==
  ASSUME BaseInv, CopyInv, ReadyInv, FirstLife, Observed,
         policy.status.phase \in {"Ready", "Failed"}, NEW c \in Controllers, Step(c)
  PROVE  UNCHANGED RunningJobs
<1> USE DEF BaseInv
<1>1. CASE UNCHANGED schedule
  BY <1>1 DEF RunningJobs
<1>2. CASE schedule' # schedule
  <2>1. pc[c] \in {"deleteSchedule", "applySchedule"}
    BY <1>2, StepObjects DEF ObjectFrame
  <2>2. pol[c] # None /\ pol[c].spec = policy.spec
    BY <2>1, ObservedIsAtWork, TypeInvParts DEF ControlOK, UnderWay
  <2>3. /\ Actionable(pol[c].spec, Defaults)
        /\ pc[c] = "deleteSchedule" <=> Config(pol[c].spec, Defaults).mode = "BucketOnly"
    BY <2>1 DEF VerdictInv, VerdictFits, AfterCredentials
  <2>4. policy.status.phase = "Ready"
    BY <2>2, <2>3 DEF StatusInv, Tells
  <2>5. RunningJobs = JobsOf(pol[c].spec)
    BY <2>2, <2>4 DEF ReadyInv, SpecJobs, SpecConfig, JobsOf
  <2>6. RunningJobs' = JobsOf(pol[c].spec)
    BY <1>2, <2>1, <2>3, StepObjects DEF ObjectFrame, RunningJobs, JobsOf, Resolved
  <2> QED
    BY <2>5, <2>6
<1> QED
  BY <1>1, <1>2

LEMMA ReadyReplica ==
  ASSUME OneReplica, BaseInv, SeenInv, CopyInv, ReadyInv, [Next]_vars,
         NEW c \in Controllers, Step(c)
  PROVE  ReadyInv'
<1> USE DEF BaseInv
<1> SUFFICES ASSUME FirstLife' PROVE ReadyInv'
  BY DEF ReadyInv
<1>1. FirstLife
  BY FirstLifeGoesOn
<1>2. ObjectFrame(c) /\ Frame(c) /\ Found(c)
  BY <1>1, StepObjects, ReconcileFrame, OtherFrame DEF Step, ReadyInv
<1>3. (schedule # None => repoSecret # None)'
  <2>1. repoSecret # None => repoSecret' # None
    BY <1>1, ReadyStands DEF Early
  <2>2. schedule' # None => repoSecret # None
    BY <1>1, <1>2 DEF ObjectFrame, ReadyInv, Found
  <2> QED
    BY <2>1, <2>2
<1>4. \A d \in Controllers : Found(d)'
  BY <1>1, FoundStep DEF OneReplica
<1>5. (Observed /\ policy.status.phase = "Ready" => RunningJobs = SpecJobs)'
  <2>1. CASE policy' = policy
    <3>1. UNCHANGED <<SpecJobs, Observed>>
      BY <2>1 DEF SpecJobs, SpecConfig, Observed
    <3>2. Observed /\ policy.status.phase = "Ready" => UNCHANGED RunningJobs
      BY <1>1, AnswerStands
    <3> QED
      BY <1>1, <2>1, <3>1, <3>2 DEF ReadyInv
  <2>2. CASE policy' # policy
    <3> SUFFICES ASSUME Observed', policy'.status.phase = "Ready"
                 PROVE  RunningJobs' = SpecJobs'
      OBVIOUS
    <3>1. policy \in BackupPolicy
      BY <1>1, TypeInvParts DEF FirstLife, Live, WorldOK, WorldTypeOK, Optional
    <3>2. /\ pc[c] = "writeStatus" /\ policy'.status = Want(c)
          /\ policy'.spec = policy.spec /\ policy'.generation = policy.generation
      BY <2>2, <3>1, OnlyWriteStatus DEF BackupPolicy
    <3>3. verdict[c].status \in BackupPolicyStatus /\ pol[c] # None
      BY <3>2, TypeInvParts DEF ControlOK, UnderWay, Verdict
    <3>4. /\ policy'.status.phase = verdict[c].status.phase
          /\ policy'.status.observedGeneration = pol[c].generation
      BY <3>2, <3>3 DEF Want, BackupPolicyStatus
    <3>5. pol[c].spec = policy.spec
      BY <1>1, <3>2, <3>3, <3>4 DEF Observed, StatusInv, UpToDate
    <3>6. RunningJobs = JobsOf(pol[c].spec)
      BY <1>2, <3>2, <3>4 DEF Found
    <3>7. UNCHANGED schedule
      BY <1>2, <3>2 DEF ObjectFrame
    <3> QED
      BY <3>2, <3>5, <3>6, <3>7 DEF RunningJobs, SpecJobs, SpecConfig, JobsOf
  <2> QED
    BY <2>1, <2>2
<1> QED
  BY <1>3, <1>4, <1>5 DEF ReadyInv

LEMMA ReadyStep ==
  ASSUME OneReplica
  PROVE  BaseInv /\ SeenInv /\ CopyInv /\ ReadyInv /\ [Next]_vars => ReadyInv'
<1> SUFFICES ASSUME BaseInv, SeenInv, CopyInv, ReadyInv, [Next]_vars PROVE ReadyInv'
  OBVIOUS
<1>1. CASE UNCHANGED vars
  BY <1>1
  DEF vars, world, controller, cache, ReadyInv, Found, AllSeen, SeenClaimReady,
      SeenAccessReady, UsableCredentials, RunningJobs, SpecJobs, SpecConfig, Observed,
      FirstLife, Live
<1> QED
  BY <1>1, ReadyEnvironment, ReadyReplica DEF Next

LEMMA BaseInvariance == Spec => []BaseInv
BY Invariance, CoordinateInvariance, PTL DEF BaseInv

LEMMA OneReplicaInvariance ==
  ASSUME OneReplica
  PROVE  Spec => [](BaseInv /\ SeenInv /\ CopyInv /\ ReadyInv)
<1>1. Init => SeenInv /\ CopyInv /\ ReadyInv
  BY SeenInit, CopyInit, ReadyInit
<1>2. BaseInv /\ SeenInv /\ CopyInv /\ ReadyInv /\ [Next]_vars => SeenInv' /\ CopyInv' /\ ReadyInv'
  BY SeenStep, CopyStep, ReadyStep DEF BaseInv
<1> QED
  BY <1>1, <1>2, BaseInvariance, PTL DEF Spec

(* With one replica, a policy that is Ready on its latest spec runs just   *)
(* the jobs that spec asks for, and has a repository secret to run them    *)
(* with - through edits, stale copies, lost answers and restarts.          *)
THEOREM ReadyIsTheTruth ==
  ASSUME OneReplica
  PROVE  Spec => []ReadyMeansProvisioned
<1>1. ReadyInv => ReadyMeansProvisioned
  BY DEF ReadyInv, ReadyMeansProvisioned
<1> QED
  BY <1>1, OneReplicaInvariance, PTL

(***************************************************************************)
(* The contract.                                                           *)
(***************************************************************************)
Reported ==
  IF policy = None THEN [generation |-> 0, phase |-> ""]
  ELSE [generation |-> policy.status.observedGeneration, phase |-> policy.status.phase]

ContractStep == [Contract!Next]_<<Wanted, Reported, RunningJobs>>

(* The mapping, as it reads in and out of the first life. *)
LEMMA WantedOf ==
  /\ FirstLife => /\ Wanted.generation = policy.generation
                  /\ Wanted.possible = SpecActionable
                  /\ Wanted.jobs = SpecJobs
                  /\ Reported.generation = policy.status.observedGeneration
                  /\ Reported.phase = policy.status.phase
  /\ ~FirstLife => Wanted = [generation |-> 0, possible |-> FALSE, jobs |-> None]
BY DEF Wanted, Reported, FirstLife, Live

LEMMA WantedNext ==
  /\ FirstLife' => /\ Wanted'.generation = policy'.generation
                   /\ Reported'.generation = policy'.status.observedGeneration
                   /\ Reported'.phase = policy'.status.phase
                   /\ Reported' = [generation |-> policy'.status.observedGeneration,
                                   phase |-> policy'.status.phase]
  /\ ~FirstLife' => Wanted' = [generation |-> 0, possible |-> FALSE, jobs |-> None]
BY DEF Wanted, Reported, FirstLife, Live

LEMMA FirstLifePolicy ==
  ASSUME TypeInv, StatusInv, FirstLife
  PROVE  /\ policy # None /\ policy \in BackupPolicy
         /\ policy.generation \in Nat /\ policy.generation >= 1
         /\ policy.status \in BackupPolicyStatus
BY TypeInvParts
DEF FirstLife, Live, WorldOK, WorldTypeOK, Optional, BackupPolicy, StatusInv

LEMMA ContractInit == Init => Contract!Init
BY DEF Init, WorldInit, Contract!Init, Contract!Asked, Wanted, RunningJobs, FirstLife, Live

LEMMA Unasked ==
  ASSUME ~FirstLife, ~FirstLife'
  PROVE  ContractStep
<1>1. UNCHANGED Wanted /\ Wanted.generation = 0
  <2> DEFINE nothing == [generation |-> 0, possible |-> FALSE, jobs |-> None]
  <2>1. nothing.generation = 0
    OBVIOUS
  <2>2. Wanted = nothing /\ Wanted' = nothing
    BY Zenon, WantedOf, WantedNext
  <2> HIDE DEF nothing
  <2> QED
    BY <2>1, <2>2
<1>2. Contract!Unwanted
  BY <1>1 DEF Contract!Unwanted, Contract!Asked
<1> QED
  BY <1>2 DEF ContractStep, Contract!Next

LEMMA Asks ==
  ASSUME TypeInv, OwnerInv, ~FirstLife, FirstLife', CreatePolicy, incarnations = 0
  PROVE  ContractStep
<1>1. Wanted.generation = 0 /\ Wanted'.generation = 1
  BY WantedOf, WantedNext DEF CreatePolicy
<1>2. RunningJobs = None /\ UNCHANGED RunningJobs
  BY DEF OwnerInv, Owned, RunningJobs, CreatePolicy
<1>3. Reported' = [generation |-> 0, phase |-> ""]
  <2>1. policy'.status = NoStatus
    BY DEF CreatePolicy
  <2>2. NoStatus.observedGeneration = 0 /\ NoStatus.phase = ""
    BY Zenon DEF NoStatus
  <2> QED
    BY <2>1, <2>2, WantedNext
<1>4. ~Contract!Asked /\ Contract!Asked'
  BY <1>1 DEF Contract!Asked
<1>5. Contract!Ask
  BY Zenon, <1>2, <1>3, <1>4 DEF Contract!Ask, Reported
<1> QED
  BY <1>5 DEF ContractStep, Contract!Next

LEMMA Withdraws ==
  ASSUME TypeInv, StatusInv, FirstLife, ~FirstLife'
  PROVE  ContractStep
<1>1. Wanted.generation # 0 /\ Wanted'.generation = 0
  BY WantedOf, WantedNext, FirstLifePolicy
<1>2. Contract!Withdraw
  BY <1>1 DEF Contract!Withdraw, Contract!Asked
<1> QED
  BY <1>2 DEF ContractStep, Contract!Next

LEMMA Edits ==
  ASSUME TypeInv, StatusInv, FirstLife, FirstLife', EditSpec
  PROVE  ContractStep
<1>1. /\ policy'.generation = policy.generation + 1
      /\ policy'.status = policy.status
  BY FirstLifePolicy DEF EditSpec, BackupPolicy
<1>2. /\ Wanted.generation # 0
      /\ Wanted'.generation = Wanted.generation + 1
  BY <1>1, WantedOf, WantedNext, FirstLifePolicy
<1>3. UNCHANGED <<Reported, RunningJobs>>
  BY <1>1 DEF Reported, RunningJobs, EditSpec, FirstLife, Live
<1>4. Contract!Edit
  BY <1>2, <1>3 DEF Contract!Edit, Contract!Asked, Reported
<1> QED
  BY <1>4 DEF ContractStep, Contract!Next

(* The spec as it is wanted. *)
LEMMA WantedStands ==
  ASSUME FirstLife, FirstLife', policy'.generation = policy.generation,
         policy'.spec = policy.spec
  PROVE  UNCHANGED Wanted
<1>1. /\ UNCHANGED SpecJobs
      /\ (SpecActionable)' = SpecActionable
  BY DEF SpecJobs, SpecActionable, SpecConfig
<1> QED
  BY <1>1 DEF Wanted

LEMMA ContractReplica ==
  ASSUME OneReplica, BaseInv, SeenInv, CopyInv, ReadyInv, ReadyInv', StatusInv', TypeInv',
         FirstLife, FirstLife', NEW c \in Controllers, Step(c)
  PROVE  ContractStep
<1> USE DEF BaseInv
<1>1. /\ policy # None /\ policy \in BackupPolicy
      /\ policy.generation \in Nat /\ policy.generation >= 1
      /\ policy.status \in BackupPolicyStatus
  BY FirstLifePolicy
<1>2. /\ policy'.generation = policy.generation
      /\ policy'.spec = policy.spec
  BY <1>1, ReconcileFrame, OtherFrame DEF Step, Frame, BackupPolicy
<1>3. UNCHANGED Wanted
  BY <1>2, WantedStands
<1>4. Wanted.generation # 0
  BY <1>1, WantedOf
<1>5. CASE UNCHANGED policy
  <2>1. UNCHANGED Reported
    BY <1>5 DEF Reported
  <2>2. CASE Observed /\ policy.status.phase \in {"Ready", "Failed"}
    <3>1. UNCHANGED RunningJobs
      BY <2>2, AnswerStands
    <3> QED
      BY <1>3, <2>1, <3>1 DEF ContractStep
  <2>3. CASE ~(Observed /\ policy.status.phase \in {"Ready", "Failed"})
    <3>1. ~(Reported.generation = Wanted.generation /\ Reported.phase \in {"Ready", "Failed"})
      BY <2>3, WantedOf DEF Observed
    <3>2. Contract!Run
      BY <1>3, <1>4, <2>1, <3>1
      DEF Contract!Run, Contract!Asked, Contract!Answered, Reported
    <3> QED
      BY <3>2 DEF ContractStep, Contract!Next
  <2> QED
    BY <2>2, <2>3
<1>6. CASE policy' # policy
  <2>1. /\ pc[c] = "writeStatus" /\ policy'.status = Want(c)
        /\ UNCHANGED RunningJobs
    BY <1>1, <1>6, OnlyWriteStatus, StepObjects DEF BackupPolicy, ObjectFrame, RunningJobs
  <2>2. pol[c] # None /\ verdict[c].status \in BackupPolicyStatus
    BY <2>1, TypeInvParts DEF ControlOK, UnderWay, Verdict
  <2>3. /\ policy'.status.phase = verdict[c].status.phase
        /\ policy'.status.observedGeneration = pol[c].generation
    BY <2>1, <2>2 DEF Want, BackupPolicyStatus
  <2>4. Tells(verdict[c].status, pol[c].spec)
    BY <2>1 DEF VerdictInv, VerdictFits
  <2>5. /\ pol[c].generation \in policy.status.observedGeneration..policy.generation
        /\ policy.status.observedGeneration \in Nat
    <3>1. policy.status.observedGeneration \in Nat
      BY <1>1 DEF BackupPolicyStatus
    <3>2. pol[c].generation \in 1..policy.generation
      BY <2>2 DEF StatusInv, UpToDate
    <3>3. policy.status.observedGeneration <= pol[c].generation
      BY <2>2 DEF CopyInv
    <3> QED
      BY <1>1, <3>1, <3>2, <3>3
  <2>6. CASE Observed /\ policy.status.phase \in {"Ready", "Failed"}
    <3>1. pol[c].spec = policy.spec /\ pol[c].generation = policy.generation
      BY <1>1, <2>2, <2>5, <2>6, ObservedIsAtWork DEF Observed
    <3>2. verdict[c].status.phase = "Failed" <=> policy.status.phase = "Failed"
      BY <2>4, <2>6, <3>1 DEF StatusInv, Tells
    <3>3. policy.status.phase = "Ready" => verdict[c].status.phase # "Pending"
      BY <2>1 DEF ReadyInv, Found
    <3>4. verdict[c].status.phase \in {"Pending", "Ready", "Failed"}
      BY <2>2, <2>4 DEF Tells, BackupPolicyStatus, Phases
    <3>5. policy'.status.phase = policy.status.phase
      BY <2>3, <2>6, <3>2, <3>3, <3>4
    <3>6. policy'.status.observedGeneration = policy.status.observedGeneration
      BY <2>3, <2>6, <3>1 DEF Observed
    <3>7. UNCHANGED Reported
      BY <3>5, <3>6 DEF Reported, FirstLife, Live
    <3> QED
      BY <1>3, <2>1, <3>7 DEF ContractStep
  <2>7. CASE ~(Observed /\ policy.status.phase \in {"Ready", "Failed"})
    <3>1. ~(Reported.generation = Wanted.generation /\ Reported.phase \in {"Ready", "Failed"})
      BY <2>7, WantedOf DEF Observed
    <3>2. Reported'.phase \in {"Pending", "Ready", "Failed"}
      BY <2>2, <2>3, <2>4, WantedNext DEF Tells, BackupPolicyStatus, Phases
    <3>3. Reported'.generation \in Reported.generation..Wanted.generation
      BY <2>3, <2>5, WantedOf, WantedNext
    <3>4. ASSUME Reported'.generation = Wanted.generation
          PROVE  /\ Reported'.phase = "Failed" <=> ~Wanted.possible
                 /\ Reported'.phase = "Ready" => RunningJobs = Wanted.jobs
      <4>1. Observed'
        BY <1>2, <3>4, WantedOf, WantedNext DEF Observed
      <4>2. pol[c].spec = policy.spec
        BY <2>2, <2>3, <3>4, WantedOf, WantedNext DEF StatusInv, UpToDate
      <4>3. policy'.status.phase = "Failed" <=> ~SpecActionable
        BY <1>1, <2>3, <2>4, <4>2, ActionableSpec
        DEF Tells, SpecActionable, SpecConfig, BackupPolicy
      <4>4. policy'.status.phase = "Ready" => RunningJobs = SpecJobs
        BY <2>1, <2>3, <4>2
        DEF ReadyInv, Found, SpecJobs, SpecConfig, JobsOf
      <4> QED
        BY <4>3, <4>4, WantedOf, WantedNext
    <3>5. Contract!Report
      BY <1>3, <1>4, <2>1, <3>1, <3>2, <3>3, <3>4
      DEF Contract!Report, Contract!Asked, Contract!Answered, Reported
    <3> QED
      BY <3>5 DEF ContractStep, Contract!Next
  <2> QED
    BY <2>6, <2>7
<1> QED
  BY <1>5, <1>6

LEMMA ContractNext ==
  ASSUME OneReplica
  PROVE  /\ BaseInv /\ SeenInv /\ CopyInv /\ ReadyInv
         /\ BaseInv' /\ ReadyInv'
         /\ [Next]_vars
         => ContractStep
<1> USE DEF BaseInv
<1> SUFFICES ASSUME BaseInv, SeenInv, CopyInv, ReadyInv, BaseInv', ReadyInv', [Next]_vars
             PROVE  ContractStep
  OBVIOUS
<1>1. CASE ~FirstLife
  BY <1>1, LifeStep, Unasked, Asks
<1>2. CASE FirstLife /\ ~FirstLife'
  BY <1>2, Withdraws
<1>3. CASE FirstLife /\ FirstLife'
  <2>1. CASE EditSpec
    BY <1>3, <2>1, Edits
  <2>2. CASE (Environment /\ UNCHANGED controller /\ ~EditSpec) \/ UNCHANGED vars
    <3>1. UNCHANGED <<policy, schedule>>
      BY <1>3, <2>2, PolicyStands, ScheduleStands DEF vars, world
    <3>2. UNCHANGED <<Wanted, Reported, RunningJobs>>
      BY <1>3, <3>1, WantedStands DEF Reported, RunningJobs
    <3> QED
      BY <3>2 DEF ContractStep
  <2>3. ASSUME NEW c \in Controllers, Step(c) PROVE ContractStep
    BY <1>3, <2>3, ContractReplica
  <2> QED
    BY <2>1, <2>2, <2>3 DEF Next
<1> QED
  BY <1>1, <1>2, <1>3

(* One replica keeps the contract: what it reports of a spec is the truth  *)
(* about it, and an answer - Ready or Failed - stands, and what runs with  *)
(* it, until the spec is edited or the policy goes (Reconcile).            *)
THEOREM TheContractIsKept ==
  ASSUME OneReplica
  PROVE  Spec => ContractIsKept
<1>1. Init => Contract!Init
  BY ContractInit
<1>2. /\ BaseInv /\ SeenInv /\ CopyInv /\ ReadyInv /\ BaseInv' /\ ReadyInv' /\ [Next]_vars
      => [Contract!Next]_<<Wanted, Reported, RunningJobs>>
  BY ContractNext DEF ContractStep
<1>3. Spec => Contract!Init /\ [][Contract!Next]_<<Wanted, Reported, RunningJobs>>
  BY <1>1, <1>2, OneReplicaInvariance, PTL DEF Spec
<1> QED
  BY <1>3 DEF ContractIsKept, Contract!Spec, Reported

=============================================================================
