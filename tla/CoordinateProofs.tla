-------------------------- MODULE CoordinateProofs --------------------------
(***************************************************************************)
(* In the first life of a policy the coordinates in a Schedule or a status *)
(* are real, and nothing is made for a spec that never could be acted on - *)
(* for any number of replicas.                                             *)
(***************************************************************************)
EXTENDS ObjectProofs

USE DEF butPolicy, butClaim, butAccess, butCredentials, butRepoSecret, butSchedule,
        butSnapshots

(***************************************************************************)
(* Coordinates.                                                            *)
(***************************************************************************)
(* A status publishes what is so. *)
Published(status) ==
  status.credentialsSecret =>
    UsableCredentials /\ status.bucket = BucketID(credentials.bucket)

(* A reconcile has its coordinates from the secret, and keeps them. *)
Concluded(c) ==
  /\ pc[c] \in AfterCredentials => verdict[c].status.credentialsSecret
  /\ pc[c] \in AfterCredentials \cup {"writeStatus"} => Published(verdict[c].status)

CoordinateInv ==
  FirstLife =>
    /\ schedule # None => UsableCredentials /\ schedule.bucket = credentials.bucket
    /\ Published(policy.status)
    /\ \A c \in Controllers : Concluded(c)

LEMMA CoordinateInit == Init => CoordinateInv
BY DEF Init, WorldInit, CoordinateInv, FirstLife, Live

(* Usable credentials stay, and stay the same bucket's: only a driver      *)
(* writes them, and its finalizer waits for an access that is going.       *)
LEMMA CredentialsStand ==
  ASSUME TypeInv, OwnerInv, [Next]_vars, FirstLife, UsableCredentials
  PROVE  UsableCredentials' /\ credentials'.bucket = credentials.bucket
<1>1. credentials \in Credentials
  BY TypeInvParts DEF UsableCredentials, WorldOK, WorldTypeOK, Optional
<1>2. CASE UNCHANGED credentials
  BY <1>2 DEF UsableCredentials
<1>3. CASE Rotate
  <2>1. credentials' \in Credentials
        /\ credentials'.bucket = credentials.bucket
        /\ credentials'.protocol = credentials.protocol
        /\ credentials'.missing = credentials.missing
    BY <1>1, <1>3 DEF Rotate, Credentials
  <2> QED
    BY <2>1, NoneAssumption DEF UsableCredentials
<1>4. ~Mint /\ ~FinalizeAccess
  BY DEF Mint, FinalizeAccess, UsableCredentials, OwnerInv
<1>5. CASE Environment /\ ~Rotate
  <2>1. UNCHANGED credentials
    BY <1>4, <1>5
    DEF Environment, User, CreatePolicy, EditSpec, DeletePolicy, RestoreSecret, Collect,
        CollectClaim, CollectAccess, CollectRepoSecret, CollectSchedule, FinishDeletion,
        COSI, Provision, RefuseClaim, FinalizeClaim, Grant, RefuseAccess, Backup
  <2> QED
    BY <1>2, <2>1
<1>6. ASSUME NEW c \in Controllers, Step(c) PROVE UNCHANGED credentials
  BY <1>6, StepObjects DEF ObjectFrame
<1> QED
  BY <1>2, <1>3, <1>5, <1>6 DEF Next, vars, world

LEMMA CoordinateCreate ==
  ASSUME TypeInv, RepositoryInv, CreatePolicy, incarnations = 0, UNCHANGED controller
  PROVE  CoordinateInv'
<1>1. schedule' = None
  BY DEF RepositoryInv, CreatePolicy
<1>2. policy'.status.credentialsSecret = FALSE
  <2>1. policy'.status = NoStatus
    BY DEF CreatePolicy
  <2>2. NoStatus.credentialsSecret = FALSE
    BY Zenon DEF NoStatus
  <2> QED
    BY <2>1, <2>2
<1>3. ASSUME NEW c \in Controllers PROVE pc'[c] = "idle"
  <2>1. pol[c] = None
    BY DEF RepositoryInv, Began
  <2> QED
    BY <2>1, TypeInvParts DEF ControlOK, UnderWay, controller
<1> QED
  BY <1>1, <1>2, <1>3 DEF CoordinateInv, Published, Concluded, AfterCredentials

LEMMA CoordinateEnvironment ==
  ASSUME TypeInv, RepositoryInv, OwnerInv, CoordinateInv, [Next]_vars,
         Environment, UNCHANGED controller
  PROVE  CoordinateInv'
<1> SUFFICES ASSUME FirstLife' PROVE CoordinateInv'
  BY DEF CoordinateInv
<1>1. CASE ~FirstLife
  BY <1>1, LifeStep, CoordinateCreate
<1>2. CASE FirstLife
  <2>1. policy # None /\ policy \in BackupPolicy /\ policy' # None
    BY <1>2, TypeInvParts DEF FirstLife, Live, WorldOK, WorldTypeOK, Optional
  <2>2. policy'.status = policy.status
    <3>1. ~CreatePolicy
      BY <2>1 DEF CreatePolicy
    <3>2. CASE EditSpec \/ DeletePolicy \/ FinishDeletion
      BY <2>1, <3>2 DEF EditSpec, DeletePolicy, FinishDeletion, BackupPolicy
    <3>3. CASE ~(EditSpec \/ DeletePolicy \/ FinishDeletion)
      BY <3>1, <3>3
      DEF Environment, User, RestoreSecret, Collect, CollectClaim, CollectAccess,
          CollectRepoSecret, CollectSchedule, COSI, Provision, RefuseClaim, FinalizeClaim,
          Mint, Grant, RefuseAccess, Rotate, FinalizeAccess, Backup
    <3> QED
      BY <3>2, <3>3
  <2>3. schedule' \in {schedule, None}
    BY DEF Environment, User, CreatePolicy, EditSpec, DeletePolicy, RestoreSecret, Collect,
           CollectClaim, CollectAccess, CollectRepoSecret, CollectSchedule, FinishDeletion,
           COSI, Provision, RefuseClaim, FinalizeClaim, Mint, Grant, RefuseAccess, Rotate,
           FinalizeAccess, Backup
  <2>4. UsableCredentials => UsableCredentials' /\ credentials'.bucket = credentials.bucket
    BY <1>2, CredentialsStand
  <2>5. \A c \in Controllers : pc'[c] = pc[c] /\ verdict'[c] = verdict[c]
    BY DEF controller
  <2> QED
    BY <1>2, <2>2, <2>3, <2>4, <2>5 DEF CoordinateInv, Published, Concluded
<1> QED
  BY <1>1, <1>2

(* What a replica concludes next. *)
LEMMA ConcludedStep ==
  ASSUME TypeInv, NEW c \in Controllers, Step(c), Concluded(c),
         UNCHANGED credentials
  PROVE  Concluded(c)'
<1> USE TypeInvParts DEF ControlOK
<1> DEFINE Kept == UNCHANGED <<pc[c], verdict[c]>>
           Left == pc'[c] = "idle"
           Before == pc'[c] \in {"applyClaim", "readClaim", "applyAccess", "readAccess",
                                 "readCredentials"}
           Untold == pc'[c] = "writeStatus" /\ verdict'[c].status.credentialsSecret = FALSE
           Onwards == /\ pc[c] \in AfterCredentials
                      /\ pc'[c] \in AfterCredentials \cup {"writeStatus"}
                      /\ verdict'[c].status.credentialsSecret
                           = verdict[c].status.credentialsSecret
                      /\ verdict'[c].status.bucket = verdict[c].status.bucket
           Told == /\ UsableCredentials
                   /\ verdict'[c].status = BucketStatus
                   /\ pc'[c] \in AfterCredentials
<1>1. CASE Kept \/ Left \/ Before
  BY <1>1 DEF Concluded, Published, AfterCredentials, UsableCredentials
<1>2. CASE Untold
  BY <1>2 DEF Concluded, Published, AfterCredentials
<1>3. CASE Onwards
  BY <1>3 DEF Concluded, Published, UsableCredentials
<1>4. CASE Told
  <2>1. BucketStatus.credentialsSecret /\ BucketStatus.bucket = BucketID(credentials.bucket)
    BY DEF BucketStatus, NoStatus
  <2>2. UsableCredentials'
    BY <1>4 DEF UsableCredentials
  <2> QED
    BY <1>4, <2>1, <2>2 DEF Concluded, Published
<1>5. LoseAnswer(c) \/ GiveUp(c) \/ Finish(c) => Left
  BY DEF LoseAnswer, GiveUp, Finish, Leave
<1>6. CASE StartGone(c) \/ StartRejected(c) \/ StartProvisioning(c)
  <2>1. StartGone(c) => Kept
    BY DEF StartGone
  <2>2. StartProvisioning(c) => Before
    BY DEF StartProvisioning, Start
  <2>3. ASSUME StartRejected(c) PROVE Untold
    <3>1. /\ pc'[c] = "writeStatus"
          /\ verdict'[c].status = [NoStatus EXCEPT !.phase = "Failed",
                                     !.message = Problems(seenPolicy[c].spec, Defaults)]
      BY <2>3 DEF StartRejected, Start, Conclude
    <3> QED
      BY <3>1 DEF NoStatus
  <2> QED
    BY <1>1, <1>2, <1>6, <2>1, <2>2, <2>3
<1>7. ASSUME NEW text, NEW state, NEW ref, NEW requeue,
             Conclude(c, Waiting(text, state, ref), requeue), GoTo(c, "writeStatus")
      PROVE  Untold
  <2>1. pc'[c] = "writeStatus"
    BY <1>7 DEF GoTo
  <2>2. verdict'[c].status = Waiting(text, state, ref)
    BY <1>7 DEF Conclude
  <2> QED
    BY <2>1, <2>2, WaitingStatus
<1>8. ASSUME NEW call \in {"readClaim", "applyAccess", "readAccess", "readCredentials"},
             GoTo(c, call)
      PROVE  Before
  BY <1>8 DEF GoTo
<1>9. CASE ApplyClaim(c) \/ ReadClaim(c) \/ ApplyAccess(c) \/ ReadAccess(c)
  <2> HIDE DEF Kept, Left, Before, Untold, Onwards, Told
  <2>1. Left \/ Before \/ Untold
    BY <1>5, <1>7, <1>8, <1>9 DEF ApplyClaim, ReadClaim, ApplyAccess, ReadAccess, Answer
  <2> QED
    BY <1>1, <1>2, <2>1
<1>10. CASE ReadCredentials(c)
  <2>1. ASSUME credentials # None, BucketFromSecretOK(credentials),
               Conclude(c, BucketStatus, ResyncInterval),
               GoTo(c, IF Resolved(c).mode = "BucketOnly" THEN "deleteSchedule"
                                                          ELSE "readRepoSecret")
        PROVE  Told
    <3>1. UsableCredentials
      BY <2>1, TypeInvParts
      DEF UsableCredentials, BucketFromSecretOK, RequiredKeys, SecretKeys, Credentials,
          WorldOK, WorldTypeOK, Optional
    <3>2. pc'[c] \in {"deleteSchedule", "readRepoSecret"}
      BY <2>1 DEF GoTo
    <3>3. verdict'[c].status = BucketStatus
      BY <2>1 DEF Conclude
    <3> QED
      BY <3>1, <3>2, <3>3 DEF AfterCredentials
  <2> HIDE DEF Kept, Left, Before, Untold, Onwards, Told
  <2>2. Left \/ Untold \/ Told
    BY <1>5, <1>7, <1>10, <2>1 DEF ReadCredentials
  <2> QED
    BY <1>1, <1>2, <1>4, <2>2
<1>11. CASE DeleteSchedule(c) \/ ReadRepoSecret(c) \/ CreateRepoSecret(c) \/ ApplySchedule(c)
  <2>1. ASSUME pc[c] \in AfterCredentials,
               NEW call \in {"writeStatus", "createRepoSecret", "applySchedule"},
               GoTo(c, call), UNCHANGED verdict
        PROVE  Onwards
    BY <2>1 DEF GoTo, AfterCredentials
  <2>2. ASSUME pc[c] = "applySchedule", GoTo(c, "writeStatus"),
               verdict' = [verdict EXCEPT ![c].status.schedule = Resolved(c).schedules["backup"]]
        PROVE  Onwards
    <3>1. pc'[c] = "writeStatus"
      BY <2>2 DEF GoTo
    <3>2. /\ verdict'[c].status.credentialsSecret = verdict[c].status.credentialsSecret
          /\ verdict'[c].status.bucket = verdict[c].status.bucket
      BY <2>2 DEF Verdict, BackupPolicyStatus
    <3> QED
      BY <2>2, <3>1, <3>2 DEF AfterCredentials
  <2>3. pc[c] \in AfterCredentials
    BY <1>11 DEF DeleteSchedule, ReadRepoSecret, CreateRepoSecret, ApplySchedule, AfterCredentials
  <2> HIDE DEF Kept, Left, Before, Untold, Onwards, Told
  <2>4. Left \/ Onwards
    BY <1>5, <1>11, <2>1, <2>2, <2>3
    DEF DeleteSchedule, ReadRepoSecret, CreateRepoSecret, ApplySchedule, Answer
  <2> QED
    BY <1>1, <1>3, <2>4
<1>12. CASE KeepStatus(c) \/ WriteStatus(c) \/ CallFails(c)
  BY <1>1, <1>5, <1>12 DEF KeepStatus, WriteStatus, CallFails
<1>13. CASE SyncPolicy(c) \/ SyncOwned(c) \/ TimerFires(c) \/ OtherEvent(c)
  <2>1. Kept
    BY <1>13
    DEF SyncPolicy, SyncOwned, SyncClaim, SyncAccess, SyncRepo, TimerFires, OtherEvent, Wake
  <2> QED
    BY <1>1, <2>1
<1>14. CASE Restart(c)
  BY <1>1, <1>14 DEF Restart
<1> QED
  BY <1>6, <1>9, <1>10, <1>11, <1>12, <1>13, <1>14 DEF Step, Reconcile

LEMMA CoordinateReplica ==
  ASSUME TypeInv, OwnerInv, CoordinateInv, NEW c \in Controllers, Step(c)
  PROVE  CoordinateInv'
<1> SUFFICES ASSUME FirstLife' PROVE CoordinateInv'
  BY DEF CoordinateInv
<1>1. ObjectFrame(c)
  BY StepObjects
<1>2. FirstLife
  <2>1. [Next]_vars
    BY DEF Next
  <2>2. incarnations' = incarnations /\ incarnations \in Nat
    BY <1>1, TypeInvParts DEF ObjectFrame, WorldOK, WorldTypeOK
  <2> QED
    BY <2>1, <2>2, LifeStep DEF CreatePolicy
<1>3. UNCHANGED credentials
  BY <1>1 DEF ObjectFrame
<1>4. ASSUME schedule' # None
      PROVE  UsableCredentials' /\ schedule'.bucket = credentials'.bucket
  <2>1. CASE schedule' = schedule
    BY <1>2, <1>3, <1>4, <2>1 DEF CoordinateInv, UsableCredentials
  <2>2. CASE schedule' # schedule
    <3>1. /\ pc[c] = "applySchedule"
          /\ schedule'.bucket = verdict[c].status.bucket.bucket
      BY <1>1, <1>4, <2>2 DEF ObjectFrame
    <3>2. UsableCredentials /\ verdict[c].status.bucket = BucketID(credentials.bucket)
      BY <1>2, <3>1 DEF CoordinateInv, Concluded, Published, AfterCredentials
    <3> QED
      BY <1>3, <3>1, <3>2 DEF BucketID, UsableCredentials
  <2> QED
    BY <2>1, <2>2
<1>5. Published(policy.status)'
  <2>1. CASE policy' = policy
    BY <1>2, <1>3, <2>1 DEF CoordinateInv, Published, UsableCredentials
  <2>2. CASE policy' # policy
    <3>1. policy \in BackupPolicy
      BY <1>2, TypeInvParts DEF FirstLife, Live, WorldOK, WorldTypeOK, Optional
    <3>2. pc[c] = "writeStatus" /\ policy'.status = Want(c)
      BY <2>2, <3>1, OnlyWriteStatus DEF BackupPolicy
    <3>3. /\ policy'.status.credentialsSecret = verdict[c].status.credentialsSecret
          /\ policy'.status.bucket = verdict[c].status.bucket
      <4>1. verdict[c].status \in BackupPolicyStatus
        BY TypeInvParts DEF ControlOK, Verdict
      <4> QED
        BY <3>2, <4>1 DEF Want, BackupPolicyStatus
    <3>4. Published(verdict[c].status)
      BY <1>2, <3>2 DEF CoordinateInv, Concluded
    <3> QED
      BY <1>3, <3>3, <3>4 DEF Published, UsableCredentials
  <2> QED
    BY <2>1, <2>2
<1>6. Concluded(c)'
  BY <1>2, <1>3, ConcludedStep DEF CoordinateInv
<1>7. ASSUME NEW d \in Controllers, d # c PROVE Concluded(d)'
  <2>1. pc'[d] = pc[d] /\ verdict'[d] = verdict[d]
    BY <1>7, OthersStay
  <2> QED
    BY <1>2, <1>3, <2>1 DEF CoordinateInv, Concluded, Published, UsableCredentials
<1> QED
  BY <1>4, <1>5, <1>6, <1>7 DEF CoordinateInv

LEMMA CoordinateStep ==
  TypeInv /\ RepositoryInv /\ OwnerInv /\ CoordinateInv /\ [Next]_vars => CoordinateInv'
<1> SUFFICES ASSUME TypeInv, RepositoryInv, OwnerInv, CoordinateInv, [Next]_vars
             PROVE  CoordinateInv'
  OBVIOUS
<1>1. CASE UNCHANGED vars
  BY <1>1
  DEF vars, world, controller, CoordinateInv, FirstLife, Live, Published, Concluded,
      UsableCredentials
<1> QED
  BY <1>1, CoordinateEnvironment, CoordinateReplica DEF Next

LEMMA ProvisionedCoordinates == ProvisionedInit => CoordinateInv
<1> SUFFICES ASSUME ProvisionedInit PROVE CoordinateInv
  OBVIOUS
<1>1. schedule = None /\ ~policy.status.credentialsSecret
  BY ProvisionedPolicy DEF ProvisionedInit
<1>2. \A d \in Controllers : pc[d] = "idle"
  BY DEF ProvisionedInit
<1> QED
  BY <1>1, <1>2 DEF CoordinateInv, Published, Concluded, AfterCredentials

LEMMA CoordinateInvariance == Spec \/ ProvisionedSpec => []CoordinateInv
<1>1. Init \/ ProvisionedInit => CoordinateInv
  BY CoordinateInit, ProvisionedCoordinates
<1>2. TypeInv /\ RepositoryInv /\ OwnerInv /\ CoordinateInv /\ [Next]_vars => CoordinateInv'
  BY CoordinateStep
<1> QED
  BY <1>1, <1>2, Invariance, PTL DEF Spec, ProvisionedSpec

(* In the first life of a policy no Schedule runs against credentials that *)
(* do not exist, that k8up cannot use or that are another bucket's, and no *)
(* status publishes such coordinates, although all a replica has of the    *)
(* secret when it writes them is what it read calls ago (desiredPhase).    *)
THEOREM CoordinatesAreAlwaysReal == Spec \/ ProvisionedSpec => []CoordinatesAreReal
<1>1. CoordinateInv => CoordinatesAreReal
  BY DEF CoordinateInv, CoordinatesAreReal, Published
<1> QED
  BY <1>1, CoordinateInvariance, PTL

(***************************************************************************)
(* A spec that never could be acted on.                                    *)
(***************************************************************************)
Nothing == claim = None /\ access = None /\ credentials = None /\ schedule = None

RejectedInv ==
  FirstLife /\ policy.generation = 1 /\ ~Actionable(policy.spec, Defaults) => Nothing

LEMMA RejectedInit == Init => RejectedInv
BY DEF Init, WorldInit, RejectedInv, FirstLife, Live

LEMMA RejectedEnvironment ==
  ASSUME TypeInv, RepositoryInv, StatusInv, OwnerInv, RejectedInv, [Next]_vars,
         Environment, UNCHANGED controller
  PROVE  RejectedInv'
<1> SUFFICES ASSUME FirstLife', policy'.generation = 1, ~Actionable(policy'.spec, Defaults)
             PROVE  Nothing'
  BY DEF RejectedInv
<1>1. CASE ~FirstLife
  <2>1. CreatePolicy /\ incarnations = 0
    BY <1>1, LifeStep
  <2> QED
    BY <2>1 DEF CreatePolicy, OwnerInv, Owned, RepositoryInv, Nothing
<1>2. CASE FirstLife
  <2>1. /\ policy # None /\ policy \in BackupPolicy /\ policy' # None
        /\ policy.generation \in Nat /\ policy.generation >= 1
    BY <1>2, TypeInvParts
    DEF FirstLife, Live, WorldOK, WorldTypeOK, Optional, BackupPolicy, StatusInv
  <2>2. CASE EditSpec
    <3>1. policy'.generation = policy.generation + 1
      BY <2>1, <2>2 DEF EditSpec, BackupPolicy
    <3> QED
      BY <2>1, <3>1
  <2>3. CASE DeletePolicy \/ FinishDeletion
    <3>1. ~FirstLife'
      BY <2>1, <2>3 DEF DeletePolicy, FinishDeletion, FirstLife, Live, BackupPolicy
    <3> QED
      BY <3>1
  <2>4. CASE ~(EditSpec \/ DeletePolicy \/ FinishDeletion)
    <3>1. ~CreatePolicy
      BY <2>1 DEF CreatePolicy
    <3>2. UNCHANGED policy
      BY <2>4, <3>1
      DEF Environment, User, RestoreSecret, Collect, CollectClaim, CollectAccess,
          CollectRepoSecret, CollectSchedule, COSI, Provision, RefuseClaim, FinalizeClaim,
          Mint, Grant, RefuseAccess, Rotate, FinalizeAccess, Backup
    <3>3. Nothing
      BY <1>2, <3>2 DEF RejectedInv
    <3> QED
      BY <2>4, <3>1, <3>3
      DEF Nothing, Environment, User, RestoreSecret, Collect, CollectClaim, CollectAccess,
          CollectRepoSecret, CollectSchedule, COSI, Provision, RefuseClaim, FinalizeClaim,
          Mint, Grant, RefuseAccess, Rotate, FinalizeAccess, Backup
  <2> QED
    BY <2>2, <2>3, <2>4
<1> QED
  BY <1>1, <1>2

LEMMA RejectedReplica ==
  ASSUME TypeInv, VerdictInv, StatusInv, RejectedInv, NEW c \in Controllers, Step(c)
  PROVE  RejectedInv'
<1> SUFFICES ASSUME FirstLife', policy'.generation = 1, ~Actionable(policy'.spec, Defaults)
             PROVE  Nothing'
  BY DEF RejectedInv
<1>1. ObjectFrame(c) /\ Frame(c)
  BY StepObjects, ReconcileFrame, OtherFrame DEF Step
<1>2. FirstLife
  <2>1. [Next]_vars
    BY DEF Next
  <2>2. incarnations' = incarnations /\ incarnations \in Nat
    BY <1>1, TypeInvParts DEF ObjectFrame, WorldOK, WorldTypeOK
  <2> QED
    BY <2>1, <2>2, LifeStep DEF CreatePolicy
<1>3. policy \in BackupPolicy
  BY <1>2, TypeInvParts DEF FirstLife, Live, WorldOK, WorldTypeOK, Optional
<1>4. policy.generation = 1 /\ ~Actionable(policy.spec, Defaults)
  BY <1>3, <1>1 DEF Frame, BackupPolicy
<1>5. Nothing
  BY <1>2, <1>4 DEF RejectedInv
<1>6. pc[c] \in {"idle", "writeStatus"}
  <2>1. SUFFICES ASSUME pc[c] # "idle", pc[c] # "writeStatus" PROVE FALSE
    OBVIOUS
  <2>2. pol[c] # None /\ Actionable(pol[c].spec, Defaults)
    BY <2>1, TypeInvParts DEF ControlOK, UnderWay, VerdictInv, VerdictFits
  <2>3. pol[c].spec = policy.spec
    BY <1>2, <1>4, <2>2 DEF StatusInv, UpToDate
  <2> QED
    BY <1>4, <2>2, <2>3
<1> QED
  BY <1>1, <1>5, <1>6 DEF ObjectFrame, Nothing

LEMMA RejectedStep ==
  TypeInv /\ RepositoryInv /\ VerdictInv /\ StatusInv /\ OwnerInv /\ RejectedInv /\ [Next]_vars
    => RejectedInv'
<1> SUFFICES ASSUME TypeInv, RepositoryInv, VerdictInv, StatusInv, OwnerInv, RejectedInv,
                    [Next]_vars
             PROVE  RejectedInv'
  OBVIOUS
<1>1. CASE UNCHANGED vars
  BY <1>1 DEF vars, world, RejectedInv, FirstLife, Live, Nothing
<1> QED
  BY <1>1, RejectedEnvironment, RejectedReplica DEF Next

(* Nothing is provisioned for a spec that never named its classes or its   *)
(* time: no replica works from a copy of another spec (Resolve).           *)
THEOREM NothingIsMadeOfAGuess == Spec => []RejectedProvisionsNothing
<1>1. Init => RejectedInv
  BY RejectedInit
<1>2. /\ TypeInv /\ RepositoryInv /\ VerdictInv /\ StatusInv /\ OwnerInv /\ RejectedInv
      /\ [Next]_vars
      => RejectedInv'
  BY RejectedStep
<1>3. TypeInv /\ RejectedInv => RejectedProvisionsNothing
  <2> SUFFICES ASSUME TypeInv, RejectedInv, FirstLife, policy.generation = 1, ~SpecActionable
               PROVE  Nothing
    BY DEF RejectedProvisionsNothing, Nothing
  <2>1. policy.spec \in Specs
    BY TypeInvParts DEF FirstLife, Live, WorldOK, WorldTypeOK, Optional, BackupPolicy
  <2> QED
    BY <2>1, ActionableSpec DEF RejectedInv, SpecActionable, SpecConfig
<1> QED
  BY <1>1, <1>2, <1>3, Invariance, PTL DEF Spec

=============================================================================
