---------------------------- MODULE StatusProofs ----------------------------
(***************************************************************************)
(* A status tells the spec it claims to have observed, whatever copy of    *)
(* the policy it was computed from, for any number of replicas.            *)
(***************************************************************************)
EXTENDS RepositoryProofs

USE DEF butPolicy, butClaim, butAccess, butCredentials, butRepoSecret, butSchedule,
        butSnapshots

(***************************************************************************)
(* What a reconcile under way concluded fits the spec it works from.       *)
(***************************************************************************)
(* The status tells what becomes of the spec. *)
Tells(status, spec) ==
  /\ status.phase # ""
  /\ status.phase = "Failed" <=> ~Actionable(spec, Defaults)
  /\ status.schedule # "" =>
       /\ Config(spec, Defaults).mode = "Schedule"
       /\ status.schedule = Config(spec, Defaults).schedules["backup"]

VerdictFits(call, spec, status) ==
  /\ call \notin {"idle", "writeStatus"} => Actionable(spec, Defaults)
  /\ call \in AfterCredentials =>
       /\ status.phase = "Ready" /\ status.schedule = ""
       /\ call = "deleteSchedule" <=> Config(spec, Defaults).mode = "BucketOnly"
  /\ call = "writeStatus" => Tells(status, spec)

VerdictInv == \A c \in Controllers : VerdictFits(pc[c], pol[c].spec, verdict[c].status)

(* A copy is of the policy as it is or as it was before an edit. *)
UpToDate(p) ==
  p # None =>
    /\ p.generation \in 1..policy.generation
    /\ p.generation = policy.generation => p.spec = policy.spec

StatusInv ==
  FirstLife =>
    /\ policy.generation >= 1
    /\ policy.status.observedGeneration <= policy.generation
    /\ Observed => Tells(policy.status, policy.spec)
    /\ \A c \in Controllers : UpToDate(seenPolicy[c]) /\ UpToDate(pol[c])

(***************************************************************************)
(* The verdict.                                                            *)
(***************************************************************************)
(* A step of one replica is none of another's. *)
LEMMA OthersStay ==
  ASSUME TypeInv, NEW c \in Controllers, Step(c), NEW d \in Controllers, d # c
  PROVE  /\ UNCHANGED <<pc[d], pol[d], verdict[d]>>
         /\ UNCHANGED <<seenPolicy[d], seenClaim[d], seenAccess[d], seenRepo[d]>>
<1> USE TypeInvParts DEF ControlOK, CacheOK
<1>1. CASE StartGone(c) \/ StartRejected(c) \/ StartProvisioning(c)
  BY <1>1
  DEF StartGone, StartRejected, StartProvisioning, Start, Dequeue, Conclude, cache
<1>2. CASE ApplyClaim(c) \/ ApplyAccess(c)
  BY <1>2 DEF ApplyClaim, ApplyAccess, Answer, GoTo, GiveUp, LoseAnswer, Leave, cache
<1>3. CASE ReadClaim(c) \/ ReadAccess(c) \/ ReadCredentials(c)
  BY <1>3 DEF ReadClaim, ReadAccess, ReadCredentials, Conclude, GoTo, GiveUp, Leave, cache
<1>4. CASE DeleteSchedule(c) \/ ReadRepoSecret(c) \/ CreateRepoSecret(c) \/ ApplySchedule(c)
  BY <1>4
  DEF DeleteSchedule, ReadRepoSecret, CreateRepoSecret, ApplySchedule, Answer, GoTo, GiveUp,
      LoseAnswer, Leave, cache
<1>5. CASE KeepStatus(c) \/ WriteStatus(c) \/ CallFails(c)
  BY <1>5 DEF KeepStatus, WriteStatus, CallFails, Finish, GiveUp, LoseAnswer, Leave, cache
<1>6. CASE SyncPolicy(c) \/ SyncOwned(c) \/ TimerFires(c) \/ OtherEvent(c) \/ Restart(c)
  BY <1>6
  DEF SyncPolicy, SyncOwned, SyncClaim, SyncAccess, SyncRepo, TimerFires, OtherEvent,
      Restart, Wake, cache
<1> QED
  BY <1>1, <1>2, <1>3, <1>4, <1>5, <1>6 DEF Step, Reconcile

LEMMA WaitingStatus ==
  ASSUME NEW text, NEW state, NEW ref
  PROVE  /\ Waiting(text, state, ref).phase = "Pending"
         /\ Waiting(text, state, ref).schedule = ""
         /\ Waiting(text, state, ref).credentialsSecret = FALSE
BY DEF Waiting, NoStatus

LEMMA VerdictStart ==
  ASSUME TypeInv, NEW c \in Controllers, VerdictFits(pc[c], pol[c].spec, verdict[c].status),
         StartGone(c) \/ StartRejected(c) \/ StartProvisioning(c)
  PROVE  VerdictFits(pc[c], pol[c].spec, verdict[c].status)'
<1> USE TypeInvParts DEF ControlOK
<1>1. CASE StartGone(c)
  BY <1>1 DEF StartGone
<1>2. CASE StartRejected(c)
  <2>1. /\ pc'[c] = "writeStatus"
        /\ ~Actionable(pol'[c].spec, Defaults)
        /\ verdict'[c].status = [NoStatus EXCEPT !.phase = "Failed",
                                   !.message = Problems(seenPolicy[c].spec, Defaults)]
    BY <1>2 DEF StartRejected, Start, Conclude
  <2> QED
    BY <2>1 DEF VerdictFits, Tells, NoStatus, AfterCredentials
<1>3. CASE StartProvisioning(c)
  <2>1. pc'[c] = "applyClaim" /\ Actionable(pol'[c].spec, Defaults)
    BY <1>3 DEF StartProvisioning, Start
  <2> QED
    BY <2>1 DEF VerdictFits, AfterCredentials
<1> QED
  BY <1>1, <1>2, <1>3

(* How the reconcile's steps leave the verdict. *)
LEMMA VerdictLeave ==
  ASSUME TypeInv, NEW c \in Controllers,
         LoseAnswer(c) \/ GiveUp(c) \/ Finish(c)
  PROVE  VerdictFits(pc[c], pol[c].spec, verdict[c].status)'
<1>1. pc'[c] = "idle"
  BY TypeInvParts DEF ControlOK, LoseAnswer, GiveUp, Finish, Leave
<1> QED
  BY <1>1 DEF VerdictFits, AfterCredentials

LEMMA VerdictProvision ==
  ASSUME TypeInv, NEW c \in Controllers, VerdictFits(pc[c], pol[c].spec, verdict[c].status),
         ApplyClaim(c) \/ ReadClaim(c) \/ ApplyAccess(c) \/ ReadAccess(c)
  PROVE  VerdictFits(pc[c], pol[c].spec, verdict[c].status)'
<1> USE TypeInvParts DEF ControlOK
<1>1. Actionable(pol[c].spec, Defaults)
  BY DEF VerdictFits, ApplyClaim, ReadClaim, ApplyAccess, ReadAccess
<1>2. ASSUME NEW call \in {"readClaim", "applyAccess", "readAccess", "readCredentials"},
             GoTo(c, call)
      PROVE  VerdictFits(pc[c], pol[c].spec, verdict[c].status)'
  <2>1. pc'[c] = call /\ pol'[c] = pol[c]
    BY <1>2 DEF GoTo
  <2> QED
    BY <1>1, <1>2, <2>1 DEF VerdictFits, AfterCredentials
<1>3. ASSUME NEW text, NEW state, NEW ref, NEW requeue,
             Conclude(c, Waiting(text, state, ref), requeue), GoTo(c, "writeStatus")
      PROVE  VerdictFits(pc[c], pol[c].spec, verdict[c].status)'
  <2>1. pc'[c] = "writeStatus" /\ pol'[c] = pol[c]
    BY <1>3 DEF GoTo
  <2>2. verdict'[c].status = Waiting(text, state, ref)
    BY <1>3 DEF Conclude
  <2> QED
    BY <1>1, <2>1, <2>2, WaitingStatus DEF VerdictFits, Tells, AfterCredentials
<1> QED
  BY <1>2, <1>3, VerdictLeave DEF ApplyClaim, ReadClaim, ApplyAccess, ReadAccess, Answer

LEMMA VerdictCredentials ==
  ASSUME TypeInv, NEW c \in Controllers, VerdictFits(pc[c], pol[c].spec, verdict[c].status),
         ReadCredentials(c)
  PROVE  VerdictFits(pc[c], pol[c].spec, verdict[c].status)'
<1> USE TypeInvParts DEF ControlOK
<1>1. Actionable(pol[c].spec, Defaults)
  BY DEF VerdictFits, ReadCredentials
<1>2. ASSUME Conclude(c, Waiting("waiting for the bucket credentials", "waiting", UnsetBucket),
                      CredentialsRetry),
             GoTo(c, "writeStatus")
      PROVE  VerdictFits(pc[c], pol[c].spec, verdict[c].status)'
  <2>1. pc'[c] = "writeStatus" /\ pol'[c] = pol[c]
    BY <1>2 DEF GoTo
  <2>2. verdict'[c].status =
          Waiting("waiting for the bucket credentials", "waiting", UnsetBucket)
    BY <1>2 DEF Conclude
  <2> QED
    BY <1>1, <2>1, <2>2, WaitingStatus DEF VerdictFits, Tells, AfterCredentials
<1>3. ASSUME Conclude(c, BucketStatus, ResyncInterval),
             GoTo(c, IF Resolved(c).mode = "BucketOnly" THEN "deleteSchedule"
                                                        ELSE "readRepoSecret")
      PROVE  VerdictFits(pc[c], pol[c].spec, verdict[c].status)'
  <2>1. /\ pc'[c] = IF Config(pol[c].spec, Defaults).mode = "BucketOnly"
                    THEN "deleteSchedule" ELSE "readRepoSecret"
        /\ pol'[c] = pol[c]
    BY <1>3 DEF GoTo, Resolved
  <2>2. verdict'[c].status = BucketStatus
    BY <1>3 DEF Conclude
  <2>3. BucketStatus.phase = "Ready" /\ BucketStatus.schedule = ""
    BY DEF BucketStatus, NoStatus
  <2> QED
    BY <1>1, <2>1, <2>2, <2>3 DEF VerdictFits, AfterCredentials
<1> QED
  BY <1>2, <1>3, VerdictLeave DEF ReadCredentials

LEMMA VerdictSchedule ==
  ASSUME TypeInv, NEW c \in Controllers, VerdictFits(pc[c], pol[c].spec, verdict[c].status),
         DeleteSchedule(c) \/ ReadRepoSecret(c) \/ CreateRepoSecret(c) \/ ApplySchedule(c)
  PROVE  VerdictFits(pc[c], pol[c].spec, verdict[c].status)'
<1> USE TypeInvParts DEF ControlOK
<1>1. /\ Actionable(pol[c].spec, Defaults)
      /\ verdict[c].status.phase = "Ready" /\ verdict[c].status.schedule = ""
      /\ pc[c] = "deleteSchedule" <=> Config(pol[c].spec, Defaults).mode = "BucketOnly"
  BY DEF VerdictFits, AfterCredentials, DeleteSchedule, ReadRepoSecret, CreateRepoSecret,
         ApplySchedule
<1>2. ASSUME pc[c] = "deleteSchedule", GoTo(c, "writeStatus"), UNCHANGED verdict
      PROVE  VerdictFits(pc[c], pol[c].spec, verdict[c].status)'
  <2>1. pc'[c] = "writeStatus" /\ pol'[c] = pol[c]
    BY <1>2 DEF GoTo
  <2> QED
    BY <1>1, <1>2, <2>1 DEF VerdictFits, Tells, AfterCredentials
<1>3. ASSUME pc[c] # "deleteSchedule", NEW call \in {"createRepoSecret", "applySchedule"},
             GoTo(c, call), UNCHANGED verdict
      PROVE  VerdictFits(pc[c], pol[c].spec, verdict[c].status)'
  <2>1. pc'[c] = call /\ pol'[c] = pol[c]
    BY <1>3 DEF GoTo
  <2> QED
    BY <1>1, <1>3, <2>1 DEF VerdictFits, AfterCredentials
<1>4. ASSUME pc[c] = "applySchedule", GoTo(c, "writeStatus"),
             verdict' = [verdict EXCEPT ![c].status.schedule = Resolved(c).schedules["backup"]]
      PROVE  VerdictFits(pc[c], pol[c].spec, verdict[c].status)'
  <2>1. pc'[c] = "writeStatus" /\ pol'[c] = pol[c]
    BY <1>4 DEF GoTo
  <2>2. /\ verdict'[c].status.phase = "Ready"
        /\ verdict'[c].status.schedule = Config(pol[c].spec, Defaults).schedules["backup"]
    BY <1>1, <1>4 DEF Resolved, Verdict, BackupPolicyStatus
  <2>3. Config(pol[c].spec, Defaults).mode = "Schedule"
    BY <1>1, <1>4, PolType DEF Resolved, Modes
  <2> QED
    BY <1>1, <2>1, <2>2, <2>3 DEF VerdictFits, Tells, AfterCredentials
<1> QED
  BY <1>2, <1>3, <1>4, VerdictLeave
  DEF DeleteSchedule, ReadRepoSecret, CreateRepoSecret, ApplySchedule, Answer

LEMMA VerdictOther ==
  ASSUME TypeInv, NEW c \in Controllers, VerdictFits(pc[c], pol[c].spec, verdict[c].status),
         \/ KeepStatus(c) \/ WriteStatus(c) \/ CallFails(c)
         \/ SyncPolicy(c) \/ SyncOwned(c) \/ TimerFires(c) \/ OtherEvent(c) \/ Restart(c)
  PROVE  VerdictFits(pc[c], pol[c].spec, verdict[c].status)'
<1>1. CASE KeepStatus(c) \/ WriteStatus(c) \/ CallFails(c)
  BY <1>1, VerdictLeave DEF KeepStatus, WriteStatus, CallFails
<1>2. CASE SyncPolicy(c) \/ SyncOwned(c) \/ TimerFires(c) \/ OtherEvent(c)
  BY <1>2
  DEF SyncPolicy, SyncOwned, SyncClaim, SyncAccess, SyncRepo, TimerFires, OtherEvent, Wake
<1>3. CASE Restart(c)
  <2>1. pc'[c] = "idle"
    BY <1>3, TypeInvParts DEF ControlOK, Restart
  <2> QED
    BY <2>1 DEF VerdictFits, AfterCredentials
<1> QED
  BY <1>1, <1>2, <1>3

LEMMA VerdictInit == Init => VerdictInv
BY DEF Init, ControllerInit, VerdictInv, VerdictFits, AfterCredentials

LEMMA VerdictStep == TypeInv /\ VerdictInv /\ [Next]_vars => VerdictInv'
<1> SUFFICES ASSUME TypeInv, VerdictInv, [Next]_vars PROVE VerdictInv'
  OBVIOUS
<1>1. CASE UNCHANGED controller
  BY <1>1 DEF controller, VerdictInv
<1>2. ASSUME NEW c \in Controllers, Step(c) PROVE VerdictInv'
  <2>1. VerdictFits(pc[c], pol[c].spec, verdict[c].status)'
    BY <1>2, VerdictStart, VerdictProvision, VerdictCredentials, VerdictSchedule, VerdictOther
    DEF VerdictInv, Step, Reconcile
  <2>2. ASSUME NEW d \in Controllers, d # c
        PROVE  VerdictFits(pc[d], pol[d].spec, verdict[d].status)'
    BY <1>2, <2>2, OthersStay DEF VerdictInv
  <2> QED
    BY <2>1, <2>2 DEF VerdictInv
<1> QED
  BY <1>1, <1>2 DEF Next, vars

(***************************************************************************)
(* The status and the copies of the policy.                                *)
(***************************************************************************)
LEMMA StatusInit == Init => StatusInv
BY DEF Init, WorldInit, StatusInv, FirstLife, Live

(* The policy is as it was, its copies too. *)
LEMMA StatusKept ==
  ASSUME StatusInv, UNCHANGED <<policy, controller>>, FirstLife' => FirstLife
  PROVE  StatusInv'
<1>1. \A c \in Controllers : seenPolicy'[c] = seenPolicy[c] /\ pol'[c] = pol[c]
  BY DEF controller, cache
<1> QED
  BY <1>1 DEF StatusInv, Observed, UpToDate

LEMMA StatusCreate ==
  ASSUME TypeInv, RepositoryInv, CreatePolicy, UNCHANGED controller
  PROVE  StatusInv'
<1> SUFFICES ASSUME FirstLife' PROVE StatusInv'
  BY DEF StatusInv
<1>1. incarnations = 0
  BY TypeInvParts DEF CreatePolicy, FirstLife, WorldOK, WorldTypeOK
<1>2. \A c \in Controllers : seenPolicy[c] = None /\ pol[c] = None
  BY <1>1 DEF RepositoryInv, Began
<1>3. policy'.generation = 1 /\ policy'.status.observedGeneration = 0
  <2>1. policy'.generation = 1 /\ policy'.status = NoStatus
    BY DEF CreatePolicy
  <2>2. NoStatus.observedGeneration = 0
    BY Zenon DEF NoStatus
  <2> QED
    BY <2>1, <2>2
<1> QED
  BY <1>2, <1>3 DEF StatusInv, Observed, UpToDate, controller, cache

LEMMA StatusEdit ==
  ASSUME TypeInv, StatusInv, EditSpec, UNCHANGED controller
  PROVE  StatusInv'
<1>1. policy \in BackupPolicy
  BY TypeInvParts DEF EditSpec, WorldOK, WorldTypeOK, Optional
<1>2. policy.generation \in Nat /\ policy.status.observedGeneration \in Nat
  BY <1>1 DEF BackupPolicy, BackupPolicyStatus
<1>3. /\ policy'.generation = policy.generation + 1
      /\ policy'.status = policy.status
      /\ policy'.deleting = policy.deleting
  BY <1>1 DEF EditSpec, BackupPolicy
<1>4. FirstLife' => FirstLife
  BY <1>3 DEF EditSpec, FirstLife, Live
<1>5. ASSUME NEW p, p # None => p.generation \in 1..policy.generation
      PROVE  p # None => /\ p.generation \in 1..policy'.generation
                         /\ p.generation # policy'.generation
  BY <1>2, <1>3, <1>5
<1> SUFFICES ASSUME FirstLife' PROVE StatusInv'
  BY DEF StatusInv
<1>6. /\ policy.generation >= 1
      /\ policy.status.observedGeneration <= policy.generation
      /\ \A c \in Controllers : UpToDate(seenPolicy[c]) /\ UpToDate(pol[c])
  BY <1>4 DEF StatusInv
<1>7. /\ policy'.generation >= 1
      /\ policy'.status.observedGeneration <= policy'.generation
      /\ policy'.status.observedGeneration # policy'.generation
  BY <1>2, <1>3, <1>6
<1>8. \A c \in Controllers : UpToDate(seenPolicy[c])' /\ UpToDate(pol[c])'
  BY <1>5, <1>6 DEF UpToDate, controller, cache
<1> QED
  BY <1>7, <1>8 DEF StatusInv, Observed

LEMMA StatusEnvironment ==
  ASSUME TypeInv, RepositoryInv, StatusInv, Environment, UNCHANGED controller
  PROVE  StatusInv'
<1>1. CASE CreatePolicy
  BY <1>1, StatusCreate
<1>2. CASE EditSpec
  BY <1>2, StatusEdit
<1>3. CASE DeletePolicy
  <2>1. ~FirstLife'
    BY <1>3, TypeInvParts
    DEF DeletePolicy, FirstLife, Live, BackupPolicy, WorldOK, WorldTypeOK, Optional
  <2> QED
    BY <2>1 DEF StatusInv
<1>4. CASE FinishDeletion
  <2>1. ~FirstLife'
    BY <1>4 DEF FinishDeletion, FirstLife, Live
  <2> QED
    BY <2>1 DEF StatusInv
<1>5. CASE RestoreSecret \/ CollectClaim \/ CollectAccess \/ CollectRepoSecret \/ CollectSchedule
           \/ COSI \/ Backup
  <2>1. UNCHANGED <<policy, incarnations>>
    BY <1>5
    DEF RestoreSecret, CollectClaim, CollectAccess, CollectRepoSecret, CollectSchedule,
        COSI, Provision, RefuseClaim, FinalizeClaim, Mint, Grant, RefuseAccess, Rotate,
        FinalizeAccess, Backup
  <2> QED
    BY <2>1, StatusKept DEF FirstLife, Live
<1> QED
  BY <1>1, <1>2, <1>3, <1>4, <1>5 DEF Environment, User, Collect

(* A status is only written as the verdict on the copy at work. *)
LEMMA OnlyWriteStatus ==
  ASSUME NEW c \in Controllers, Step(c), policy' # policy
  PROVE  /\ pc[c] = "writeStatus"
         /\ policy # None
         /\ policy' = [policy EXCEPT !.status = Want(c)]
<1>1. CASE WriteStatus(c)
  BY <1>1 DEF WriteStatus
<1>2. CASE ~WriteStatus(c)
  BY <1>2
  DEF Step, Reconcile, StartGone, StartRejected, StartProvisioning, Start, Dequeue,
      ApplyClaim, ReadClaim, ApplyAccess, ReadAccess, ReadCredentials, DeleteSchedule,
      ReadRepoSecret, CreateRepoSecret, ApplySchedule, KeepStatus, CallFails, SyncPolicy,
      SyncOwned, SyncClaim, SyncAccess, SyncRepo, TimerFires, OtherEvent, Restart, world
<1> QED
  BY <1>1, <1>2

LEMMA StatusStepOf ==
  ASSUME TypeInv, RepositoryInv, VerdictInv, StatusInv, NEW c \in Controllers, Step(c)
  PROVE  StatusInv'
<1>1. policy # None => policy \in BackupPolicy
  BY TypeInvParts DEF WorldOK, WorldTypeOK, Optional
<1>2. Frame(c)
  BY ReconcileFrame, OtherFrame DEF Step
<1>3. /\ policy' # None <=> policy # None
      /\ policy # None => /\ policy'.deleting = policy.deleting
                          /\ policy'.generation = policy.generation
                          /\ policy'.spec = policy.spec
  BY <1>1, <1>2, NoneAssumption DEF Frame, BackupPolicy
<1> SUFFICES ASSUME FirstLife' PROVE StatusInv'
  BY DEF StatusInv
<1>4. FirstLife
  BY <1>2, <1>3 DEF Frame, FirstLife, Live
<1>5. policy \in BackupPolicy /\ policy.generation \in Nat /\ policy.generation >= 1
  BY <1>1, <1>4 DEF FirstLife, Live, BackupPolicy, StatusInv
<1>6. \A d \in Controllers : UpToDate(seenPolicy[d])' /\ UpToDate(pol[d])'
  <2>1. UpToDate(policy) /\ UpToDate(None)
    BY <1>5 DEF UpToDate
  <2>2. \A d \in Controllers : UpToDate(seenPolicy'[d]) /\ UpToDate(pol'[d])
    BY <1>2, <1>4, <2>1 DEF Frame, StatusInv
  <2>3. ASSUME NEW p \in {seenPolicy'[d] : d \in Controllers} \cup {pol'[d] : d \in Controllers},
               UpToDate(p), p # policy
        PROVE  /\ p # None => p.generation \in 1..policy'.generation
               /\ p # None /\ p.generation = policy'.generation => p.spec = policy'.spec
    BY <1>3, <1>4, <2>3 DEF UpToDate, FirstLife, Live
  <2> QED
    BY <1>3, <1>4, <1>5, <2>2 DEF UpToDate, FirstLife, Live
<1>7. CASE policy' = policy
  BY <1>4, <1>6, <1>7 DEF StatusInv, Observed
<1>8. CASE policy' # policy
  <2>1. /\ pc[c] = "writeStatus"
        /\ policy'.status = Want(c)
    BY <1>5, <1>8, OnlyWriteStatus DEF BackupPolicy
  <2>2. /\ pol[c] # None
        /\ verdict[c].status \in BackupPolicyStatus
    BY <2>1, TypeInvParts DEF ControlOK, UnderWay, Verdict
  <2>3. UpToDate(pol[c]) /\ Tells(verdict[c].status, pol[c].spec)
    BY <1>4, <2>1 DEF StatusInv, VerdictInv, VerdictFits
  <2>4. /\ policy'.status.observedGeneration = pol[c].generation
        /\ Tells(policy'.status, pol[c].spec)
    BY <2>1, <2>2, <2>3 DEF Want, Tells, BackupPolicyStatus
  <2>5. /\ pol[c].generation <= policy.generation
        /\ pol[c].generation = policy.generation => pol[c].spec = policy.spec
    BY <1>5, <2>2, <2>3 DEF UpToDate
  <2> QED
    BY <1>3, <1>4, <1>5, <1>6, <2>4, <2>5 DEF StatusInv, Observed, FirstLife, Live
<1> QED
  BY <1>7, <1>8

LEMMA StatusStep ==
  TypeInv /\ RepositoryInv /\ VerdictInv /\ StatusInv /\ [Next]_vars => StatusInv'
<1> SUFFICES ASSUME TypeInv, RepositoryInv, VerdictInv, StatusInv, [Next]_vars
             PROVE  StatusInv'
  OBVIOUS
<1>1. CASE Environment /\ UNCHANGED controller
  BY <1>1, StatusEnvironment
<1>2. ASSUME NEW c \in Controllers, Step(c) PROVE StatusInv'
  BY <1>2, StatusStepOf
<1>3. CASE UNCHANGED vars
  BY <1>3, StatusKept DEF vars, world, FirstLife, Live
<1> QED
  BY <1>1, <1>2, <1>3 DEF Next

(* The requirement in the words of the model. *)
LEMMA ActionableSpec ==
  ASSUME NEW spec \in Specs
  PROVE  Actionable(spec, Defaults) <=>
           LET cfg == Config(spec, Defaults) IN
             /\ cfg.bucketClass # ""
             /\ cfg.accessClass # ""
             /\ cfg.mode = "BucketOnly" \/ cfg.schedules["backup"] # ""
BY ConfigType DEF Actionable, Problems, ProblemTexts, Modes

LEMMA StatusIsTold == TypeInv /\ StatusInv => StatusTellsTheSpecInFirstLife
<1> SUFFICES ASSUME TypeInv, StatusInv, FirstLife, Observed
             PROVE  Tells(policy.status, policy.spec) /\ policy.spec \in Specs
  BY ActionableSpec
  DEF StatusTellsTheSpecInFirstLife, StatusTellsTheSpec, Tells, SpecActionable, SpecConfig
<1> QED
  BY TypeInvParts
  DEF StatusInv, WorldOK, WorldTypeOK, Optional, FirstLife, Live, BackupPolicy

LEMMA ProvisionedStatus == ProvisionedInit => VerdictInv /\ StatusInv
<1> SUFFICES ASSUME ProvisionedInit PROVE VerdictInv /\ StatusInv
  OBVIOUS
<1>1. VerdictInv
  BY DEF ProvisionedInit, VerdictInv, VerdictFits, AfterCredentials
<1>2. /\ policy.generation = 1 /\ policy.status.observedGeneration = 1
      /\ policy.status.phase = "Pending" /\ policy.status.schedule = ""
      /\ Actionable(policy.spec, Defaults)
      /\ \A c \in Controllers : seenPolicy[c] = policy /\ pol[c] = None
  BY ProvisionedPolicy DEF ProvisionedInit
<1> HIDE DEF ProvisionedInit
<1>3. Tells(policy.status, policy.spec)
  BY <1>2 DEF Tells
<1>4. UpToDate(policy)
  <2>1. \A g : g = 1 => g \in 1..g
    OBVIOUS
  <2>2. policy.generation \in 1..policy.generation
    BY <1>2, <2>1
  <2> QED
    BY <2>2 DEF UpToDate
<1>5. UpToDate(None)
  BY DEF UpToDate
<1>6. \A c \in Controllers : UpToDate(seenPolicy[c]) /\ UpToDate(pol[c])
  BY <1>2, <1>4, <1>5
<1>7. policy.generation >= 1 /\ policy.status.observedGeneration <= policy.generation
  <2>1. \A g, h : g = 1 /\ h = 1 => g >= 1 /\ h <= g
    OBVIOUS
  <2> QED
    BY <1>2, <2>1
<1>8. StatusInv
  BY <1>3, <1>6, <1>7 DEF StatusInv
<1> QED
  BY <1>1, <1>8

LEMMA StatusInvariance == Spec \/ ProvisionedSpec => [](VerdictInv /\ StatusInv)
<1>1. Init \/ ProvisionedInit => VerdictInv /\ StatusInv
  BY VerdictInit, StatusInit, ProvisionedStatus
<1>2. TypeInv /\ RepositoryInv /\ VerdictInv /\ StatusInv /\ [Next]_vars
        => VerdictInv' /\ StatusInv'
  BY VerdictStep, StatusStep
<1> QED
  BY <1>1, <1>2, TypesAreInductive, SecretsAreInductive, PTL DEF Spec, ProvisionedSpec

(* In the first life of a policy, a status that claims the generation of   *)
(* the policy tells its spec - however stale the copies were that it was   *)
(* computed from and compared with, and however many replicas write it.    *)
THEOREM StatusTellsTheTruth == Spec \/ ProvisionedSpec => []StatusTellsTheSpecInFirstLife
<1>1. TypeInv /\ StatusInv => StatusTellsTheSpecInFirstLife
  BY StatusIsTold
<1> QED
  BY <1>1, StatusInvariance, TypesAreInductive, PTL

(***************************************************************************)
(* A name too long to be the value of a label: what the long_name run      *)
(* shows of one such name, for all of them.                                *)
(***************************************************************************)
(* Nothing is made for the policy, and a spec that can be acted on gets no *)
(* answer, not even that it failed.                                        *)
NeverServed ==
  /\ claim = None /\ access = None /\ credentials = None /\ schedule = None
  /\ \A b \in Buckets : snapshots[b] = None
  /\ FirstLife /\ SpecActionable => ~Observed

(* Every reconcile ends at the claim, unless the spec is rejected. *)
UnservedInv ==
  /\ claim = None /\ access = None /\ credentials = None /\ schedule = None
  /\ \A b \in Buckets : snapshots[b] = None
  /\ policy # None => policy.status.phase \in {"", "Failed"}
  /\ \A c \in Controllers :
       /\ pc[c] \in {"idle", "applyClaim", "writeStatus"}
       /\ pc[c] = "writeStatus" => verdict[c].status.phase = "Failed"

LEMMA UnservedInit == Init => UnservedInv
BY DEF Init, WorldInit, ControllerInit, UnservedInv

LEMMA UnservedEnvironment ==
  ASSUME TypeInv, UnservedInv, Environment, UNCHANGED controller
  PROVE  UnservedInv'
<1>1. \A c \in Controllers : UNCHANGED <<pc[c], verdict[c]>>
  BY DEF controller
<1>2. UNCHANGED <<claim, access, credentials, schedule, snapshots>>
  BY DEF UnservedInv, Environment, User, CreatePolicy, EditSpec, DeletePolicy, RestoreSecret,
         Collect, CollectClaim, CollectAccess, CollectRepoSecret, CollectSchedule,
         FinishDeletion, COSI, Provision, RefuseClaim, FinalizeClaim, ClaimReady, Mint, Grant,
         RefuseAccess, Rotate, FinalizeAccess, Backup
<1>3. policy' # None => policy'.status.phase \in {"", "Failed"}
  <2>1. policy # None => policy \in BackupPolicy /\ policy.status.phase \in {"", "Failed"}
    BY TypeInvParts DEF WorldOK, WorldTypeOK, Optional, UnservedInv
  <2>2. CASE CreatePolicy
    <3>1. policy'.status = NoStatus
      BY <2>2 DEF CreatePolicy
    <3>2. NoStatus.phase = ""
      BY DEF NoStatus
    <3> QED
      BY <3>1, <3>2
  <2>3. CASE EditSpec \/ DeletePolicy
    BY <2>1, <2>3 DEF EditSpec, DeletePolicy, BackupPolicy
  <2>4. CASE policy' \in {policy, None}
    BY <2>1, <2>4
  <2> QED
    BY <2>2, <2>3, <2>4
    DEF Environment, User, RestoreSecret, Collect, CollectClaim, CollectAccess,
        CollectRepoSecret, CollectSchedule, FinishDeletion, COSI, Provision, RefuseClaim,
        FinalizeClaim, Mint, Grant, RefuseAccess, Rotate, FinalizeAccess, Backup
<1> QED
  BY <1>1, <1>2, <1>3 DEF UnservedInv

LEMMA UnservedReplica ==
  ASSUME ~LabelAdmitted(PolicyName), TypeInv, UnservedInv, NEW c \in Controllers, Step(c)
  PROVE  UnservedInv'
<1> USE TypeInvParts DEF ControlOK
<1>1. /\ pc[c] \in {"idle", "applyClaim", "writeStatus"}
      /\ pc[c] = "writeStatus" => verdict[c].status.phase = "Failed"
  BY DEF UnservedInv
<1> DEFINE Mine == /\ pc'[c] \in {"idle", "applyClaim", "writeStatus"}
                   /\ pc'[c] = "writeStatus" => verdict'[c].status.phase = "Failed"
<1>0. ASSUME Mine
      PROVE  \A d \in Controllers :
               /\ pc'[d] \in {"idle", "applyClaim", "writeStatus"}
               /\ pc'[d] = "writeStatus" => verdict'[d].status.phase = "Failed"
  <2>1. ASSUME NEW d \in Controllers, d # c
        PROVE  /\ pc'[d] \in {"idle", "applyClaim", "writeStatus"}
               /\ pc'[d] = "writeStatus" => verdict'[d].status.phase = "Failed"
    <3>1. UNCHANGED <<pc[d], verdict[d]>>
      BY <2>1, OthersStay
    <3> QED
      BY <3>1 DEF UnservedInv
  <2> QED
    BY <1>0, <2>1
<1>2. ASSUME LoseAnswer(c) \/ GiveUp(c) \/ Finish(c) PROVE Mine
  BY <1>2 DEF LoseAnswer, GiveUp, Finish, Leave
<1>3. CASE StartGone(c) \/ StartRejected(c) \/ StartProvisioning(c)
  <2>1. UNCHANGED world
    BY <1>3 DEF StartGone, StartRejected, StartProvisioning, Start, Dequeue
  <2>2. Mine
    <3>1. CASE StartGone(c)
      BY <1>1, <3>1 DEF StartGone
    <3>2. CASE StartRejected(c)
      <4>1. /\ pc'[c] = "writeStatus"
            /\ verdict'[c].status = [NoStatus EXCEPT !.phase = "Failed",
                                       !.message = Problems(seenPolicy[c].spec, Defaults)]
        BY <3>2 DEF StartRejected, Start, Conclude
      <4> QED
        BY <4>1 DEF NoStatus
    <3>3. CASE StartProvisioning(c)
      BY <3>3 DEF StartProvisioning, Start
    <3> QED
      BY <1>3, <3>1, <3>2, <3>3
  <2> QED
    BY <1>0, <2>1, <2>2 DEF UnservedInv, world
<1>4. CASE ApplyClaim(c)
  <2>1. UNCHANGED <<world, cache>> /\ GiveUp(c)
    BY <1>4 DEF ApplyClaim, world
  <2> QED
    BY <1>0, <1>2, <2>1 DEF UnservedInv, world
<1>5. CASE KeepStatus(c) \/ WriteStatus(c) \/ CallFails(c)
  <2>1. Mine /\ UNCHANGED <<claim, access, credentials, schedule, snapshots>>
    BY <1>2, <1>5 DEF KeepStatus, WriteStatus, CallFails, world
  <2>2. policy' # None => policy'.status.phase \in {"", "Failed"}
    <3>1. policy # None => policy \in BackupPolicy /\ policy.status.phase \in {"", "Failed"}
      BY DEF WorldOK, WorldTypeOK, Optional, UnservedInv
    <3>2. CASE policy' = policy
      BY <3>1, <3>2
    <3>3. CASE policy' # policy
      <4>1. pc[c] = "writeStatus" /\ policy # None /\ policy' = [policy EXCEPT !.status = Want(c)]
        BY <3>3, OnlyWriteStatus
      <4>2. Want(c).phase = "Failed"
        BY <1>1, <4>1 DEF Want, Verdict, BackupPolicyStatus
      <4> QED
        BY <3>1, <4>1, <4>2 DEF BackupPolicy
    <3> QED
      BY <3>2, <3>3
  <2> QED
    BY <1>0, <2>1, <2>2 DEF UnservedInv
<1>6. CASE SyncPolicy(c) \/ SyncOwned(c) \/ TimerFires(c) \/ OtherEvent(c) \/ Restart(c)
  <2>1. UNCHANGED world /\ Mine
    BY <1>1, <1>6
    DEF SyncPolicy, SyncOwned, SyncClaim, SyncAccess, SyncRepo, TimerFires, OtherEvent, Wake,
        Restart
  <2> QED
    BY <1>0, <2>1 DEF UnservedInv, world
<1>7. ~(\/ ReadClaim(c) \/ ApplyAccess(c) \/ ReadAccess(c) \/ ReadCredentials(c)
        \/ DeleteSchedule(c) \/ ReadRepoSecret(c) \/ CreateRepoSecret(c) \/ ApplySchedule(c))
  BY <1>1
  DEF ReadClaim, ApplyAccess, ReadAccess, ReadCredentials, DeleteSchedule, ReadRepoSecret,
      CreateRepoSecret, ApplySchedule
<1> QED
  BY <1>3, <1>4, <1>5, <1>6, <1>7 DEF Step, Reconcile

(* A policy whose name is no label value has nothing made for it, ever, by *)
(* any number of replicas, and as long as its spec can be acted on, nobody *)
(* is told: the claim is refused before there is a status to write         *)
(* (desiredPhase, objectFor).                                              *)
THEOREM LongNamesAreNeverServed ==
  ASSUME ~LabelAdmitted(PolicyName)
  PROVE  Spec => []NeverServed
<1>1. TypeInv /\ UnservedInv /\ [Next]_vars => UnservedInv'
  <2> SUFFICES ASSUME TypeInv, UnservedInv, [Next]_vars PROVE UnservedInv'
    OBVIOUS
  <2>1. CASE UNCHANGED vars
    BY <2>1 DEF vars, world, controller, UnservedInv
  <2> QED
    BY <2>1, UnservedEnvironment, UnservedReplica DEF Next
<1>2. UnservedInv /\ StatusTellsTheSpecInFirstLife => NeverServed
  BY DEF UnservedInv, NeverServed, StatusTellsTheSpecInFirstLife, StatusTellsTheSpec, FirstLife,
         Live
<1> QED
  BY <1>1, <1>2, UnservedInit, TypesAreInductive, StatusTellsTheTruth, PTL DEF Spec

=============================================================================
