----------------------------- MODULE WakeProofs -----------------------------
(***************************************************************************)
(* No wake-up is lost: a replica that nothing will bring back to a policy  *)
(* left it with a status that says why.  For one replica, in every life of *)
(* the policy.                                                             *)
(***************************************************************************)
EXTENDS StatusProofs

USE DEF butPolicy, butClaim, butAccess, butCredentials, butRepoSecret, butSchedule,
        butSnapshots

(* No copy of the policy is newer than the policy. *)
NotNewer(p) ==
  p # None /\ policy # None /\ p.uid = policy.uid => p.generation <= policy.generation

HasClaim(c) == seenClaim[c] # None /\ seenClaim[c].state = "ready"

(* What a reconcile on the cache as it is stops at. *)
SeenStop(c) == IF HasClaim(c) THEN seenAccess[c] ELSE seenClaim[c]

(* The status says what stops the spec, or that it cannot be acted on. *)
TellsStop(c, spec, status) ==
  IF ~Actionable(spec, Defaults) THEN status.phase = "Failed"
  ELSE /\ status.phase = "Pending"
       /\ SeenStop(c) # None /\ SeenStop(c).state # "ready"
       /\ "COSI error" \in status.message <=> SeenStop(c).state = "error"

(* While the key is not in the queue, a reconcile works from the cache as  *)
(* it is: whatever changes the cache puts the key there.                   *)
UpToTheCache(c) ==
  /\ pc[c] # "idle" => pol[c] = seenPolicy[c]
  /\ pc[c] \in {"applyAccess", "readAccess"} => HasClaim(c)
  /\ pc[c] = "writeStatus" /\ verdict[c].requeue = "" =>
       TellsStop(c, pol[c].spec, verdict[c].status)

(* Once it is done without a timer, the status it left tells what it saw,  *)
(* unless the policy is another one than it saw.                           *)
AtRest(c) ==
  pc[c] = "idle" /\ ~timer[c] /\ seenPolicy[c] = policy /\ Live =>
    Observed /\ TellsStop(c, policy.spec, policy.status)

Resyncs(c) == pc[c] \in AfterCredentials => verdict[c].requeue # ""

WakeInv ==
  \A c \in Controllers :
    /\ NotNewer(seenPolicy[c])
    /\ Resyncs(c)
    /\ ~queued[c] => UpToTheCache(c) /\ AtRest(c)

LEMMA WakeInit == Init => WakeInv
BY DEF Init, WorldInit, ControllerInit, WakeInv, NotNewer, Resyncs, AfterCredentials,
       UpToTheCache, AtRest, Live

LEMMA ProvisionedWake == ProvisionedInit => WakeInv
<1> SUFFICES ASSUME ProvisionedInit PROVE WakeInv
  OBVIOUS
<1>1. policy.generation = 1
  BY ProvisionedPolicy
<1>2. \A c \in Controllers : seenPolicy[c] = policy /\ pc[c] = "idle" /\ queued[c]
  BY DEF ProvisionedInit
<1> HIDE DEF ProvisionedInit
<1>3. NotNewer(policy)
  <2>1. \A g : g = 1 => g <= g
    OBVIOUS
  <2> QED
    BY <1>1, <2>1 DEF NotNewer
<1> QED
  BY <1>2, <1>3 DEF WakeInv, Resyncs, AfterCredentials

(***************************************************************************)
(* The environment: a change of the policy makes it newer than every copy. *)
(***************************************************************************)
(* The replica stands still, and what it saw is not the policy as it is,   *)
(* or that policy has not changed.                                         *)
LEMMA WakeStands ==
  ASSUME WakeInv, UNCHANGED controller,
         \A c \in Controllers :
           /\ NotNewer(seenPolicy[c])'
           /\ seenPolicy[c] = policy' /\ Live' => UNCHANGED policy
  PROVE  WakeInv'
<1>1. \A c \in Controllers :
        /\ UNCHANGED <<pc[c], pol[c], verdict[c], seenPolicy[c], seenClaim[c], seenAccess[c]>>
        /\ UNCHANGED <<queued[c], timer[c]>>
  BY DEF controller, cache, queue
<1>2. SUFFICES ASSUME NEW c \in Controllers
               PROVE  /\ Resyncs(c)'
                      /\ ~queued'[c] => UpToTheCache(c)' /\ AtRest(c)'
  BY DEF WakeInv
<1>3. Resyncs(c)'
  BY <1>1 DEF WakeInv, Resyncs
<1>4. ASSUME ~queued[c] PROVE UpToTheCache(c)' /\ AtRest(c)'
  <2>1. UpToTheCache(c) /\ AtRest(c)
    BY <1>4 DEF WakeInv
  <2>2. UpToTheCache(c)'
    BY <1>1, <2>1 DEF UpToTheCache, TellsStop, SeenStop, HasClaim
  <2>3. AtRest(c)'
    BY <1>1, <2>1 DEF AtRest, TellsStop, SeenStop, HasClaim, Observed, Live
  <2> QED
    BY <2>2, <2>3
<1> QED
  BY <1>1, <1>3, <1>4

LEMMA WakeEnvironment ==
  ASSUME TypeInv, RepositoryInv, WakeInv, Environment, UNCHANGED controller
  PROVE  WakeInv'
<1>1. /\ policy # None => policy \in BackupPolicy
      /\ incarnations \in Nat
      /\ \A c \in Controllers : seenPolicy[c] # None => seenPolicy[c] \in BackupPolicy
  BY TypeInvParts DEF WorldOK, WorldTypeOK, CacheOK, Optional
<1>2. \A c \in Controllers : seenPolicy'[c] = seenPolicy[c]
  BY DEF controller, cache
<1>3. \A c \in Controllers : NotNewer(seenPolicy[c])
  BY DEF WakeInv
<1>4. CASE CreatePolicy
  <2>1. policy'.uid = incarnations + 1
    BY <1>4 DEF CreatePolicy
  <2>2. \A c \in Controllers : seenPolicy[c] # None => seenPolicy[c].uid # incarnations + 1
    BY <1>1 DEF RepositoryInv, Began
  <2>3. ASSUME NEW c \in Controllers
        PROVE  NotNewer(seenPolicy[c])' /\ ~(seenPolicy[c] = policy' /\ Live')
    BY <1>2, <2>1, <2>2 DEF NotNewer, Live
  <2> QED
    BY <2>3, WakeStands
<1>5. CASE policy # None /\ policy' # None /\ policy'.uid = policy.uid
           /\ policy'.generation = policy.generation + 1
  <2>1. \A c \in Controllers :
          seenPolicy[c] # None /\ seenPolicy[c].uid = policy.uid =>
            /\ seenPolicy[c].generation <= policy.generation + 1
            /\ seenPolicy[c].generation # policy.generation + 1
    BY <1>1, <1>3, <1>5 DEF NotNewer, BackupPolicy
  <2> QED
    BY <1>2, <1>5, <2>1, WakeStands DEF NotNewer
<1>6. CASE policy' = None
  BY <1>2, <1>6, WakeStands DEF NotNewer, Live
<1>7. CASE UNCHANGED policy
  BY <1>2, <1>3, <1>7, WakeStands DEF NotNewer
<1>8. ASSUME EditSpec \/ DeletePolicy
      PROVE  \/ policy # None /\ policy' # None /\ policy'.uid = policy.uid
                /\ policy'.generation = policy.generation + 1
             \/ policy' = None
  <2>1. policy \in BackupPolicy
    BY <1>1, <1>8 DEF EditSpec, DeletePolicy
  <2>2. policy' # None => policy' \in BackupPolicy
    BY UserType, <1>8 DEF User, WorldOK, WorldTypeOK, Optional
  <2> QED
    BY <1>8, <2>1, <2>2, NoneAssumption DEF EditSpec, DeletePolicy, BackupPolicy
<1>9. ASSUME RestoreSecret \/ Collect \/ COSI \/ Backup
      PROVE  UNCHANGED policy \/ policy' = None
  BY <1>9
  DEF RestoreSecret, Collect, CollectClaim, CollectAccess, CollectRepoSecret,
      CollectSchedule, FinishDeletion, COSI, Provision, RefuseClaim, FinalizeClaim, Mint,
      Grant, RefuseAccess, Rotate, FinalizeAccess, Backup
<1> QED
  BY <1>4, <1>5, <1>6, <1>7, <1>8, <1>9 DEF Environment, User

(***************************************************************************)
(* The replica.                                                            *)
(***************************************************************************)
LEMMA NotNewerStep ==
  ASSUME TypeInv, WakeInv, NEW c \in Controllers, Step(c), NEW d \in Controllers
  PROVE  NotNewer(seenPolicy[d])'
<1>1. policy # None => policy \in BackupPolicy
  BY TypeInvParts DEF WorldOK, WorldTypeOK, Optional
<1>2. Frame(c)
  BY ReconcileFrame, OtherFrame DEF Step
<1>3. policy' # None =>
        /\ policy # None
        /\ policy'.uid = policy.uid
        /\ policy'.generation = policy.generation
  BY <1>1, <1>2 DEF Frame, BackupPolicy
<1>4. seenPolicy'[d] \in {seenPolicy[d], policy}
  BY <1>2 DEF Frame
<1>5. policy # None => policy.generation <= policy.generation
  BY <1>1 DEF BackupPolicy
<1>6. NotNewer(seenPolicy[d])
  BY DEF WakeInv
<1> QED
  BY <1>3, <1>4, <1>5, <1>6 DEF NotNewer

(* What was read of the cache and of the world is what it was. *)
LEMMA SeenAsBefore ==
  ASSUME NEW c \in Controllers, UNCHANGED <<seenPolicy, seenClaim, seenAccess>>
  PROVE  /\ HasClaim(c)' <=> HasClaim(c)
         /\ SeenStop(c)' = SeenStop(c)
         /\ \A spec, status : TellsStop(c, spec, status)' <=> TellsStop(c, spec, status)
BY DEF HasClaim, SeenStop, TellsStop

(* A reconcile that fails is tried again, and so has nothing to tell. *)
LEMMA FailsAwake ==
  ASSUME TypeInv, NEW c \in Controllers, GiveUp(c) \/ LoseAnswer(c)
  PROVE  Resyncs(c)' /\ UpToTheCache(c)' /\ AtRest(c)'
<1>1. pc'[c] = "idle" /\ timer'[c]
  BY TypeInvParts DEF ControlOK, GiveUp, LoseAnswer, Leave
<1> QED
  BY <1>1 DEF Resyncs, UpToTheCache, AtRest, AfterCredentials

(* A reconcile that goes on keeps its copy, and a later look if it had one. *)
LEMMA GoesOnAwake ==
  ASSUME TypeInv, NEW c \in Controllers, NEW call, GoTo(c, call), call # "idle",
         UNCHANGED <<seenPolicy, seenClaim, seenAccess>>, pc[c] # "idle",
         call \in AfterCredentials => verdict'[c].requeue # "",
         ~queued[c] /\ UpToTheCache(c) =>
           /\ call \in {"applyAccess", "readAccess"} => HasClaim(c)
           /\ call = "writeStatus" /\ verdict'[c].requeue = "" =>
                TellsStop(c, pol[c].spec, verdict'[c].status)
  PROVE  /\ Resyncs(c)'
         /\ ~queued[c] /\ UpToTheCache(c) => UpToTheCache(c)' /\ AtRest(c)'
<1>1. pc'[c] = call /\ pol'[c] = pol[c]
  BY TypeInvParts DEF ControlOK, GoTo
<1>2. Resyncs(c)'
  BY <1>1 DEF Resyncs
<1>3. AtRest(c)'
  BY <1>1 DEF AtRest
<1>4. ASSUME ~queued[c], UpToTheCache(c) PROVE UpToTheCache(c)'
  BY <1>1, <1>4, SeenAsBefore DEF UpToTheCache
<1> QED
  BY <1>2, <1>3, <1>4

(* What a step of the replica has to keep. *)
WakesOn(c) ==
  /\ Resyncs(c)'
  /\ ~queued[c] => UpToTheCache(c)' /\ AtRest(c)'
  /\ queued'[c] = queued[c]

LEMMA QueueStays ==
  ASSUME NEW c \in Controllers,
         \/ ApplyClaim(c) \/ ReadClaim(c) \/ ApplyAccess(c) \/ ReadAccess(c)
         \/ ReadCredentials(c) \/ DeleteSchedule(c) \/ ReadRepoSecret(c)
         \/ CreateRepoSecret(c) \/ ApplySchedule(c) \/ KeepStatus(c) \/ WriteStatus(c)
         \/ CallFails(c)
  PROVE  /\ UNCHANGED queued
         /\ UNCHANGED <<seenPolicy, seenClaim, seenAccess>>
         /\ CallFails(c) \/ pc[c] # "idle"
BY DEF ApplyClaim, ReadClaim, ApplyAccess, ReadAccess, ReadCredentials, DeleteSchedule,
       ReadRepoSecret, CreateRepoSecret, ApplySchedule, KeepStatus, WriteStatus, CallFails,
       Answer, GoTo, Finish, GiveUp, LoseAnswer, Leave, queue, cache

LEMMA WakeApplies ==
  ASSUME TypeInv, WakeInv, NEW c \in Controllers, ApplyClaim(c) \/ ApplyAccess(c)
  PROVE  WakesOn(c)
<1>1. /\ UNCHANGED <<queued, seenPolicy, seenClaim, seenAccess>>
      /\ pc[c] # "idle"
  BY QueueStays DEF ApplyClaim, ApplyAccess
<1>2. ~queued[c] => UpToTheCache(c)
  BY DEF WakeInv
<1>3. CASE ApplyClaim(c) /\ GoTo(c, "readClaim")
  BY <1>1, <1>2, <1>3, GoesOnAwake DEF WakesOn, AfterCredentials
<1>4. CASE ApplyAccess(c) /\ GoTo(c, "readAccess")
  <2>1. UpToTheCache(c) => HasClaim(c)
    BY <1>4 DEF ApplyAccess, UpToTheCache
  <2> QED
    BY <1>1, <1>2, <1>4, <2>1, GoesOnAwake DEF WakesOn, AfterCredentials
<1>5. CASE GiveUp(c) \/ LoseAnswer(c)
  BY <1>1, <1>5, FailsAwake DEF WakesOn
<1> QED
  BY <1>3, <1>4, <1>5 DEF ApplyClaim, ApplyAccess, Answer

LEMMA WaitingTells ==
  ASSUME NEW text \in {"waiting for the bucket", "waiting for the bucket credentials"},
         NEW state, NEW ref
  PROVE  /\ Waiting(text, state, ref).phase = "Pending"
         /\ "COSI error" \in Waiting(text, state, ref).message <=> state = "error"
BY DEF Waiting, WaitMessage, NoStatus

LEMMA WakeReadsClaim ==
  ASSUME TypeInv, VerdictInv, WakeInv, NEW c \in Controllers, ReadClaim(c)
  PROVE  WakesOn(c)
<1> DEFINE waiting == Waiting("waiting for the bucket", seenClaim[c].state, UnsetBucket)
<1>1. /\ UNCHANGED <<queued, seenPolicy, seenClaim, seenAccess>>
      /\ pc[c] = "readClaim"
      /\ Actionable(pol[c].spec, Defaults)
      /\ verdict \in [Controllers -> Verdict]
  BY QueueStays, TypeInvParts DEF ReadClaim, VerdictInv, VerdictFits, ControlOK
<1>2. ~queued[c] => UpToTheCache(c)
  BY DEF WakeInv
<1>3. CASE GiveUp(c)
  BY <1>1, <1>3, FailsAwake DEF WakesOn
<1>4. ASSUME seenClaim[c] # None, seenClaim[c].state # "ready",
             Conclude(c, waiting, ""), GoTo(c, "writeStatus")
      PROVE  WakesOn(c)
  <2>1. verdict'[c].status = waiting
    BY <1>1, <1>4 DEF Conclude
  <2>2. /\ waiting.phase = "Pending"
        /\ "COSI error" \in waiting.message <=> seenClaim[c].state = "error"
    BY WaitingTells
  <2> HIDE DEF waiting
  <2>3. TellsStop(c, pol[c].spec, verdict'[c].status)
    BY <1>1, <1>4, <2>1, <2>2 DEF TellsStop, SeenStop, HasClaim
  <2> QED
    BY <1>1, <1>2, <1>4, <2>3, GoesOnAwake DEF WakesOn, AfterCredentials
<1>5. ASSUME seenClaim[c] # None, seenClaim[c].state = "ready", GoTo(c, "applyAccess")
      PROVE  WakesOn(c)
  BY <1>1, <1>2, <1>5, GoesOnAwake DEF WakesOn, AfterCredentials, HasClaim
<1> QED
  BY <1>3, <1>4, <1>5 DEF ReadClaim

LEMMA WakeReadsAccess ==
  ASSUME TypeInv, VerdictInv, WakeInv, NEW c \in Controllers, ReadAccess(c)
  PROVE  WakesOn(c)
<1> DEFINE waiting == Waiting("waiting for the bucket credentials", seenAccess[c].state,
                              verdict[c].status.bucket)
<1>1. /\ UNCHANGED <<queued, seenPolicy, seenClaim, seenAccess>>
      /\ pc[c] = "readAccess"
      /\ Actionable(pol[c].spec, Defaults)
      /\ verdict \in [Controllers -> Verdict]
  BY QueueStays, TypeInvParts DEF ReadAccess, VerdictInv, VerdictFits, ControlOK
<1>2. ~queued[c] => UpToTheCache(c)
  BY DEF WakeInv
<1>3. CASE GiveUp(c)
  BY <1>1, <1>3, FailsAwake DEF WakesOn
<1>4. ASSUME seenAccess[c] # None, seenAccess[c].state # "ready",
             Conclude(c, waiting, ""), GoTo(c, "writeStatus")
      PROVE  WakesOn(c)
  <2>1. verdict'[c].status = waiting
    BY <1>1, <1>4 DEF Conclude
  <2>2. /\ waiting.phase = "Pending"
        /\ "COSI error" \in waiting.message <=> seenAccess[c].state = "error"
    BY WaitingTells
  <2> HIDE DEF waiting
  <2>3. UpToTheCache(c) => TellsStop(c, pol[c].spec, verdict'[c].status)
    BY <1>1, <1>4, <2>1, <2>2 DEF UpToTheCache, TellsStop, SeenStop
  <2> QED
    BY <1>1, <1>2, <1>4, <2>3, GoesOnAwake DEF WakesOn, AfterCredentials
<1>5. CASE GoTo(c, "readCredentials")
  BY <1>1, <1>2, <1>5, GoesOnAwake DEF WakesOn, AfterCredentials
<1> QED
  BY <1>3, <1>4, <1>5 DEF ReadAccess

LEMMA WakeReadsCredentials ==
  ASSUME TypeInv, WakeInv, NEW c \in Controllers, ReadCredentials(c)
  PROVE  WakesOn(c)
<1>1. /\ UNCHANGED <<queued, seenPolicy, seenClaim, seenAccess>>
      /\ pc[c] # "idle"
      /\ verdict \in [Controllers -> Verdict]
  BY QueueStays, TypeInvParts DEF ReadCredentials, ControlOK
<1>2. ~queued[c] => UpToTheCache(c)
  BY DEF WakeInv
<1>3. CASE GiveUp(c)
  BY <1>1, <1>3, FailsAwake DEF WakesOn
<1>4. ASSUME NEW status, NEW requeue \in {CredentialsRetry, ResyncInterval},
             NEW call \in {"writeStatus", "deleteSchedule", "readRepoSecret"},
             Conclude(c, status, requeue), GoTo(c, call)
      PROVE  WakesOn(c)
  <2>1. verdict'[c].requeue # ""
    BY <1>1, <1>4 DEF Conclude, CredentialsRetry, ResyncInterval
  <2> QED
    BY <1>1, <1>2, <1>4, <2>1, GoesOnAwake DEF WakesOn
<1> QED
  BY <1>3, <1>4 DEF ReadCredentials

LEMMA WakeSchedules ==
  ASSUME TypeInv, WakeInv, NEW c \in Controllers,
         DeleteSchedule(c) \/ ReadRepoSecret(c) \/ CreateRepoSecret(c) \/ ApplySchedule(c)
  PROVE  WakesOn(c)
<1>1. /\ UNCHANGED <<queued, seenPolicy, seenClaim, seenAccess>>
      /\ pc[c] \in AfterCredentials /\ pc[c] # "idle"
      /\ verdict \in [Controllers -> Verdict]
  BY QueueStays, TypeInvParts
  DEF DeleteSchedule, ReadRepoSecret, CreateRepoSecret, ApplySchedule, ControlOK,
      AfterCredentials
<1>2. ~queued[c] => UpToTheCache(c)
  BY DEF WakeInv
<1>3. verdict[c].requeue # ""
  BY <1>1 DEF WakeInv, Resyncs
<1>4. CASE GiveUp(c) \/ LoseAnswer(c)
  BY <1>1, <1>4, FailsAwake DEF WakesOn
<1>5. ASSUME NEW call \in {"createRepoSecret", "applySchedule", "writeStatus"}, GoTo(c, call),
             \/ UNCHANGED verdict
             \/ verdict' = [verdict EXCEPT ![c].status.schedule =
                                               Resolved(c).schedules["backup"]]
      PROVE  WakesOn(c)
  <2>1. verdict[c] \in Verdict
    BY <1>1
  <2>2. \A status :
          [verdict EXCEPT ![c].status.schedule = status][c].requeue = verdict[c].requeue
    BY <1>1, <2>1 DEF Verdict
  <2>3. verdict'[c].requeue # ""
    BY <1>3, <1>5, <2>2
  <2> QED
    BY <1>1, <1>2, <1>5, <2>3, GoesOnAwake DEF WakesOn
<1> QED
  BY <1>4, <1>5 DEF DeleteSchedule, ReadRepoSecret, CreateRepoSecret, ApplySchedule, Answer

(* A reconcile that is done asks for another look, or leaves the status it *)
(* was to leave; one that had to write it leaves a policy it did not see.  *)
LEMMA WakeStatus ==
  ASSUME TypeInv, WakeInv, NEW c \in Controllers, KeepStatus(c) \/ WriteStatus(c)
  PROVE  WakesOn(c)
<1>1. /\ UNCHANGED <<queued, seenPolicy, seenClaim, seenAccess>>
      /\ pc[c] = "writeStatus"
      /\ verdict[c].status \in BackupPolicyStatus
      /\ pol[c] # None
  BY QueueStays, TypeInvParts DEF KeepStatus, WriteStatus, ControlOK, UnderWay, Verdict
<1>2. CASE GiveUp(c) \/ LoseAnswer(c)
  BY <1>1, <1>2, FailsAwake DEF WakesOn
<1>3. CASE Finish(c)
  <2>1. pc'[c] = "idle" /\ (verdict[c].requeue # "" => timer'[c])
    BY <1>3, TypeInvParts DEF ControlOK, Finish, Leave
  <2>2. Resyncs(c)' /\ UpToTheCache(c)'
    BY <2>1 DEF Resyncs, UpToTheCache, AfterCredentials
  <2>3. ASSUME ~queued[c], verdict[c].requeue = "", seenPolicy[c] = policy', Live'
        PROVE  (Observed /\ TellsStop(c, policy.spec, policy.status))'
    <3>1. pol[c] = seenPolicy[c] /\ TellsStop(c, pol[c].spec, verdict[c].status)
      BY <1>1, <2>3 DEF WakeInv, UpToTheCache
    <3>2. /\ Want(c).phase = verdict[c].status.phase
          /\ Want(c).message = verdict[c].status.message
          /\ Want(c).observedGeneration = pol[c].generation
      BY <1>1 DEF Want, BackupPolicyStatus
    <3>3. CASE KeepStatus(c)
      <4>1. policy' = pol[c] /\ policy'.status = Want(c)
        BY <2>3, <3>1, <3>3 DEF KeepStatus
      <4> QED
        BY <1>1, <3>1, <3>2, <4>1, SeenAsBefore DEF Observed, TellsStop
    <3>4. CASE WriteStatus(c)
      <4>1. policy # None => policy \in BackupPolicy
        BY TypeInvParts DEF WorldOK, WorldTypeOK, Optional
      <4>2. policy' # None => policy'.status = Want(c) /\ pol[c].status # Want(c)
        BY <3>4, <4>1 DEF WriteStatus, BackupPolicy
      <4> QED
        BY <2>3, <3>1, <4>2 DEF Live
    <3> QED
      BY <3>3, <3>4
  <2>4. ~queued[c] => AtRest(c)'
    BY <1>1, <2>1, <2>3 DEF AtRest
  <2> QED
    BY <1>1, <2>2, <2>4 DEF WakesOn
<1> QED
  BY <1>2, <1>3 DEF KeepStatus, WriteStatus

(* A reconcile that starts does so on the cache as it is. *)
LEMMA WakeStarts ==
  ASSUME TypeInv, WakeInv, NEW c \in Controllers,
         StartGone(c) \/ StartRejected(c) \/ StartProvisioning(c)
  PROVE  Resyncs(c)' /\ UpToTheCache(c)' /\ AtRest(c)'
<1> USE TypeInvParts DEF ControlOK
<1>1. UNCHANGED <<policy, seenPolicy, seenClaim, seenAccess>> /\ pc[c] = "idle"
  BY DEF StartGone, StartRejected, StartProvisioning, Start, Dequeue, world, cache
<1>2. CASE StartGone(c)
  <2>1. pc'[c] = "idle" /\ (seenPolicy[c] # None => seenPolicy[c].deleting)
    BY <1>1, <1>2 DEF StartGone
  <2> QED
    BY <1>1, <2>1 DEF Resyncs, UpToTheCache, AtRest, Live, AfterCredentials
<1>3. CASE StartRejected(c)
  <2>1. /\ pc'[c] = "writeStatus" /\ pol'[c] = seenPolicy[c]
        /\ ~Actionable(pol'[c].spec, Defaults)
        /\ verdict'[c].status = [NoStatus EXCEPT !.phase = "Failed",
                                   !.message = Problems(seenPolicy[c].spec, Defaults)]
    BY <1>3 DEF StartRejected, Start, Conclude
  <2>2. verdict'[c].status.phase = "Failed"
    BY <2>1 DEF NoStatus
  <2> QED
    BY <1>1, <2>1, <2>2 DEF Resyncs, UpToTheCache, AtRest, TellsStop, AfterCredentials
<1>4. CASE StartProvisioning(c)
  <2>1. pc'[c] = "applyClaim" /\ pol'[c] = seenPolicy[c]
    BY <1>4 DEF StartProvisioning, Start
  <2> QED
    BY <1>1, <2>1 DEF Resyncs, UpToTheCache, AtRest, AfterCredentials
<1> QED
  BY <1>2, <1>3, <1>4

(* Whatever reaches the cache, or the replica otherwise, queues the key;   *)
(* but for the repository secret, which no status tells of.                *)
LEMMA WakeEvents ==
  ASSUME TypeInv, WakeInv, NEW c \in Controllers,
         \/ SyncPolicy(c) \/ SyncOwned(c) \/ TimerFires(c) \/ OtherEvent(c) \/ Restart(c)
         \/ CallFails(c)
  PROVE  /\ Resyncs(c)'
         /\ ~queued'[c] => UpToTheCache(c)' /\ AtRest(c)'
<1> USE TypeInvParts DEF ControlOK
<1>1. Resyncs(c) /\ (~queued[c] => UpToTheCache(c) /\ AtRest(c))
  BY DEF WakeInv
<1>2. CASE SyncPolicy(c) \/ SyncClaim(c) \/ SyncAccess(c) \/ TimerFires(c) \/ OtherEvent(c)
  <2>1. queued'[c] /\ pc'[c] = pc[c] /\ verdict'[c] = verdict[c]
    BY <1>2 DEF SyncPolicy, SyncClaim, SyncAccess, TimerFires, OtherEvent, Wake
  <2> QED
    BY <1>1, <2>1 DEF Resyncs
<1>3. CASE SyncRepo(c)
  <2>1. /\ UNCHANGED <<policy, pc, pol, verdict, queued, timer>>
        /\ UNCHANGED <<seenPolicy, seenClaim, seenAccess>>
    BY <1>3 DEF SyncRepo, world, queue
  <2>2. Resyncs(c)' /\ (UpToTheCache(c) => UpToTheCache(c)')
    BY <1>1, <2>1, SeenAsBefore DEF Resyncs, UpToTheCache
  <2>3. AtRest(c) => AtRest(c)'
    BY <2>1, SeenAsBefore DEF AtRest, Observed, Live
  <2> QED
    BY <1>1, <2>1, <2>2, <2>3
<1>4. CASE Restart(c)
  <2>1. /\ pc'[c] = "idle"
        /\ policy' = policy
        /\ queued'[c] <=> policy # None
    BY <1>4 DEF Restart, world
  <2> QED
    BY <2>1 DEF Resyncs, UpToTheCache, AtRest, Live, AfterCredentials
<1>5. CASE CallFails(c)
  BY <1>5, FailsAwake DEF CallFails
<1> QED
  BY <1>2, <1>3, <1>4, <1>5 DEF SyncOwned

LEMMA WakeReplica ==
  ASSUME OneReplica, TypeInv, VerdictInv, WakeInv, NEW c \in Controllers, Step(c)
  PROVE  WakeInv'
<1>1. \A d \in Controllers : d = c /\ NotNewer(seenPolicy[d])'
  BY NotNewerStep DEF OneReplica
<1>2. ASSUME WakesOn(c)
      PROVE  Resyncs(c)' /\ (~queued'[c] => UpToTheCache(c)' /\ AtRest(c)')
  BY <1>2 DEF WakesOn
<1>3. Resyncs(c)' /\ (~queued'[c] => UpToTheCache(c)' /\ AtRest(c)')
  BY <1>2, WakeStarts, WakeApplies, WakeReadsClaim, WakeReadsAccess, WakeReadsCredentials,
     WakeSchedules, WakeStatus, WakeEvents
  DEF Step, Reconcile
<1> QED
  BY <1>1, <1>3 DEF WakeInv

LEMMA WakeStep ==
  ASSUME OneReplica
  PROVE  TypeInv /\ RepositoryInv /\ VerdictInv /\ WakeInv /\ [Next]_vars => WakeInv'
<1> SUFFICES ASSUME TypeInv, RepositoryInv, VerdictInv, WakeInv, [Next]_vars PROVE WakeInv'
  OBVIOUS
<1>1. CASE UNCHANGED vars
  BY <1>1, WakeStands DEF vars, world, controller, cache, WakeInv, NotNewer
<1> QED
  BY <1>1, WakeEnvironment, WakeReplica DEF Next

(***************************************************************************)
(* In the words of the requirement.                                        *)
(***************************************************************************)
LEMMA AsleepIsTold == TypeInv /\ WakeInv => NoWakeUpIsLost
<1> SUFFICES ASSUME TypeInv, WakeInv, NEW c \in Controllers, Asleep(c), Live
             PROVE  /\ Observed
                    /\ IF ~SpecActionable THEN policy.status.phase = "Failed"
                       ELSE /\ policy.status.phase = "Pending"
                            /\ StoppedAt # None /\ StoppedAt.state # "ready"
                            /\ "COSI error" \in policy.status.message <=> StoppedAt.state = "error"
  BY DEF NoWakeUpIsLost
<1>1. Observed /\ TellsStop(c, policy.spec, policy.status)
  BY DEF WakeInv, AtRest, Asleep, Quiet
<1>2. Actionable(policy.spec, Defaults) <=> SpecActionable
  <2>1. policy.spec \in Specs
    BY TypeInvParts DEF WorldOK, WorldTypeOK, Optional, Live, BackupPolicy
  <2> QED
    BY <2>1, ActionableSpec DEF SpecActionable, SpecConfig
<1>3. /\ seenClaim[c] = None <=> claim = None
      /\ claim # None => seenClaim[c].state = claim.state
      /\ seenAccess[c] = None <=> access = None
      /\ access # None => seenAccess[c].state = access.state
  <2>1. /\ claim # None => ClaimView = [state |-> claim.state, bucket |-> claim.bucket]
        /\ claim = None => ClaimView = None
        /\ access # None => AccessView = [state |-> access.state]
        /\ access = None => AccessView = None
    BY DEF ClaimView, AccessView
  <2>2. claim # None => ClaimView \in [state: COSIStates, bucket: Optional(Buckets)]
    <3>1. claim # None => claim.state \in COSIStates /\ claim.bucket \in Optional(Buckets)
      BY TypeInvParts DEF WorldOK, WorldTypeOK, Optional, BucketClaim
    <3> QED
      BY <2>1, <3>1
  <2>3. access # None => AccessView \in [state: COSIStates]
    <3>1. access # None => access.state \in COSIStates
      BY TypeInvParts DEF WorldOK, WorldTypeOK, Optional, BucketAccess
    <3> QED
      BY <2>1, <3>1
  <2>4. /\ ClaimView = None <=> claim = None
        /\ AccessView = None <=> access = None
    BY <2>1, <2>2, <2>3, ViewAssumption
  <2>5. /\ claim # None => ClaimView.state = claim.state
        /\ access # None => AccessView.state = access.state
    BY <2>1
  <2> QED
    BY <2>4, <2>5 DEF Asleep, Quiet
<1>4. HasClaim(c) <=> ClaimReady
  BY <1>3 DEF HasClaim, ClaimReady
<1>5. /\ SeenStop(c) = None <=> StoppedAt = None
      /\ StoppedAt # None => SeenStop(c).state = StoppedAt.state
  BY <1>3, <1>4 DEF SeenStop, StoppedAt
<1> QED
  BY <1>1, <1>2, <1>5 DEF TellsStop

(* With one replica, nothing is forgotten: when no reconcile, no queued    *)
(* key, no timer and no event will bring it back to a policy, that is      *)
(* Failed on its latest spec, or waits for COSI and says what COSI last    *)
(* said - in any life of the policy, whatever was edited, late or lost.    *)
THEOREM WakeUpsAreNotLost ==
  ASSUME OneReplica
  PROVE  Spec \/ ProvisionedSpec => []NoWakeUpIsLost
<1>1. Init \/ ProvisionedInit => WakeInv
  BY WakeInit, ProvisionedWake
<1>2. TypeInv /\ RepositoryInv /\ VerdictInv /\ WakeInv /\ [Next]_vars => WakeInv'
  BY WakeStep
<1>3. TypeInv /\ WakeInv => NoWakeUpIsLost
  BY AsleepIsTold
<1> QED
  BY <1>1, <1>2, <1>3, TypesAreInductive, SecretsAreInductive, StatusInvariance, PTL
  DEF Spec, ProvisionedSpec

=============================================================================
