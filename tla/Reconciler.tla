----------------------------- MODULE Reconciler -----------------------------
(***************************************************************************)
(* The BackupPolicy controller (controllers/backuppolicy_controller_       *)
(* manager.go), one step for each call it makes to the API server or to    *)
(* its cache, running against the world of Cluster.tla.  There may be more *)
(* than one replica: leader election is off unless --leader-elect is given.*)
(*                                                                         *)
(* A replica keeps an informer cache that lags behind the API server, a    *)
(* work queue of one key (the policy's) and, while it reconciles, the copy *)
(* of the policy that it read and what it concluded so far.                *)
(***************************************************************************)
EXTENDS Cluster

CONSTANTS
  Controllers,  \* the replicas
  MaxFaults     \* bound: calls that fail, answers that are lost, and restarts

ASSUME FaultsAssumption == MaxFaults \in Nat

(* What the cache has of a claim and of an access is not nothing. *)
ASSUME ViewAssumption ==
  None \notin [state: COSIStates, bucket: Optional(Buckets)] \cup [state: COSIStates]

VARIABLES
  pc,          \* the call a replica makes next
  pol,         \* the policy a reconcile works from
  verdict,     \* what it concluded: the phase of desiredPhase
  seenPolicy, seenClaim, seenAccess, seenRepo,  \* the informer cache
  queued,      \* the policy's key is in the work queue
  timer,       \* the key will be added to the work queue later
  faults       \* faults so far

cache == <<seenPolicy, seenClaim, seenAccess, seenRepo>>
queue == <<queued, timer>>
controller == <<pc, pol, verdict, cache, queue, faults>>
vars == <<world, controller>>

Calls ==
  {"applyClaim", "applyAccess", "readCredentials", "deleteSchedule",
   "createRepoSecret", "applySchedule", "writeStatus"}

CachedReads == {"readClaim", "readAccess", "readRepoSecret"}

(* Faulty: no look again. *)
NoRequeue == ""

(* When to look again: shortly, for a secret that is about to be written, *)
(* or in an hour, for one that was rotated.  The times are left out.      *)
CredentialsRetry == "credentialsRetry"
ResyncInterval == "resyncInterval"

Requeues == {"", CredentialsRetry, ResyncInterval}

Verdict == [status: BackupPolicyStatus, requeue: Requeues]

NoVerdict == [status |-> NoStatus, requeue |-> ""]

ControllerTypeOK ==
  /\ pc \in [Controllers -> Calls \cup CachedReads \cup {"idle"}]
  /\ pol \in [Controllers -> Optional(BackupPolicy)]
  /\ verdict \in [Controllers -> Verdict]
  /\ seenPolicy \in [Controllers -> Optional(BackupPolicy)]
  /\ seenClaim \in [Controllers -> Optional([state: COSIStates, bucket: Optional(Buckets)])]
  /\ seenAccess \in [Controllers -> Optional([state: COSIStates])]
  /\ seenRepo \in [Controllers -> Optional([hasPassword: BOOLEAN])]
  /\ queued \in [Controllers -> BOOLEAN]
  /\ timer \in [Controllers -> BOOLEAN]
  /\ faults \in Nat

ControllerInit ==
  /\ pc = [c \in Controllers |-> "idle"]
  /\ pol = [c \in Controllers |-> None]
  /\ verdict = [c \in Controllers |-> NoVerdict]
  /\ seenPolicy = [c \in Controllers |-> None]
  /\ seenClaim = [c \in Controllers |-> None]
  /\ seenAccess = [c \in Controllers |-> None]
  /\ seenRepo = [c \in Controllers |-> None]
  /\ queued = [c \in Controllers |-> FALSE]
  /\ timer = [c \in Controllers |-> FALSE]
  /\ faults = 0

Init == WorldInit /\ ControllerInit

(***************************************************************************)
(* What a reconcile reads of a cached object; the rest of it is left out   *)
(* of the cache here.  The cache only holds secrets with ampulla's label.  *)
(***************************************************************************)
ClaimView ==
  IF claim = None THEN None ELSE [state |-> claim.state, bucket |-> claim.bucket]

AccessView == IF access = None THEN None ELSE [state |-> access.state]

RepoView ==
  IF repoSecret = None THEN None
  ELSE IF repoSecret.managed THEN [hasPassword |-> repoSecret.password # None] ELSE None

(***************************************************************************)
(* How a step of a reconcile ends: going on to the next call, returning an *)
(* error, which puts the key back with a delay, or returning no error,     *)
(* which does so when the verdict asks for it.  The answer to a call that  *)
(* took effect may be lost, and the reconcile then returns an error.       *)
(***************************************************************************)
Leave(c, later) ==
  /\ pc' = [pc EXCEPT ![c] = "idle"]
  /\ pol' = [pol EXCEPT ![c] = None]
  /\ verdict' = [verdict EXCEPT ![c] = NoVerdict]
  /\ timer' = [timer EXCEPT ![c] = @ \/ later]
  /\ UNCHANGED queued

(* Faulty: the error is swallowed, and not tried again. *)
GiveUpForGood(c) == Leave(c, FALSE) /\ UNCHANGED faults

GiveUp(c) == Leave(c, TRUE) /\ UNCHANGED faults

Finish(c) == Leave(c, verdict[c].requeue # "") /\ UNCHANGED faults

Fault == faults < MaxFaults /\ faults' = faults + 1

LoseAnswer(c) == Leave(c, TRUE) /\ Fault

GoTo(c, call) ==
  /\ pc' = [pc EXCEPT ![c] = call]
  /\ UNCHANGED <<pol, queue, faults>>

Answer(c, call) == (GoTo(c, call) /\ UNCHANGED verdict) \/ LoseAnswer(c)

Conclude(c, status, requeue) ==
  verdict' = [verdict EXCEPT ![c] = [status |-> status, requeue |-> requeue]]

(* A call that fails without effect: a timeout, a conflict, an outage. *)
CallFails(c) ==
  /\ pc[c] \in Calls
  /\ LoseAnswer(c)
  /\ UNCHANGED <<world, cache>>

(***************************************************************************)
(* Reconcile starts on the cached policy, if there is one and it is not    *)
(* being deleted; a spec that is not actionable is reported and no more.   *)
(***************************************************************************)
Dequeue(c) ==
  /\ pc[c] = "idle"
  /\ queued[c]
  /\ queued' = [queued EXCEPT ![c] = FALSE]
  /\ UNCHANGED <<world, cache, timer, faults>>

StartGone(c) ==
  /\ Dequeue(c)
  /\ seenPolicy[c] # None => seenPolicy[c].deleting
  /\ UNCHANGED <<pc, pol, verdict>>

(* Faulty: a policy that is being deleted is reconciled like any other. *)
StartDeleting(c, call) ==
  /\ Dequeue(c)
  /\ seenPolicy[c] # None
  /\ pol' = [pol EXCEPT ![c] = seenPolicy[c]]
  /\ pc' = [pc EXCEPT ![c] = call]

Start(c, call) ==
  /\ Dequeue(c)
  /\ seenPolicy[c] # None
  /\ ~seenPolicy[c].deleting
  /\ pol' = [pol EXCEPT ![c] = seenPolicy[c]]
  /\ pc' = [pc EXCEPT ![c] = call]

StartRejected(c) ==
  /\ Start(c, "writeStatus")
  /\ ~Actionable(seenPolicy[c].spec, Defaults)
  /\ Conclude(c, [NoStatus EXCEPT !.phase = "Failed",
                                  !.message = Problems(seenPolicy[c].spec, Defaults)], "")

StartProvisioning(c) ==
  /\ Start(c, "applyClaim")
  /\ Actionable(seenPolicy[c].spec, Defaults)
  /\ UNCHANGED verdict

Resolved(c) == Config(pol[c].spec, Defaults)

(* Faulty: the objects are nobody's. *)
NoOwner(c) == 0

(* The policy as the controller owner of what is made for it. *)
Owner(c) == pol[c].uid

(***************************************************************************)
(* The API server refuses an object whose label it does not admit.  It may *)
(* refuse another class than the one a claim or access was made with, or   *)
(* take it: that is up to COSI's own validation.                           *)
(***************************************************************************)
Refusable(object, class) ==
  LabelAdmitted(PolicyName) => object # None /\ object.class # class

(***************************************************************************)
(* The bucket: apply the claim, read it back from the cache, and wait for  *)
(* COSI while it is not ready.  waitMessage adds what COSI last said.      *)
(***************************************************************************)
ApplyClaim(c) ==
  /\ pc[c] = "applyClaim"
  /\ \/ /\ LabelAdmitted(PolicyName)
        /\ claim' = IF claim = None
                    THEN [owner |-> Owner(c), class |-> Resolved(c).bucketClass,
                          state |-> "waiting", bucket |-> None, deleting |-> FALSE]
                    ELSE [claim EXCEPT !.owner = Owner(c), !.class = Resolved(c).bucketClass]
        /\ Answer(c, "readClaim")
     \/ Refusable(claim, Resolved(c).bucketClass) /\ UNCHANGED claim /\ GiveUp(c)
  /\ UNCHANGED <<butClaim, cache>>

(* Faulty: what COSI said is left in the claim. *)
WaitMessageOnly(waiting, state) == {waiting}

WaitMessage(waiting, state) ==
  IF state = "error" THEN {waiting, "COSI error"} ELSE {waiting}

Waiting(waiting, state, bucket) ==
  [NoStatus EXCEPT !.phase = "Pending", !.message = WaitMessage(waiting, state),
                   !.bucket = bucket]

ReadClaim(c) ==
  /\ pc[c] = "readClaim"
  /\ \/ seenClaim[c] = None /\ GiveUp(c)
     \/ /\ seenClaim[c] # None
        /\ seenClaim[c].state # "ready"
        /\ Conclude(c, Waiting("waiting for the bucket", seenClaim[c].state, UnsetBucket), "")
        /\ GoTo(c, "writeStatus")
     \/ /\ seenClaim[c] # None
        /\ seenClaim[c].state = "ready"
        /\ Conclude(c, [NoStatus EXCEPT !.bucket = BucketName(seenClaim[c].bucket)], "")
        /\ GoTo(c, "applyAccess")
  /\ UNCHANGED <<world, cache>>

(***************************************************************************)
(* The access, likewise.  Until it is ready the status names the bucket    *)
(* that the claim is bound to.                                             *)
(***************************************************************************)
ApplyAccess(c) ==
  /\ pc[c] = "applyAccess"
  /\ \/ /\ LabelAdmitted(PolicyName)
        /\ access' = IF access = None
                     THEN [owner |-> Owner(c), class |-> Resolved(c).accessClass,
                           state |-> "waiting", deleting |-> FALSE]
                     ELSE [access EXCEPT !.owner = Owner(c), !.class = Resolved(c).accessClass]
        /\ Answer(c, "readAccess")
     \/ Refusable(access, Resolved(c).accessClass) /\ UNCHANGED access /\ GiveUp(c)
  /\ UNCHANGED <<butAccess, cache>>

ReadAccess(c) ==
  /\ pc[c] = "readAccess"
  /\ \/ seenAccess[c] = None /\ GiveUp(c)
     \/ /\ seenAccess[c] # None
        /\ seenAccess[c].state # "ready"
        /\ Conclude(c, Waiting("waiting for the bucket credentials", seenAccess[c].state,
                               verdict[c].status.bucket), "")
        /\ GoTo(c, "writeStatus")
     \/ /\ seenAccess[c] # None
        /\ seenAccess[c].state = "ready"
        /\ GoTo(c, "readCredentials")
        /\ UNCHANGED verdict
  /\ UNCHANGED <<world, cache>>

(***************************************************************************)
(* The credentials, read past the cache.  A secret that is not there yet   *)
(* is waited for on a timer, one that is of no use is an error.            *)
(***************************************************************************)
(* Faulty: the bucket is not taken from the secret. *)
BucketStatusWithoutBucket ==
  [NoStatus EXCEPT !.phase = "Ready", !.message = {"ready"},
                   !.endpoint = credentials.endpoint, !.credentialsSecret = TRUE]

BucketStatus ==
  [NoStatus EXCEPT !.phase = "Ready", !.message = {"ready"},
                   !.bucket = BucketID(credentials.bucket),
                   !.endpoint = credentials.endpoint, !.credentialsSecret = TRUE]

ReadCredentials(c) ==
  /\ pc[c] = "readCredentials"
  /\ \/ /\ credentials = None
        /\ Conclude(c, Waiting("waiting for the bucket credentials", "waiting", UnsetBucket),
                    CredentialsRetry)
        /\ GoTo(c, "writeStatus")
     \/ /\ credentials # None
        /\ ~BucketFromSecretOK(credentials)
        /\ GiveUp(c)
     \/ /\ credentials # None
        /\ BucketFromSecretOK(credentials)
        /\ Conclude(c, BucketStatus, ResyncInterval)
        /\ GoTo(c, IF Resolved(c).mode = "BucketOnly" THEN "deleteSchedule"
                                                      ELSE "readRepoSecret")
  /\ UNCHANGED <<world, cache>>

(* Faulty: deletes the Schedule only if the status speaks of one. *)
DeleteReportedSchedule(c) ==
  /\ pc[c] = "deleteSchedule"
  /\ schedule' = IF pol[c].status.schedule = "" THEN schedule ELSE None
  /\ Answer(c, "writeStatus")
  /\ UNCHANGED <<butSchedule, cache>>

(* Faulty: the repository secret goes with the Schedule. *)
DeleteScheduleAndSecret(c) ==
  /\ pc[c] = "deleteSchedule"
  /\ schedule' = None
  /\ repoSecret' = None
  /\ Answer(c, "writeStatus")
  /\ UNCHANGED <<policy, claim, access, credentials, buckets, snapshots, incarnations, cache>>

(* Deletes the Schedule; one that is not there is as good. *)
DeleteSchedule(c) ==
  /\ pc[c] = "deleteSchedule"
  /\ schedule' = None
  /\ Answer(c, "writeStatus")
  /\ UNCHANGED <<butSchedule, cache>>

(***************************************************************************)
(* The repository password: looked for in the cache, which only holds      *)
(* labelled secrets, and created with a fresh one when it is not there.    *)
(* A secret that exists after all is left as it is.                        *)
(***************************************************************************)
ReadRepoSecret(c) ==
  /\ pc[c] = "readRepoSecret"
  /\ \/ seenRepo[c] = None /\ GoTo(c, "createRepoSecret") /\ UNCHANGED verdict
     \/ seenRepo[c] # None /\ ~seenRepo[c].hasPassword /\ GiveUp(c)
     \/ /\ seenRepo[c] # None
        /\ seenRepo[c].hasPassword
        /\ GoTo(c, "applySchedule")
        /\ UNCHANGED verdict
  /\ UNCHANGED <<world, cache>>

(* A random password is one that no repository was made with. *)
FreshPasswords == {p \in Passwords : \A b \in Buckets : snapshots[b] # p}

(* Faulty: the secret is applied, like the other objects. *)
ApplyRepoSecret(c) ==
  /\ pc[c] = "createRepoSecret"
  /\ \E p \in FreshPasswords :
       repoSecret' = [owner |-> Owner(c), managed |-> TRUE, password |-> p]
  /\ Answer(c, "applySchedule")
  /\ UNCHANGED <<butRepoSecret, cache>>

CreateRepoSecret(c) ==
  /\ pc[c] = "createRepoSecret"
  /\ \/ repoSecret # None /\ UNCHANGED repoSecret
     \/ /\ repoSecret = None
        /\ \E p \in FreshPasswords :
             repoSecret' = [owner |-> Owner(c), managed |-> TRUE, password |-> p]
  /\ Answer(c, "applySchedule")
  /\ UNCHANGED <<butRepoSecret, cache>>

(***************************************************************************)
(* The Schedule, pointed at the bucket read from the credentials.  Apply   *)
(* drops the jobs it no longer names.                                      *)
(***************************************************************************)
ApplySchedule(c) ==
  /\ pc[c] = "applySchedule"
  /\ schedule' = [owner |-> Owner(c), bucket |-> verdict[c].status.bucket.bucket,
                  endpoint |-> verdict[c].status.endpoint, jobs |-> JobsFor(Resolved(c))]
  /\ \/ /\ GoTo(c, "writeStatus")
        /\ verdict' = [verdict EXCEPT ![c].status.schedule = Resolved(c).schedules["backup"]]
     \/ LoseAnswer(c)
  /\ UNCHANGED <<butSchedule, cache>>

(***************************************************************************)
(* The status, compared with the one of the copy and applied by name.      *)
(***************************************************************************)
(* Faulty: the generation of the policy as it is when the status is written. *)
WantLatest(c) == [verdict[c].status EXCEPT !.observedGeneration = policy.generation]

(* Faulty: a rejected policy has no generation observed. *)
WantUnobserved(c) ==
  IF verdict[c].status.phase = "Failed" THEN verdict[c].status
  ELSE [verdict[c].status EXCEPT !.observedGeneration = pol[c].generation]

Want(c) == [verdict[c].status EXCEPT !.observedGeneration = pol[c].generation]

KeepStatus(c) ==
  /\ pc[c] = "writeStatus"
  /\ pol[c].status = Want(c)
  /\ Finish(c)
  /\ UNCHANGED <<world, cache>>

WriteStatus(c) ==
  /\ pc[c] = "writeStatus"
  /\ pol[c].status # Want(c)
  /\ \/ policy = None /\ UNCHANGED policy /\ GiveUp(c)
     \/ /\ policy # None
        /\ policy' = [policy EXCEPT !.status = Want(c)]
        /\ Finish(c) \/ LoseAnswer(c)
  /\ UNCHANGED <<butPolicy, cache>>

Reconcile(c) ==
  \/ StartGone(c) \/ StartRejected(c) \/ StartProvisioning(c)
  \/ ApplyClaim(c) \/ ReadClaim(c)
  \/ ApplyAccess(c) \/ ReadAccess(c) \/ ReadCredentials(c)
  \/ DeleteSchedule(c)
  \/ ReadRepoSecret(c) \/ CreateRepoSecret(c) \/ ApplySchedule(c)
  \/ KeepStatus(c) \/ WriteStatus(c)

(***************************************************************************)
(* What wakes a replica: a change of the policy, the claim or the access   *)
(* that reaches its cache, a timer, and events whose content no reconcile  *)
(* reads, those of the Schedule among them.  A secret wakes nobody.        *)
(***************************************************************************)
Wake(c) == queued' = [queued EXCEPT ![c] = TRUE] /\ UNCHANGED <<pc, pol, verdict, faults>>

SyncPolicy(c) ==
  /\ seenPolicy[c] # policy
  /\ seenPolicy' = [seenPolicy EXCEPT ![c] = policy]
  /\ Wake(c)
  /\ UNCHANGED <<world, seenClaim, seenAccess, seenRepo, timer>>

SyncClaim(c) ==
  /\ seenClaim[c] # ClaimView
  /\ seenClaim' = [seenClaim EXCEPT ![c] = ClaimView]
  /\ Wake(c)
  /\ UNCHANGED <<world, seenPolicy, seenAccess, seenRepo, timer>>

SyncAccess(c) ==
  /\ seenAccess[c] # AccessView
  /\ seenAccess' = [seenAccess EXCEPT ![c] = AccessView]
  /\ Wake(c)
  /\ UNCHANGED <<world, seenPolicy, seenClaim, seenRepo, timer>>

SyncRepo(c) ==
  /\ seenRepo[c] # RepoView
  /\ seenRepo' = [seenRepo EXCEPT ![c] = RepoView]
  /\ UNCHANGED <<world, pc, pol, verdict, faults, seenPolicy, seenClaim, seenAccess, queue>>

TimerFires(c) ==
  /\ pc[c] = "idle"
  /\ timer[c]
  /\ timer' = [timer EXCEPT ![c] = FALSE]
  /\ Wake(c)
  /\ UNCHANGED <<world, cache>>

OtherEvent(c) ==
  /\ pc[c] = "idle"
  /\ ~queued[c]
  /\ Wake(c)
  /\ UNCHANGED <<world, cache, timer>>

(* A new process lists everything, and queues the policy if there is one. *)
Restart(c) ==
  /\ Fault
  /\ pc' = [pc EXCEPT ![c] = "idle"]
  /\ pol' = [pol EXCEPT ![c] = None]
  /\ verdict' = [verdict EXCEPT ![c] = NoVerdict]
  /\ seenPolicy' = [seenPolicy EXCEPT ![c] = policy]
  /\ seenClaim' = [seenClaim EXCEPT ![c] = ClaimView]
  /\ seenAccess' = [seenAccess EXCEPT ![c] = AccessView]
  /\ seenRepo' = [seenRepo EXCEPT ![c] = RepoView]
  /\ queued' = [queued EXCEPT ![c] = policy # None]
  /\ timer' = [timer EXCEPT ![c] = FALSE]
  /\ UNCHANGED world

SyncOwned(c) == SyncClaim(c) \/ SyncAccess(c) \/ SyncRepo(c)

Step(c) ==
  \/ Reconcile(c) \/ CallFails(c)
  \/ SyncPolicy(c) \/ SyncOwned(c) \/ TimerFires(c) \/ OtherEvent(c) \/ Restart(c)

Next ==
  \/ Environment /\ UNCHANGED controller
  \/ \E c \in Controllers : Step(c)

Spec == Init /\ [][Next]_vars

(***************************************************************************)
(* A replica's worker, its watches and its timers do not stop.  Neither do *)
(* the garbage collector and COSI, except that a driver may fail or rotate *)
(* as it likes, and need not try again what it failed at.  Nothing is      *)
(* assumed of the user, of k8up or of the faults.                          *)
(***************************************************************************)
Driver ==
  \/ Provision /\ claim.state = "waiting"
  \/ Mint /\ access.state # "error"
  \/ Grant /\ access.state = "waiting"
  \/ FinalizeClaim \/ FinalizeAccess

Fairness ==
  /\ \A c \in Controllers :
       /\ WF_vars(Reconcile(c)) /\ WF_vars(TimerFires(c))
       /\ WF_vars(SyncPolicy(c)) /\ WF_vars(SyncOwned(c))
  /\ WF_vars(Collect /\ UNCHANGED controller)
  /\ WF_vars(Driver /\ UNCHANGED controller)

FairSpec == Spec /\ Fairness

=============================================================================
