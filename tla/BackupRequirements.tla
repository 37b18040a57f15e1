------------------------- MODULE BackupRequirements -------------------------
(***************************************************************************)
(* What the controller of Reconciler.tla has to get right, and what the    *)
(* repository says of it that it does not do.                              *)
(*                                                                         *)
(* Most of the safety properties are about the first life of a policy, in  *)
(* which it is neither deleted nor made again under its name.              *)
(***************************************************************************)
EXTENDS Reconciler

Live == policy # None /\ ~policy.deleting

FirstLife == Live /\ incarnations = 1

(* As with leader election, but for its hand-over. *)
OneReplica == \A c, d \in Controllers : c = d

SpecConfig == Config(policy.spec, Defaults)

(* A spec that can be acted on, as the README has it: it has its classes   *)
(* and, unless the service backs itself up, a time for the backup.         *)
SpecActionable ==
  LET cfg == SpecConfig IN
    /\ cfg.bucketClass # ""
    /\ cfg.accessClass # ""
    /\ cfg.mode = "BucketOnly" \/ cfg.schedules["backup"] # ""

(* The jobs it asks k8up for, None in BucketOnly mode. *)
SpecJobs ==
  LET cfg == SpecConfig IN IF cfg.mode = "BucketOnly" THEN None ELSE JobsFor(cfg)

RunningJobs == IF schedule = None THEN None ELSE schedule.jobs

(* The phase was computed from the spec as it is. *)
Observed == policy.status.observedGeneration = policy.generation

(* What k8up needs in the secret that a Schedule refers to. *)
UsableCredentials ==
  /\ credentials # None
  /\ credentials.protocol = ProtocolS3
  /\ credentials.missing \subseteq {"Region"}

(***************************************************************************)
(* Safety.                                                                 *)
(***************************************************************************)

(* The type of every variable. *)
TypeOK == WorldTypeOK /\ ControllerTypeOK

(* No snapshot becomes unreadable: the password a repository was made with *)
(* is the one in the repository secret, however many replicas race to      *)
(* create it and however late their caches show it                         *)
(* (ensureRepositoryPassword).                                             *)
RepositoryReadable ==
  \A b \in Buckets :
    snapshots[b] # None => repoSecret # None /\ repoSecret.password = snapshots[b]

RepositoryReadableInFirstLife == FirstLife => RepositoryReadable

(* A status that claims a generation was computed from that generation's   *)
(* spec: it is Failed exactly when that spec is not actionable, and the    *)
(* schedule in it is that spec's - although a reconcile works from a       *)
(* cached copy of the policy and applies the status by name (Reconcile).   *)
StatusTellsTheSpec ==
  Live /\ Observed =>
    /\ policy.status.phase # ""
    /\ policy.status.phase = "Failed" <=> ~SpecActionable
    /\ policy.status.schedule # "" =>
         /\ SpecConfig.mode = "Schedule"
         /\ policy.status.schedule = SpecConfig.schedules["backup"]

StatusTellsTheSpecInFirstLife == FirstLife => StatusTellsTheSpec

(* A Schedule never points at credentials that do not exist, that k8up     *)
(* cannot use, or that are another bucket's; nor does a status publish     *)
(* such coordinates (desiredPhase's order of calls).                       *)
CoordinatesAreReal ==
  FirstLife =>
    /\ schedule # None => UsableCredentials /\ schedule.bucket = credentials.bucket
    /\ policy.status.credentialsSecret =>
         UsableCredentials /\ policy.status.bucket = BucketID(credentials.bucket)

(* Ready is the truth about the spec it was observed on: with one replica, *)
(* k8up runs exactly the jobs the spec asks for, against a repository      *)
(* secret that exists, or none in BucketOnly mode - through edits, stale   *)
(* copies, lost answers and restarts between any two calls (Reconcile).    *)
ReadyMeansProvisioned ==
  FirstLife /\ Observed /\ policy.status.phase = "Ready" =>
    /\ RunningJobs = SpecJobs
    /\ schedule # None => repoSecret # None

(* A spec that never was actionable has nothing provisioned for it: the    *)
(* bucket a customer's data goes to is not guessed (Resolve).              *)
RejectedProvisionsNothing ==
  FirstLife /\ policy.generation = 1 /\ ~SpecActionable =>
    claim = None /\ access = None /\ credentials = None /\ schedule = None

(* A replica has nothing to do: no reconcile, no key in the queue, and no  *)
(* event on its way.                                                       *)
Quiet(c) ==
  /\ pc[c] = "idle" /\ ~queued[c]
  /\ seenPolicy[c] = policy /\ seenClaim[c] = ClaimView /\ seenAccess[c] = AccessView

(* With no timer either, nothing but a change brings it back to the policy. *)
Asleep(c) == Quiet(c) /\ ~timer[c]

(* What a reconcile is stopped at: the claim, then the access. *)
StoppedAt == IF ClaimReady THEN access ELSE claim

(* No wake-up is lost: with one replica, when nothing will bring it back   *)
(* to a policy, that is Failed on its latest spec, or says so because it   *)
(* waits for COSI and tells what COSI last said.  A Ready one in           *)
(* particular always has its resync, and an access without its secret a    *)
(* retry to come - in any life of the policy, through edits, faults and    *)
(* copies of the policy that are late (Reconcile, SetupWithManager).       *)
NoWakeUpIsLost ==
  \A c \in Controllers :
    Asleep(c) /\ Live =>
      /\ Observed
      /\ IF ~SpecActionable THEN policy.status.phase = "Failed"
         ELSE /\ policy.status.phase = "Pending"
              /\ StoppedAt # None /\ StoppedAt.state # "ready"
              /\ "COSI error" \in policy.status.message <=> StoppedAt.state = "error"

(* Races between replicas leave nothing wrong behind: what one that was    *)
(* late with an edit did to the Schedule or the status - back after it was *)
(* deleted, gone after it was applied, of the generation before - another  *)
(* or itself puts right, and not only by the resync.  Without faults, for  *)
(* an error leaves it to the timer (Reconcile, deleteSchedule).            *)
RacesAreSettled ==
  FirstLife /\ faults = 0 /\ (\A c \in Controllers : Quiet(c)) =>
    /\ Observed
    /\ policy.status.phase = "Ready" => RunningJobs = SpecJobs

(* The deletion of the policy has reached every replica. *)
PutDown ==
  /\ policy # None => policy.deleting
  /\ \A c \in Controllers :
       pc[c] = "idle" /\ (seenPolicy[c] # None => seenPolicy[c].deleting)

(* Once it has, nothing brings back what the garbage collector took: no    *)
(* event, timer or restart makes a replica apply an object again, until a  *)
(* policy is created anew.  What is not there may be restored by the user  *)
(* only, and is then nobody's (the check of the deletion timestamp).       *)
NothingComesBack ==
  [][PutDown /\ incarnations' = incarnations =>
       /\ PutDown'
       /\ claim = None => claim' = None
       /\ access = None => access' = None
       /\ access = None /\ credentials = None => credentials' = None
       /\ schedule = None => schedule' = None
       /\ repoSecret = None /\ repoSecret' # None => repoSecret'.owner = 0]_vars

(***************************************************************************)
(* What the controller implements, in the first life of a policy.          *)
(***************************************************************************)

(* The repository secret is a register that is written once, relied upon   *)
(* while the policy lives: no replica overwrites or drops the password     *)
(* (ensureRepositoryPassword, and who owns the secret).                    *)
Register == INSTANCE PasswordRegister WITH
  held <- FirstLife,
  password <- IF repoSecret = None THEN None ELSE repoSecret.password,
  used <- snapshots

PasswordIsARegister == Register!Spec

(* What is wanted of the policy; of one that is going or gone, nothing. *)
Wanted ==
  IF FirstLife
  THEN [generation |-> policy.generation, possible |-> SpecActionable,
        jobs |-> SpecJobs]
  ELSE [generation |-> 0, possible |-> FALSE, jobs |-> None]

Contract == INSTANCE BackupContract WITH
  wanted <- Wanted,
  report <- IF policy = None THEN [generation |-> 0, phase |-> ""]
            ELSE [generation |-> policy.status.observedGeneration,
                  phase |-> policy.status.phase],
  running <- RunningJobs

(* With one replica, an answer is the truth about the spec as it is, and   *)
(* stands until the spec is edited: no stale copy, lost answer or restart  *)
(* takes Ready or Failed back, or touches what k8up runs (Reconcile).      *)
ContractIsKept == Contract!Spec

(***************************************************************************)
(* Liveness, under FairSpec and with one replica.                          *)
(***************************************************************************)

(* The secret a user brought back has no password: reconciles fail on it. *)
BrokenSecret == repoSecret # None /\ repoSecret.password = None

(* The driver failed and did not try again yet. *)
Refused == "error" \in {object.state : object \in {claim, access} \ {None}}

(* A policy that is left alone is reported Ready or Failed on its latest   *)
(* spec, or waiting for a driver that failed: no wake-up is lost between   *)
(* the watches, the two timers, the errors of a cache that lags and the    *)
(* faults (Reconcile, desiredPhase).                                       *)
Converges ==
  \A g \in 1..MaxGeneration :
    (Live /\ policy.generation = g) ~>
      \/ ~Live \/ policy.generation # g \/ BrokenSecret
      \/ /\ Observed
         /\ policy.status.phase \in {"Ready", "Failed"} \/ Refused

(* A policy switched to BucketOnly loses its Schedule, so that k8up stops  *)
(* backing up what the service now handles itself (deleteSchedule).        *)
BucketOnlyDropsSchedule ==
  (Live /\ SpecConfig.mode = "BucketOnly" /\ schedule # None) ~>
    (schedule = None \/ ~Live \/ SpecConfig.mode # "BucketOnly")

(* A rotated endpoint reaches the Schedule and the status, although the    *)
(* credentials secret wakes nobody: the resync does (resyncInterval).      *)
RotationArrives ==
  \A e \in Endpoints :
    (Live /\ schedule # None /\ credentials # None /\ credentials.endpoint = e) ~>
      \/ ~Live \/ schedule = None \/ credentials.endpoint # e
      \/ ~SpecActionable \/ BrokenSecret
      \/ schedule.endpoint = e /\ policy.status.endpoint = e

(* A claim or an access that the driver keeps refusing says so on the      *)
(* policy, whose owner looks at neither (waitMessage).                     *)
RefusalIsReported ==
  (Live /\ SpecActionable /\ Refused) ~>
    (~Live \/ ~SpecActionable \/ ~Refused \/ "COSI error" \in policy.status.message)

(* A policy that waits for its dependents to go does go: no reconcile      *)
(* makes them anew for ever (the check of the deletion timestamp).         *)
DeletionCompletes == (policy # None /\ policy.deleting) ~> (policy = None)

(* What ampulla made does not outlive the policy, not even what a          *)
(* reconcile that was under way makes after the deletion (controllerRef).  *)
NothingOutlivesThePolicy ==
  (policy = None /\ incarnations = MaxIncarnations) ~>
    [](claim = None /\ access = None /\ credentials = None /\ schedule = None
       /\ (repoSecret # None => repoSecret.owner = 0))

(***************************************************************************)
(* What the repository says and the code does not do.                      *)
(***************************************************************************)

(* "turns it into one clear message on the policy instead" (bucket.go:41): *)
(* a secret k8up cannot use makes the policy say something other than that *)
(* it is waiting.                                                          *)
UnusableCredentialsAreReported ==
  (Live /\ SpecActionable /\ credentials # None /\ ~UsableCredentials) ~>
    \/ ~Live \/ ~SpecActionable \/ UsableCredentials
    \/ policy.status.message \notin
         {{}, {"waiting for the bucket"}, {"waiting for the bucket credentials"}}

(* "The repository password is created once and never rewritten:           *)
(* overwriting it would leave every snapshot already in the bucket         *)
(* unreadable" (README.md:125): the Schedule of a policy never runs with a *)
(* password other than the one its bucket's repository was made with.      *)
PasswordIsNeverRewritten ==
  Live /\ schedule # None /\ repoSecret # None =>
    snapshots[schedule.bucket] \in {None, repoSecret.password}

(* "ObservedGeneration is the spec generation the phase was computed from" *)
(* (backuppolicy_types.go:122), of whichever policy has the name.          *)
ObservedGenerationIsTheSpecs == StatusTellsTheSpec

(* "silently not backing up a service whose owner asked for backups is the *)
(* one outcome this controller must never produce" (config.go:58): a spec  *)
(* that can be acted on has something said of it, if only that it waits.   *)
NeverSilentlyWithoutBackups ==
  (Live /\ SpecActionable) ~> (~Live \/ ~SpecActionable \/ policy.status.phase # "")

(* "BucketClassName is the object storage the backups are written to"      *)
(* (backuppolicy_types.go:44): when the class is edited after a bucket of  *)
(* another was made, the backups go elsewhere or the policy is not Ready.  *)
ClassEditIsHonoured ==
  \A class \in ClassNames, b \in Buckets :
    (/\ Live /\ ClaimReady
     /\ claim.class = class /\ claim.bucket = b /\ SpecConfig.bucketClass # class) ~>
      \/ ~Live \/ SpecConfig.bucketClass = class
      \/ ~ClaimReady \/ claim.bucket # b
      \/ policy.status.phase # "Ready"

(***************************************************************************)
(* A cluster on which COSI is done and replicas that just started on it:   *)
(* reached when the replicas that created the claim and the access were    *)
(* replaced before they saw the credentials.                               *)
(***************************************************************************)
ProvisionedInit ==
  /\ \E spec \in Specs, b \in Buckets, e \in Endpoints, out \in DriverOutputs :
       /\ Actionable(spec, Defaults)
       /\ policy = [uid |-> 1, generation |-> 1, spec |-> spec, deleting |-> FALSE,
                    status |-> [NoStatus EXCEPT
                                  !.phase = "Pending", !.observedGeneration = 1,
                                  !.message = {"waiting for the bucket credentials"},
                                  !.bucket = BucketName(b)]]
       /\ claim = [owner |-> 1, class |-> Config(spec, Defaults).bucketClass,
                   state |-> "ready", bucket |-> b, deleting |-> FALSE]
       /\ access = [owner |-> 1, class |-> Config(spec, Defaults).accessClass,
                    state |-> "ready", deleting |-> FALSE]
       /\ credentials = [bucket |-> b, endpoint |-> e,
                         protocol |-> out.protocol, missing |-> out.missing]
       /\ buckets = {b}
  /\ repoSecret = None /\ schedule = None
  /\ snapshots = [b \in Buckets |-> None]
  /\ incarnations = 1
  /\ pc = [c \in Controllers |-> "idle"]
  /\ pol = [c \in Controllers |-> None]
  /\ verdict = [c \in Controllers |-> NoVerdict]
  /\ seenPolicy = [c \in Controllers |-> policy]
  /\ seenClaim = [c \in Controllers |-> ClaimView]
  /\ seenAccess = [c \in Controllers |-> AccessView]
  /\ seenRepo = [c \in Controllers |-> None]
  /\ queued = [c \in Controllers |-> TRUE]
  /\ timer = [c \in Controllers |-> FALSE]
  /\ faults = 0

ProvisionedSpec == ProvisionedInit /\ [][Next]_vars

ProvisionedFairSpec == ProvisionedSpec /\ Fairness

=============================================================================
