-------------------------- MODULE RepositoryProofs --------------------------
(***************************************************************************)
(* No snapshot of a policy's first life becomes unreadable, with any       *)
(* number of replicas racing to create the repository password and however *)
(* late their caches are: RepositoryInv is inductive, given the types.     *)
(* From it, every step is a step of the register of PasswordRegister.      *)
(***************************************************************************)
EXTENDS ReconcilerProofs

USE DEF butPolicy, butClaim, butAccess, butCredentials, butRepoSecret, butSchedule,
        butSnapshots

(* A policy, or a copy of one, is of a life that began. *)
Began(p) == p # None => p.uid \in 1..incarnations

(* Why no snapshot becomes unreadable in the first life: the secret's owner *)
(* is the policy or nobody, so it is not collected; before the first life   *)
(* there is no policy to reconcile and so no Schedule and no snapshot.      *)
RepositoryInv ==
  /\ policy # None => policy.uid = incarnations /\ incarnations # 0
  /\ \A c \in Controllers : Began(seenPolicy[c]) /\ Began(pol[c])
  /\ repoSecret # None => repoSecret.owner <= incarnations
  /\ incarnations = 0 => schedule = None /\ \A b \in Buckets : snapshots[b] = None
  /\ RepositoryReadableInFirstLife

LEMMA RepositoryInit == Init => RepositoryInv
BY DEF Init, WorldInit, ControllerInit, RepositoryInv, Began, RepositoryReadableInFirstLife,
       RepositoryReadable, FirstLife, Live

(***************************************************************************)
(* The environment.                                                        *)
(***************************************************************************)
LEMMA CopiesStay ==
  ASSUME RepositoryInv, UNCHANGED controller, incarnations' \in Nat, incarnations \in Nat,
         incarnations' >= incarnations
  PROVE  \A c \in Controllers : (Began(seenPolicy[c]) /\ Began(pol[c]))'
BY DEF RepositoryInv, controller, cache, Began

LEMMA RepositoryUser ==
  ASSUME TypeInv, RepositoryInv, User, UNCHANGED controller
  PROVE  RepositoryInv'
<1> USE DEF RepositoryInv, RepositoryReadableInFirstLife, RepositoryReadable, FirstLife, Live
<1>1. /\ incarnations \in Nat
      /\ policy # None => policy \in BackupPolicy
      /\ repoSecret # None => repoSecret.owner \in Nat
  BY TypeInvParts DEF WorldOK, WorldTypeOK, Optional, RepositorySecret
<1>2. incarnations' \in Nat /\ incarnations' >= incarnations
  <2>1. incarnations' \in {incarnations, incarnations + 1}
    BY DEF User, CreatePolicy, EditSpec, DeletePolicy, RestoreSecret
  <2> QED
    BY <1>1, <2>1
<1>3. \A c \in Controllers : (Began(seenPolicy[c]) /\ Began(pol[c]))'
  BY <1>1, <1>2, CopiesStay
<1>4. ASSUME CreatePolicy PROVE RepositoryInv'
  <2>1. policy' # None => policy'.uid = incarnations'
    BY <1>4 DEF CreatePolicy
  <2>2. incarnations' = 1 => \A b \in Buckets : snapshots'[b] = None
    BY <1>1, <1>4 DEF CreatePolicy
  <2> QED
    BY <1>1, <1>3, <1>4, <2>1, <2>2 DEF CreatePolicy
<1>5. ASSUME EditSpec PROVE RepositoryInv'
  <2>1. policy' # None => policy'.uid = policy.uid
    BY <1>1, <1>5 DEF EditSpec, BackupPolicy
  <2> QED
    BY <1>1, <1>3, <1>5, <2>1 DEF EditSpec
<1>6. ASSUME DeletePolicy PROVE RepositoryInv'
  <2>1. policy' # None => policy'.uid = policy.uid /\ policy'.deleting
    BY <1>1, <1>6 DEF DeletePolicy, BackupPolicy
  <2> QED
    BY <1>1, <1>3, <1>6, <2>1 DEF DeletePolicy
<1>7. ASSUME RestoreSecret PROVE RepositoryInv'
  <2>1. repoSecret' # None => repoSecret'.owner = 0
    BY <1>7 DEF RestoreSecret
  <2>2. FirstLife => \A b \in Buckets : snapshots[b] = None
    BY <1>7 DEF RestoreSecret
  <2> QED
    BY <1>1, <1>3, <1>7, <2>1, <2>2 DEF RestoreSecret
<1> QED
  BY <1>4, <1>5, <1>6, <1>7 DEF User

(* In the first life the secret's owner, if it has one, is the policy.  *)
LEMMA SecretNotCollected ==
  ASSUME TypeInv, RepositoryInv, FirstLife
  PROVE  ~CollectRepoSecret
<1>1. repoSecret # None => repoSecret.owner \in Nat
  BY TypeInvParts DEF WorldOK, WorldTypeOK, Optional, RepositorySecret
<1> QED
  BY <1>1 DEF RepositoryInv, CollectRepoSecret, Orphan, FirstLife, Live

LEMMA RepositoryCollect ==
  ASSUME TypeInv, RepositoryInv, Collect, UNCHANGED controller
  PROVE  RepositoryInv'
<1>1. incarnations \in Nat /\ UNCHANGED <<incarnations, snapshots>>
  BY TypeInvParts
  DEF Collect, CollectClaim, CollectAccess, CollectRepoSecret, CollectSchedule,
      FinishDeletion, WorldOK, WorldTypeOK
<1>2. \A c \in Controllers : (Began(seenPolicy[c]) /\ Began(pol[c]))'
  BY <1>1, CopiesStay
<1>3. /\ policy' \in {policy, None}
      /\ schedule' \in {schedule, None}
      /\ repoSecret' # repoSecret => CollectRepoSecret /\ repoSecret' = None
  BY DEF Collect, CollectClaim, CollectAccess, CollectRepoSecret, CollectSchedule,
         FinishDeletion
<1>4. FirstLife' => FirstLife /\ repoSecret' = repoSecret
  BY <1>1, <1>3, SecretNotCollected DEF FirstLife, Live
<1> QED
  BY <1>1, <1>2, <1>3, <1>4
  DEF RepositoryInv, RepositoryReadableInFirstLife, RepositoryReadable

LEMMA RepositoryCOSI ==
  ASSUME TypeInv, RepositoryInv, COSI, UNCHANGED controller
  PROVE  RepositoryInv'
<1>1. UNCHANGED <<policy, repoSecret, schedule, snapshots, incarnations>>
  BY DEF COSI, Provision, RefuseClaim, FinalizeClaim, Mint, Grant, RefuseAccess, Rotate,
         FinalizeAccess
<1> QED
  BY <1>1
  DEF RepositoryInv, RepositoryReadableInFirstLife, RepositoryReadable, FirstLife, Live,
      controller, cache, Began

LEMMA RepositoryBackup ==
  ASSUME TypeInv, RepositoryInv, Backup, UNCHANGED controller
  PROVE  RepositoryInv'
<1>1. /\ snapshots \in [Buckets -> Passwords \cup {None}]
      /\ UNCHANGED <<policy, repoSecret, schedule, incarnations>>
      /\ incarnations # 0
  BY TypeInvParts DEF Backup, RepositoryInv, WorldOK, WorldTypeOK
<1>2. \A b \in Buckets : snapshots'[b] = snapshots[b] \/ snapshots'[b] = repoSecret.password
  BY <1>1 DEF Backup
<1>3. repoSecret # None
  BY DEF Backup
<1> QED
  BY <1>1, <1>2, <1>3
  DEF RepositoryInv, RepositoryReadableInFirstLife, RepositoryReadable, FirstLife, Live,
      controller, cache, Began

LEMMA RepositoryEnvironment ==
  ASSUME TypeInv, RepositoryInv, Environment, UNCHANGED controller
  PROVE  RepositoryInv'
BY RepositoryUser, RepositoryCollect, RepositoryCOSI, RepositoryBackup DEF Environment

(***************************************************************************)
(* A replica.  What its steps can do to the variables of RepositoryInv.    *)
(***************************************************************************)
Frame(c) ==
  /\ UNCHANGED <<snapshots, incarnations>>
  /\ policy' # policy =>
       policy # None /\ \E s \in BackupPolicyStatus : policy' = [policy EXCEPT !.status = s]
  /\ \A d \in Controllers : pol'[d] \in {pol[d], seenPolicy[d], None}
  /\ \A d \in Controllers : seenPolicy'[d] \in {seenPolicy[d], policy}
  /\ schedule' # schedule => pol[c] # None
  /\ repoSecret' # repoSecret =>
       /\ repoSecret = None
       /\ repoSecret' # None
       /\ pol[c] # None
       /\ repoSecret'.owner = pol[c].uid

LEMMA ReconcileFrame ==
  ASSUME TypeInv, NEW c \in Controllers, Reconcile(c)
  PROVE  Frame(c)
<1>1. /\ pol \in [Controllers -> Optional(BackupPolicy)]
      /\ pc[c] # "idle" => pol[c] # None
  BY TypeInvParts DEF ControlOK, UnderWay
<1>2. ASSUME StartGone(c) \/ StartRejected(c) \/ StartProvisioning(c) PROVE Frame(c)
  BY <1>1, <1>2
  DEF StartGone, StartRejected, StartProvisioning, Start, Dequeue, world, cache, Frame
<1>3. ASSUME ApplyClaim(c) \/ ApplyAccess(c) PROVE Frame(c)
  BY <1>1, <1>3
  DEF ApplyClaim, ApplyAccess, Answer, GoTo, LoseAnswer, GiveUp, Leave, cache, Frame
<1>4. ASSUME ReadClaim(c) PROVE Frame(c)
  BY <1>1, <1>4 DEF ReadClaim, GoTo, GiveUp, Leave, world, cache, Frame
<1>5. ASSUME ReadAccess(c) PROVE Frame(c)
  BY <1>1, <1>5 DEF ReadAccess, GoTo, GiveUp, Leave, world, cache, Frame
<1>6. ASSUME ReadCredentials(c) PROVE Frame(c)
  BY <1>1, <1>6 DEF ReadCredentials, GoTo, GiveUp, Leave, world, cache, Frame
<1>7. ASSUME DeleteSchedule(c) PROVE Frame(c)
  BY <1>1, <1>7 DEF DeleteSchedule, Answer, GoTo, LoseAnswer, Leave, cache, Frame
<1>8. ASSUME ReadRepoSecret(c) PROVE Frame(c)
  BY <1>1, <1>8 DEF ReadRepoSecret, GoTo, GiveUp, Leave, world, cache, Frame
<1>9. ASSUME CreateRepoSecret(c) PROVE Frame(c)
  <2>1. repoSecret' # repoSecret =>
          repoSecret = None /\ repoSecret' # None /\ repoSecret'.owner = pol[c].uid
    <3>1. ASSUME repoSecret = None, NEW p \in FreshPasswords,
                 repoSecret' = [owner |-> Owner(c), managed |-> TRUE, password |-> p]
          PROVE  repoSecret' # None /\ repoSecret'.owner = pol[c].uid
      <4>1. repoSecret' \in RepositorySecret
        BY <1>9, <3>1, PolType DEF CreateRepoSecret, FreshPasswords, RepositorySecret
      <4> QED
        BY <3>1, <4>1, NoneAssumption DEF Owner
    <3> QED
      BY <1>9, <3>1 DEF CreateRepoSecret
  <2> QED
    BY <1>1, <1>9, <2>1 DEF CreateRepoSecret, Answer, GoTo, LoseAnswer, Leave, cache, Frame
<1>10. ASSUME ApplySchedule(c) PROVE Frame(c)
  BY <1>1, <1>10 DEF ApplySchedule, GoTo, LoseAnswer, Leave, cache, Frame
<1>11. ASSUME KeepStatus(c) \/ WriteStatus(c) PROVE Frame(c)
  <2>1. Want(c) \in BackupPolicyStatus
    BY <1>11, WantType DEF KeepStatus, WriteStatus
  <2> QED
    BY <1>1, <1>11, <2>1
    DEF KeepStatus, WriteStatus, Finish, GiveUp, LoseAnswer, Leave, world, cache, Frame
<1> QED
  BY <1>2, <1>3, <1>4, <1>5, <1>6, <1>7, <1>8, <1>9, <1>10, <1>11 DEF Reconcile

LEMMA OtherFrame ==
  ASSUME TypeInv, NEW c \in Controllers,
         CallFails(c) \/ SyncPolicy(c) \/ SyncOwned(c) \/ TimerFires(c) \/ OtherEvent(c)
         \/ Restart(c)
  PROVE  Frame(c)
<1>1. /\ pol \in [Controllers -> Optional(BackupPolicy)]
      /\ seenPolicy \in [Controllers -> Optional(BackupPolicy)]
  BY TypeInvParts DEF ControlOK, CacheOK
<1> QED
  BY <1>1
  DEF CallFails, LoseAnswer, Leave, SyncPolicy, SyncOwned, SyncClaim, SyncAccess, SyncRepo,
      TimerFires, OtherEvent, Wake, Restart, world, cache, Frame

LEMMA FramePreserves ==
  ASSUME TypeInv, RepositoryInv, NEW c \in Controllers, Frame(c)
  PROVE  RepositoryInv'
<1>1. incarnations \in Nat /\ (policy # None => policy \in BackupPolicy)
  BY TypeInvParts DEF WorldOK, WorldTypeOK, Optional
<1>2. /\ policy' # None <=> policy # None
      /\ policy # None => policy'.uid = policy.uid /\ policy'.deleting = policy.deleting
  BY <1>1, NoneAssumption DEF Frame, BackupPolicy
<1>3. \A d \in Controllers : (Began(seenPolicy[d]) /\ Began(pol[d]))'
  BY <1>1 DEF RepositoryInv, Frame, Began
<1>4. pol[c] # None => pol[c].uid \in 1..incarnations
  BY DEF RepositoryInv, Began
<1>5. FirstLife' => FirstLife
  BY <1>2 DEF Frame, FirstLife, Live
<1>6. RepositoryReadableInFirstLife'
  <2> SUFFICES ASSUME FirstLife', NEW b \in Buckets, snapshots'[b] # None
               PROVE  (repoSecret # None /\ repoSecret.password = snapshots[b])'
    BY DEF RepositoryReadableInFirstLife, RepositoryReadable
  <2>1. repoSecret # None /\ repoSecret.password = snapshots[b]
    BY <1>5 DEF RepositoryInv, RepositoryReadableInFirstLife, RepositoryReadable, Frame
  <2> QED
    BY <2>1 DEF Frame
<1> QED
  BY <1>1, <1>2, <1>3, <1>4, <1>6 DEF RepositoryInv, Frame

LEMMA RepositoryStep == TypeInv /\ RepositoryInv /\ [Next]_vars => RepositoryInv'
<1> SUFFICES ASSUME TypeInv, RepositoryInv, [Next]_vars PROVE RepositoryInv'
  OBVIOUS
<1>1. CASE Environment /\ UNCHANGED controller
  BY <1>1, RepositoryEnvironment
<1>2. ASSUME NEW c \in Controllers, Step(c) PROVE RepositoryInv'
  <2>1. Frame(c)
    BY <1>2, ReconcileFrame, OtherFrame DEF Step
  <2> QED
    BY <2>1, FramePreserves
<1>3. CASE UNCHANGED vars
  BY <1>3
  DEF vars, world, controller, cache, RepositoryInv, Began, RepositoryReadableInFirstLife,
      RepositoryReadable, FirstLife, Live
<1> QED
  BY <1>1, <1>2, <1>3 DEF Next

LEMMA ProvisionedRepository == ProvisionedInit => RepositoryInv
BY DEF ProvisionedInit, RepositoryInv, Began, RepositoryReadableInFirstLife, RepositoryReadable

(* The secret's owner is nobody or a policy that was there, a copy of a    *)
(* policy is of one that was there, and before the first there is nothing  *)
(* to lose: what makes it safe to look for the secret in a cache           *)
(* (ensureRepositoryPassword, SetControllerReference).                     *)
THEOREM SecretsAreInductive == Spec \/ ProvisionedSpec => []RepositoryInv
<1>1. Init \/ ProvisionedInit => RepositoryInv
  BY RepositoryInit, ProvisionedRepository
<1>2. TypeInv /\ RepositoryInv /\ [Next]_vars => RepositoryInv'
  BY RepositoryStep
<1> QED
  BY <1>1, <1>2, TypesAreInductive, PTL DEF Spec, ProvisionedSpec

(* The repository password outlives every race, crash and stale cache of a *)
(* policy's first life: the secret holds the password of every repository  *)
(* that k8up made.                                                         *)
THEOREM SnapshotsStayReadable == Spec \/ ProvisionedSpec => []RepositoryReadableInFirstLife
<1>1. RepositoryInv => RepositoryReadableInFirstLife
  BY DEF RepositoryInv
<1> QED
  BY <1>1, SecretsAreInductive, PTL

(***************************************************************************)
(* The controller implements PasswordRegister.tla: every step of it, of    *)
(* the user, the collector, COSI and k8up is a step of the register, with  *)
(* the repository secret's password in it, or none.                        *)
(***************************************************************************)
(* The register's value. *)
Password == IF repoSecret = None THEN None ELSE repoSecret.password

RegisterStep == [Register!Next]_<<FirstLife, Password, snapshots>>

(* The abstract actions, one by one, as they read here. *)
LEMMA Acquires ==
  ASSUME ~FirstLife, FirstLife', snapshots = [b \in Buckets |-> None],
         UNCHANGED <<repoSecret, snapshots>>
  PROVE  RegisterStep
<1>1. FirstLife' = TRUE
  BY DEF FirstLife, Live
<1>2. Register!Acquire
  BY <1>1 DEF Register!Acquire
<1> QED
  BY <1>2 DEF RegisterStep, Register!Next

LEMMA Writes ==
  ASSUME Password = None, Password' \in Passwords, FirstLife' <=> FirstLife,
         UNCHANGED snapshots
  PROVE  RegisterStep
<1>1. UNCHANGED FirstLife
  BY DEF FirstLife, Live
<1>2. Register!Write
  BY <1>1 DEF Register!Write, Password
<1> QED
  BY <1>2 DEF RegisterStep, Register!Next

LEMMA Releases ==
  ASSUME FirstLife, ~FirstLife', UNCHANGED <<repoSecret, snapshots>>
  PROVE  RegisterStep
<1>1. FirstLife' = FALSE
  BY DEF FirstLife, Live
<1>2. Register!Release
  BY <1>1 DEF Register!Release
<1> QED
  BY <1>2 DEF RegisterStep, Register!Next

LEMMA Discards ==
  ASSUME ~FirstLife, ~FirstLife', Password' = None, UNCHANGED snapshots
  PROVE  RegisterStep
<1>1. UNCHANGED FirstLife
  BY DEF FirstLife, Live
<1>2. Register!Discard
  BY <1>1 DEF Register!Discard, Password
<1> QED
  BY <1>2 DEF RegisterStep, Register!Next

LEMMA Stutters ==
  ASSUME FirstLife' <=> FirstLife, UNCHANGED <<Password, snapshots>>
  PROVE  RegisterStep
<1>1. UNCHANGED FirstLife
  BY DEF FirstLife, Live
<1> QED
  BY <1>1 DEF RegisterStep

LEMMA RegisterInit == Init \/ ProvisionedInit => Register!Init
BY DEF Init, WorldInit, ProvisionedInit, Register!Init, FirstLife, Live

LEMMA RegisterUser ==
  ASSUME TypeInv, RepositoryInv, User
  PROVE  RegisterStep
<1>1. /\ incarnations \in Nat
      /\ policy # None => policy \in BackupPolicy
      /\ snapshots \in [Buckets -> Passwords \cup {None}]
  BY TypeInvParts DEF WorldOK, WorldTypeOK, Optional
<1>2. ASSUME CreatePolicy PROVE RegisterStep
  <2>1. ~FirstLife /\ UNCHANGED <<repoSecret, snapshots>>
    BY <1>2 DEF CreatePolicy, FirstLife, Live
  <2>2. FirstLife' => snapshots = [b \in Buckets |-> None]
    BY <1>1, <1>2 DEF CreatePolicy, FirstLife, RepositoryInv
  <2> QED
    BY <2>1, <2>2, Acquires, Stutters DEF Password
<1>3. ASSUME EditSpec PROVE RegisterStep
  <2>1. policy \in BackupPolicy /\ policy.generation + 1 \in Nat
    BY <1>1, <1>3 DEF EditSpec, BackupPolicy
  <2>2. policy' \in BackupPolicy /\ policy'.deleting = policy.deleting
    BY <1>3, <2>1 DEF EditSpec, BackupPolicy
  <2>3. FirstLife' <=> FirstLife
    BY <1>3, <2>1, <2>2, NoneAssumption DEF EditSpec, FirstLife, Live
  <2> QED
    BY <1>3, <2>3, Stutters DEF EditSpec, Password
<1>4. ASSUME DeletePolicy PROVE RegisterStep
  <2>1. ~FirstLife'
    BY <1>1, <1>4 DEF DeletePolicy, FirstLife, Live, BackupPolicy
  <2> QED
    BY <1>4, <2>1, Releases, Stutters DEF DeletePolicy, Password
<1>5. ASSUME RestoreSecret PROVE RegisterStep
  <2>1. PICK s \in RestoredSecrets :
          repoSecret' = [owner |-> 0, managed |-> s.managed, password |-> s.password]
    BY <1>5 DEF RestoreSecret
  <2>2. repoSecret' \in RepositorySecret /\ repoSecret'.password \in Passwords \cup {None}
    BY <2>1, DriverAssumption DEF RepositorySecret
  <2>3. Password = None /\ Password' \in Passwords \cup {None}
    BY <1>5, <2>2, NoneAssumption DEF RestoreSecret, Password
  <2>4. (FirstLife' <=> FirstLife) /\ UNCHANGED snapshots
    BY <1>5 DEF RestoreSecret, FirstLife, Live
  <2> QED
    BY <2>3, <2>4, Writes, Stutters
<1> QED
  BY <1>2, <1>3, <1>4, <1>5 DEF User

LEMMA RegisterCollect ==
  ASSUME TypeInv, RepositoryInv, Collect
  PROVE  RegisterStep
<1>1. ASSUME CollectRepoSecret PROVE RegisterStep
  <2>1. ~FirstLife /\ ~FirstLife'
    BY <1>1, SecretNotCollected DEF CollectRepoSecret, FirstLife, Live
  <2> QED
    BY <1>1, <2>1, Discards DEF CollectRepoSecret, Password
<1>2. ASSUME FinishDeletion PROVE RegisterStep
  BY <1>2, Stutters DEF FinishDeletion, FirstLife, Live, Password
<1>3. ASSUME CollectClaim \/ CollectAccess \/ CollectSchedule PROVE RegisterStep
  BY <1>3, Stutters
  DEF CollectClaim, CollectAccess, CollectSchedule, FirstLife, Live, Password
<1> QED
  BY <1>1, <1>2, <1>3 DEF Collect

LEMMA RegisterCOSI ==
  ASSUME COSI
  PROVE  RegisterStep
BY Stutters
DEF COSI, Provision, RefuseClaim, FinalizeClaim, Mint, Grant, RefuseAccess, Rotate,
    FinalizeAccess, FirstLife, Live, Password

LEMMA RegisterBackup ==
  ASSUME TypeInv, Backup
  PROVE  RegisterStep
<1>1. schedule.bucket \in Buckets
  BY TypeInvParts DEF Backup, WorldOK, WorldTypeOK, Optional, Schedule
<1>2. /\ Password # None
      /\ snapshots[schedule.bucket] = None
      /\ snapshots' = [snapshots EXCEPT ![schedule.bucket] = Password]
      /\ UNCHANGED Password
      /\ UNCHANGED FirstLife
  BY DEF Backup, Password, FirstLife, Live
<1>3. Register!Use(schedule.bucket)
  BY <1>2 DEF Register!Use, Password
<1> QED
  BY <1>1, <1>3 DEF RegisterStep, Register!Next

(* A replica only ever writes a password where there is no secret.  *)
LEMMA RegisterReplica ==
  ASSUME TypeInv, TypeInv', NEW c \in Controllers, Frame(c)
  PROVE  RegisterStep
<1>1. policy # None => policy \in BackupPolicy
  BY TypeInvParts DEF WorldOK, WorldTypeOK, Optional
<1>2. /\ policy' # None <=> policy # None
      /\ policy # None => policy'.deleting = policy.deleting
  BY <1>1, NoneAssumption DEF Frame, BackupPolicy
<1>3. (FirstLife' <=> FirstLife) /\ UNCHANGED snapshots
  BY <1>2 DEF Frame, FirstLife, Live
<1>4. repoSecret' # None => repoSecret'.password \in Passwords \cup {None}
  BY TypeInvNext DEF WorldOK, WorldTypeOK, Optional, RepositorySecret
<1>5. CASE repoSecret' = repoSecret
  BY <1>3, <1>5, Stutters DEF Password
<1>6. CASE repoSecret' # repoSecret
  <2>1. Password = None /\ Password' \in Passwords \cup {None}
    BY <1>4, <1>6 DEF Frame, Password
  <2> QED
    BY <1>3, <2>1, Writes, Stutters
<1> QED
  BY <1>5, <1>6

LEMMA RegisterNext == TypeInv /\ TypeInv' /\ RepositoryInv /\ [Next]_vars => RegisterStep
<1> SUFFICES ASSUME TypeInv, TypeInv', RepositoryInv, [Next]_vars PROVE RegisterStep
  OBVIOUS
<1>1. CASE Environment /\ UNCHANGED controller
  BY <1>1, RegisterUser, RegisterCollect, RegisterCOSI, RegisterBackup DEF Environment
<1>2. ASSUME NEW c \in Controllers, Step(c) PROVE RegisterStep
  <2>1. Frame(c)
    BY <1>2, ReconcileFrame, OtherFrame DEF Step
  <2> QED
    BY <2>1, RegisterReplica
<1>3. CASE UNCHANGED vars
  BY <1>3, Stutters DEF vars, world, FirstLife, Live, Password
<1> QED
  BY <1>1, <1>2, <1>3 DEF Next

(* The repository password of a policy's first life is a register that is  *)
(* written once, kept while the policy lives, and never used before it is  *)
(* written - for any number of replicas and faults.                        *)
THEOREM PasswordIsWrittenOnce == Spec \/ ProvisionedSpec => PasswordIsARegister
<1>1. Init \/ ProvisionedInit => Register!Init
  BY RegisterInit
<1>2. TypeInv /\ TypeInv' /\ RepositoryInv /\ [Next]_vars
        => [Register!Next]_<<FirstLife, Password, snapshots>>
  BY RegisterNext DEF RegisterStep
<1>3. Spec \/ ProvisionedSpec
        => Register!Init /\ [][Register!Next]_<<FirstLife, Password, snapshots>>
  BY <1>1, <1>2, TypesAreInductive, SecretsAreInductive, PTL DEF Spec, ProvisionedSpec
<1> QED
  BY <1>3 DEF PasswordIsARegister, Register!Spec, Password

=============================================================================
