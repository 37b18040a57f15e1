---------------------------- MODULE BackupConfig ----------------------------
(***************************************************************************)
(* What a BackupPolicy's spec means once the controller's defaults are     *)
(* filled in (internal/backup/config.go), what a secret written by COSI    *)
(* has to hold to be of use (internal/backup/bucket.go), and the jobs of   *)
(* the k8up Schedule built from the result (controllers/objects.go).       *)
(*                                                                         *)
(* Classes and cron expressions are strings; "" is one that is not set.    *)
(* A ScheduleSpec is a function on JobNames, a Retention a function on     *)
(* RetentionFields, a set of problems or of phrases stands for the errors  *)
(* or texts that the code joins.                                           *)
(*                                                                         *)
(* Here and in Reconciler.tla, a definition whose comment begins with      *)
(* "Faulty" is a wrong form of the one after it.  Nothing uses it: it is   *)
(* put in its place to see that a property notices.                        *)
(***************************************************************************)
EXTENDS Naturals

CONSTANTS
  ClassNames,  \* of bucket classes and access classes
  Crons        \* cron expressions and k8up's shortcuts

JobNames == {"backup", "prune", "check"}

RetentionFields ==
  {"keepLast", "keepHourly", "keepDaily", "keepWeekly", "keepMonthly", "keepYearly"}

Modes == {"Schedule", "BucketOnly"}

(* The API server fills in the default mode and admits no negative count; *)
(* Resolve also takes a spec that has no mode.                            *)
BackupPolicySpec ==
  [mode: Modes \cup {""}, schedules: [JobNames -> Crons \cup {""}],
   bucketClass: ClassNames \cup {""}, accessClass: ClassNames \cup {""},
   retention: [RetentionFields -> Nat]]

DefaultsType ==
  [schedules: [JobNames -> Crons \cup {""}],
   bucketClass: ClassNames \cup {""}, accessClass: ClassNames \cup {""}]

(* Faulty: what the cluster's operator configured wins. *)
DefaultFirst(value, fallback) == IF fallback = "" THEN value ELSE fallback

OrDefault(value, fallback) == IF value = "" THEN fallback ELSE value

(* Faulty: a field is forgotten. *)
RetentionIsZeroButYearly(r) == \A f \in RetentionFields \ {"keepYearly"} : r[f] = 0

RetentionIsZero(r) == \A f \in RetentionFields : r[f] = 0

(* Faulty: the bucket class is guessed. *)
DefaultDefaultsGuessed ==
  [schedules |-> [j \in JobNames |-> IF j = "backup" THEN "@daily-random" ELSE "@weekly-random"],
   bucketClass |-> "default", accessClass |-> ""]

DefaultDefaults ==
  [schedules |-> [j \in JobNames |-> IF j = "backup" THEN "@daily-random" ELSE "@weekly-random"],
   bucketClass |-> "", accessClass |-> ""]

DefaultRetention ==
  [f \in RetentionFields |-> CASE f = "keepDaily" -> 7
                               [] f = "keepWeekly" -> 4
                               [] f = "keepMonthly" -> 6
                               [] OTHER -> 0]

(***************************************************************************)
(* Resolve returns a Config or an error; here Config is its value and      *)
(* Problems the errors it joins: a policy is actionable when there is none.*)
(***************************************************************************)
Config(spec, def) ==
  [mode |-> OrDefault(spec.mode, "Schedule"),
   schedules |-> [j \in JobNames |-> OrDefault(spec.schedules[j], def.schedules[j])],
   bucketClass |-> OrDefault(spec.bucketClass, def.bucketClass),
   accessClass |-> OrDefault(spec.accessClass, def.accessClass),
   retention |-> IF RetentionIsZero(spec.retention) THEN DefaultRetention
                                                    ELSE spec.retention]

(* Faulty: a missing bucket class is left for the API server to refuse. *)
ProblemsButBucketClass(spec, def) ==
  LET cfg == Config(spec, def) IN
    {p \in {"no BucketAccessClass", "no backup schedule"} :
       \/ p = "no BucketAccessClass" /\ cfg.accessClass = ""
       \/ p = "no backup schedule" /\ cfg.mode = "Schedule"
                                   /\ cfg.schedules["backup"] = ""}

ProblemTexts == {"no BucketClass", "no BucketAccessClass", "no backup schedule"}

Problems(spec, def) ==
  LET cfg == Config(spec, def) IN
    {p \in ProblemTexts :
       \/ p = "no BucketClass" /\ cfg.bucketClass = ""
       \/ p = "no BucketAccessClass" /\ cfg.accessClass = ""
       \/ p = "no backup schedule" /\ cfg.mode = "Schedule"
                                   /\ cfg.schedules["backup"] = ""}

Actionable(spec, def) == Problems(spec, def) = {}

(***************************************************************************)
(* The jobs of the Schedule: the backup always, prune and check when they  *)
(* have a cron expression, and the counts that were set with the prune.    *)
(***************************************************************************)
RetentionFor(r) == [f \in {g \in RetentionFields : r[g] > 0} |-> r[f]]

JobsFor(cfg) ==
  [cron |-> [j \in {k \in JobNames : k = "backup" \/ cfg.schedules[k] # ""}
               |-> cfg.schedules[j]],
   retention |-> IF cfg.schedules["prune"] = ""
                 THEN [f \in {} |-> 0] ELSE RetentionFor(cfg.retention)]

(***************************************************************************)
(* The credentials secret, by what the reconciler tells apart: the bucket  *)
(* and endpoint in it, the protocol, and which keys have no value.         *)
(***************************************************************************)
ProtocolS3 == "S3"

Protocols == {ProtocolS3, "another"}

SecretKeys == {"BucketID", "Endpoint", "Region", "AccessKeyID", "AccessSecretKey"}

RequiredKeys == {"BucketID", "Endpoint", "AccessKeyID", "AccessSecretKey"}

(* Faulty: the credential keys are not checked, since they are not returned. *)
BucketFromSecretUnchecked(secret) ==
  /\ secret.protocol = ProtocolS3
  /\ secret.missing \cap {"BucketID", "Endpoint"} = {}

BucketFromSecretOK(secret) ==
  /\ secret.protocol = ProtocolS3
  /\ secret.missing \cap RequiredKeys = {}

=============================================================================
