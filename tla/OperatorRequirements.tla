------------------------ MODULE OperatorRequirements ------------------------
(***************************************************************************)
(* What the pure parts of ampulla have to get right: the resolution of a   *)
(* spec against the defaults, and the names of the objects.                *)
(*                                                                         *)
(* Every input is a state: a spec with the defaults it meets, or the names *)
(* of two policies.                                                        *)
(***************************************************************************)
EXTENDS BackupConfig, Names

CONSTANTS
  SpecInputs,      \* the specs
  DefaultsInputs,  \* the controller's flags
  Characters,      \* that names are made of
  PolicyNames      \* the names of policies

ASSUME InputsAssumption ==
  /\ SpecInputs \subseteq BackupPolicySpec
  /\ DefaultsInputs \subseteq DefaultsType
  /\ PolicyNames \subseteq Seq(Characters)

VARIABLE input

ConfigInputs == [spec: SpecInputs, defaults: DefaultsInputs]

NameInputs == [name: PolicyNames, other: PolicyNames]

Init == input \in ConfigInputs \/ input \in NameInputs

Next == UNCHANGED input

Spec == Init /\ [][Next]_input

(* A prune keeps what the policy asks for, and 7 daily, 4 weekly and 6     *)
(* monthly snapshots when it asks for nothing: never "everything forever", *)
(* which is what restic makes of no count at all (config.go:39, Resolve,   *)
(* retentionFor).                                                          *)
PruneKeepsWhatWasAsked(spec, def) ==
  LET jobs == JobsFor(Config(spec, def))
      asked == {f \in RetentionFields : spec.retention[f] > 0}
  IN  "prune" \in DOMAIN jobs.cron =>
        IF asked = {}
        THEN /\ DOMAIN jobs.retention = {"keepDaily", "keepWeekly", "keepMonthly"}
             /\ jobs.retention["keepDaily"] = 7
             /\ jobs.retention["keepWeekly"] = 4
             /\ jobs.retention["keepMonthly"] = 6
        ELSE /\ DOMAIN jobs.retention = asked
             /\ \A f \in asked : jobs.retention[f] = spec.retention[f]

(* The defaults agree on whatever the spec leaves open. *)
Agree(spec, def, other) ==
  /\ \A j \in JobNames : spec.schedules[j] = "" => def.schedules[j] = other.schedules[j]
  /\ spec.bucketClass = "" => def.bucketClass = other.bucketClass
  /\ spec.accessClass = "" => def.accessClass = other.accessClass

(* "Every one of them can be overridden per policy" (config.go:12): what a *)
(* policy sets itself, no default of the cluster's gets in the way of      *)
(* (Resolve, orDefault).                                                   *)
SpecOverridesDefaults(spec, def, other) ==
  Agree(spec, def, other) =>
    /\ Config(spec, def) = Config(spec, other)
    /\ Problems(spec, def) = Problems(spec, other)

(* As shipped the controller backs up a policy that names its two classes, *)
(* and no other: where the data goes is not guessed (DefaultDefaults).     *)
NoClassIsGuessed(spec) ==
  Actionable(spec, DefaultDefaults) <=> spec.bucketClass # "" /\ spec.accessClass # ""

NameLength(name) ==
  Len(name.head) + (IF name.hash = <<>> THEN 0 ELSE hashLen) + SuffixLength[name.suffix]

Objects == {"BucketClaim", "BucketAccess", "CredentialsSecret", "RepositorySecret", "Schedule"}

(* Two objects of one kind have to have two names. *)
KindOf(object) ==
  IF object \in {"CredentialsSecret", "RepositorySecret"} THEN "Secret" ELSE object

(* However long a policy's name is, those of its objects are short enough  *)
(* (suffixed).                                                             *)
NamesFit(policy) == \A o \in Objects : NameLength(NamesFor(policy)[o]) <= maxNameLength

(* No object is that of another policy, nor are the two secrets of a       *)
(* policy one: a name that is cut stays apart by the hash of the whole     *)
(* (suffixed).                                                             *)
NothingIsShared(policy, other) ==
  \A o, p \in Objects :
    KindOf(o) = KindOf(p) /\ (policy # other \/ o # p) =>
      NamesFor(policy)[o] # NamesFor(other)[p]

(***************************************************************************)
(* The requirements of every input.                                        *)
(***************************************************************************)
IsConfig == "spec" \in DOMAIN input

(* A prune never keeps more or less than was asked for (Resolve,           *)
(* retentionFor).                                                          *)
RetentionIsHonoured == IsConfig => PruneKeepsWhatWasAsked(input.spec, input.defaults)

(* What a policy sets prevails over every default (orDefault).             *)
OverridesPrevail ==
  IsConfig =>
    \A other \in DefaultsInputs : SpecOverridesDefaults(input.spec, input.defaults, other)

(* The shipped defaults guess no class (DefaultDefaults).                  *)
ShippedDefaultsAreSafe == IsConfig => NoClassIsGuessed(input.spec)

(* Names are within the limit at every boundary of the cut (suffixed).     *)
ObjectNamesFit == ~IsConfig => NamesFit(input.name)

(* Two policies share nothing, however long their names (suffixed).        *)
PoliciesShareNothing == ~IsConfig => NothingIsShared(input.name, input.other)

=============================================================================
