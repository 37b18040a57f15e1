--------------------------- MODULE OperatorProofs ---------------------------
(***************************************************************************)
(* The requirements of OperatorRequirements.tla, proved of every spec, of  *)
(* all defaults and of names of any length; and so of whatever inputs a    *)
(* run has.                                                                *)
(***************************************************************************)
EXTENDS OperatorRequirements, TLAPS

(***************************************************************************)
(* Names.                                                                  *)
(***************************************************************************)
Suffixes == {"-backup", "-backup-credentials", "-backup-repository"}

(* The suffixes and the hash leave room for some of the name. *)
LEMMA SuffixesAreShort ==
  ASSUME NEW suffix \in Suffixes
  PROVE  /\ SuffixLength[suffix] \in 7..19
         /\ maxNameLength = 253
         /\ hashLen = 9
BY DEF Suffixes, SuffixLength, maxNameLength, hashLen

(* Every object's name is the policy's with one of the suffixes. *)
LEMMA ObjectSuffix ==
  ASSUME NEW o \in Objects, NEW policy
  PROVE  \E suffix \in Suffixes : NamesFor(policy)[o] = suffixed(policy, suffix)
BY DEF Objects, NamesFor, Suffixes

(* What is kept of a name that is too long with its suffix. *)
LEMMA Kept ==
  ASSUME NEW length \in Nat, NEW n \in 7..19, ~(length + n <= 253)
  PROVE  /\ 253 - n - 9 \in Nat
         /\ 253 - n - 9 <= length
         /\ (253 - n - 9) + 9 + n = 253
         /\ length # 0
OBVIOUS

(* A name that is cut to n characters has n characters. *)
LEMMA CutLength ==
  ASSUME NEW S, NEW name \in Seq(S), NEW n \in Nat, n <= Len(name)
  PROVE  Len(SubSeq(name, 1, n)) = n
OBVIOUS

(* The name of an object is within the limit (suffixed), however long that *)
(* of the policy.                                                          *)
THEOREM NamesAlwaysFit ==
  ASSUME NEW S, NEW policy \in Seq(S)
  PROVE  NamesFit(policy)
<1> SUFFICES ASSUME NEW suffix \in Suffixes
             PROVE  NameLength(suffixed(policy, suffix)) <= maxNameLength
  BY ObjectSuffix DEF NamesFit
<1>1. SuffixLength[suffix] \in 7..19 /\ maxNameLength = 253 /\ hashLen = 9
  BY SuffixesAreShort
<1>2. CASE Len(policy) + SuffixLength[suffix] <= maxNameLength
  BY <1>1, <1>2 DEF suffixed, NameLength
<1>3. CASE ~(Len(policy) + SuffixLength[suffix] <= maxNameLength)
  <2> DEFINE kept == maxNameLength - SuffixLength[suffix] - hashLen
             name == [head |-> SubSeq(policy, 1, kept), hash |-> policy, suffix |-> suffix]
  <2>1. Len(policy) \in Nat /\ (policy = <<>> => Len(policy) = 0)
    OBVIOUS
  <2>2. /\ kept \in Nat /\ kept <= Len(policy)
        /\ kept + hashLen + SuffixLength[suffix] = maxNameLength
        /\ Len(policy) # 0
    <3> DEFINE n == SuffixLength[suffix]
               length == Len(policy)
    <3>1. n \in 7..19 /\ length \in Nat /\ ~(length + n <= 253)
      BY <1>1, <1>3, <2>1
    <3>2. kept = 253 - n - 9 /\ hashLen = 9 /\ maxNameLength = 253
      BY <1>1
    <3> HIDE DEF n, length, kept
    <3>3. /\ 253 - n - 9 \in Nat /\ 253 - n - 9 <= length
          /\ (253 - n - 9) + 9 + n = 253 /\ length # 0
      BY <3>1, Kept
    <3>4. kept \in Nat /\ kept <= length /\ kept + hashLen + n = maxNameLength /\ length # 0
      BY <3>2, <3>3
    <3> QED
      BY <3>4 DEF n, length
  <2>3. Len(SubSeq(policy, 1, kept)) = kept
    BY <2>2, CutLength
  <2>4. suffixed(policy, suffix) = name
    BY <1>3 DEF suffixed
  <2>5. Len(name.head) = kept /\ name.hash # <<>> /\ name.suffix = suffix
    BY <2>1, <2>2, <2>3
  <2> HIDE DEF name
  <2>6. NameLength(name) = kept + hashLen + SuffixLength[suffix]
    BY <2>5 DEF NameLength
  <2> QED
    BY <1>1, <2>2, <2>4, <2>6
<1> QED
  BY <1>2, <1>3

(* A name determines the policy's and the suffix it was made of. *)
LEMMA SuffixedApart ==
  ASSUME NEW S, NEW policy \in Seq(S), NEW other \in Seq(S),
         NEW suffix \in Suffixes, NEW ending \in Suffixes,
         policy # other \/ suffix # ending
  PROVE  suffixed(policy, suffix) # suffixed(other, ending)
<1>1. SuffixLength[suffix] \in 7..19 /\ SuffixLength[ending] \in 7..19 /\ maxNameLength = 253
  BY SuffixesAreShort
<1>2. suffixed(policy, suffix).suffix = suffix /\ suffixed(other, ending).suffix = ending
  BY DEF suffixed
<1>3. CASE suffix # ending
  BY <1>2, <1>3
<1>4. CASE suffix = ending /\ policy # other
  <2> DEFINE long(name) == ~(Len(name) + SuffixLength[suffix] <= maxNameLength)
  <2>1. ASSUME NEW name \in Seq(S)
        PROVE  /\ ~long(name) => /\ suffixed(name, suffix).head = name
                                 /\ suffixed(name, suffix).hash = <<>>
               /\ long(name) => suffixed(name, suffix).hash = name /\ name # <<>>
    <3>1. name = <<>> => Len(name) = 0
      OBVIOUS
    <3>2. SuffixLength[suffix] <= maxNameLength
      BY <1>1
    <3>3. long(name) => name # <<>>
      BY <1>1, <3>1, <3>2
    <3> QED
      BY <3>3 DEF suffixed
  <2> QED
    BY <1>4, <2>1
<1> QED
  BY <1>3, <1>4

(* No two policies share an object, and no policy has its two secrets in   *)
(* one (NamesFor, suffixed).                                               *)
THEOREM NothingIsEverShared ==
  ASSUME NEW S, NEW policy \in Seq(S), NEW other \in Seq(S)
  PROVE  NothingIsShared(policy, other)
<1> SUFFICES ASSUME NEW o \in Objects, NEW p \in Objects,
                    KindOf(o) = KindOf(p), policy # other \/ o # p
             PROVE  NamesFor(policy)[o] # NamesFor(other)[p]
  BY DEF NothingIsShared
<1>1. CASE policy # other
  BY <1>1, ObjectSuffix, SuffixedApart
<1>2. CASE o # p
  <2>1. {o, p} = {"CredentialsSecret", "RepositorySecret"}
    BY <1>2 DEF Objects, KindOf
  <2>2. /\ NamesFor(policy)["CredentialsSecret"] = suffixed(policy, "-backup-credentials")
        /\ NamesFor(policy)["RepositorySecret"] = suffixed(policy, "-backup-repository")
        /\ NamesFor(other)["CredentialsSecret"] = suffixed(other, "-backup-credentials")
        /\ NamesFor(other)["RepositorySecret"] = suffixed(other, "-backup-repository")
    BY DEF NamesFor
  <2>3. /\ suffixed(policy, "-backup-credentials") # suffixed(other, "-backup-repository")
        /\ suffixed(policy, "-backup-repository") # suffixed(other, "-backup-credentials")
    BY SuffixedApart DEF Suffixes
  <2> QED
    BY <2>1, <2>2, <2>3
<1> QED
  BY <1>1, <1>2

(***************************************************************************)
(* Resolution.                                                             *)
(***************************************************************************)
(* What a policy sets, no default changes (orDefault, Resolve).            *)
THEOREM OverridesAlwaysPrevail ==
  ASSUME NEW spec \in BackupPolicySpec, NEW def \in DefaultsType, NEW other \in DefaultsType
  PROVE  SpecOverridesDefaults(spec, def, other)
<1> SUFFICES ASSUME Agree(spec, def, other)
             PROVE  /\ Config(spec, def) = Config(spec, other)
                    /\ Problems(spec, def) = Problems(spec, other)
  BY DEF SpecOverridesDefaults
<1>1. \A j \in JobNames :
        OrDefault(spec.schedules[j], def.schedules[j]) =
          OrDefault(spec.schedules[j], other.schedules[j])
  BY DEF Agree, OrDefault
<1>2. /\ OrDefault(spec.bucketClass, def.bucketClass) =
           OrDefault(spec.bucketClass, other.bucketClass)
      /\ OrDefault(spec.accessClass, def.accessClass) =
           OrDefault(spec.accessClass, other.accessClass)
  BY DEF Agree, OrDefault
<1>3. Config(spec, def) = Config(spec, other)
  BY <1>1, <1>2 DEF Config
<1> QED
  BY <1>3 DEF Problems

(* As shipped, a policy is backed up only where it says (DefaultDefaults). *)
THEOREM NoClassIsEverGuessed ==
  ASSUME NEW spec \in BackupPolicySpec
  PROVE  NoClassIsGuessed(spec)
<1> DEFINE cfg == Config(spec, DefaultDefaults)
<1>1. cfg.bucketClass = spec.bucketClass /\ cfg.accessClass = spec.accessClass
  BY DEF Config, OrDefault, DefaultDefaults
<1>2. cfg.schedules["backup"] # ""
  BY DEF Config, OrDefault, DefaultDefaults, JobNames
<1>3. Problems(spec, DefaultDefaults) =
        {p \in ProblemTexts : \/ p = "no BucketClass" /\ spec.bucketClass = ""
                              \/ p = "no BucketAccessClass" /\ spec.accessClass = ""}
  BY <1>1, <1>2 DEF Problems
<1>4. Problems(spec, DefaultDefaults) = {} <=> spec.bucketClass # "" /\ spec.accessClass # ""
  BY <1>3 DEF ProblemTexts
<1> QED
  BY <1>4 DEF NoClassIsGuessed, Actionable

(* A prune keeps what was asked for, or the default (Resolve, retentionFor). *)
THEOREM PrunesAlwaysKeep ==
  ASSUME NEW spec \in BackupPolicySpec, NEW def \in DefaultsType
  PROVE  PruneKeepsWhatWasAsked(spec, def)
<1> DEFINE cfg == Config(spec, def)
           jobs == JobsFor(cfg)
           asked == {f \in RetentionFields : spec.retention[f] > 0}
<1>1. spec.retention \in [RetentionFields -> Nat]
  BY DEF BackupPolicySpec
<1>2. RetentionIsZero(spec.retention) <=> asked = {}
  BY <1>1 DEF RetentionIsZero
<1> SUFFICES ASSUME "prune" \in DOMAIN jobs.cron
             PROVE  IF asked = {}
                    THEN /\ DOMAIN jobs.retention = {"keepDaily", "keepWeekly", "keepMonthly"}
                         /\ jobs.retention["keepDaily"] = 7
                         /\ jobs.retention["keepWeekly"] = 4
                         /\ jobs.retention["keepMonthly"] = 6
                    ELSE /\ DOMAIN jobs.retention = asked
                         /\ \A f \in asked : jobs.retention[f] = spec.retention[f]
  BY DEF PruneKeepsWhatWasAsked
<1>3. cfg.schedules["prune"] # ""
  BY DEF JobsFor, JobNames
<1>4. jobs.retention = RetentionFor(cfg.retention)
  BY <1>3 DEF JobsFor
<1>5. CASE asked = {}
  <2>1. cfg.retention = DefaultRetention
    BY <1>2, <1>5 DEF Config
  <2>2. {f \in RetentionFields : DefaultRetention[f] > 0} =
          {"keepDaily", "keepWeekly", "keepMonthly"}
    BY DEF DefaultRetention, RetentionFields
  <2>3. /\ DefaultRetention["keepDaily"] = 7
        /\ DefaultRetention["keepWeekly"] = 4
        /\ DefaultRetention["keepMonthly"] = 6
    BY DEF DefaultRetention, RetentionFields
  <2> QED
    BY <1>4, <1>5, <2>1, <2>2, <2>3 DEF RetentionFor
<1>6. CASE asked # {}
  <2>1. cfg.retention = spec.retention
    BY <1>2, <1>6 DEF Config
  <2> QED
    BY <1>4, <1>6, <2>1 DEF RetentionFor
<1> QED
  BY <1>5, <1>6

(***************************************************************************)
(* The inputs of a run, whatever they are.                                 *)
(***************************************************************************)
(* An input is a spec with defaults or two names, and stays what it is. *)
LEMMA InputIsKnown == Spec => [](input \in ConfigInputs \/ input \in NameInputs)
<1>1. Init => input \in ConfigInputs \/ input \in NameInputs
  BY DEF Init
<1>2. (input \in ConfigInputs \/ input \in NameInputs) /\ [Next]_input
        => (input \in ConfigInputs \/ input \in NameInputs)'
  BY DEF Next
<1> QED
  BY <1>1, <1>2, PTL DEF Spec

LEMMA ConfigInput ==
  ASSUME input \in ConfigInputs \/ input \in NameInputs, IsConfig
  PROVE  input.spec \in BackupPolicySpec /\ input.defaults \in DefaultsType
<1>1. input \notin NameInputs
  BY DEF NameInputs, IsConfig
<1> QED
  BY <1>1, InputsAssumption DEF ConfigInputs

LEMMA NameInput ==
  ASSUME input \in ConfigInputs \/ input \in NameInputs, ~IsConfig
  PROVE  input.name \in Seq(Characters) /\ input.other \in Seq(Characters)
<1>1. input \notin ConfigInputs
  BY DEF ConfigInputs, IsConfig
<1> QED
  BY <1>1, InputsAssumption DEF NameInputs

(* A prune keeps what its policy asks for or the default, for all sets of  *)
(* specs and defaults (Resolve, retentionFor).                             *)
THEOREM RetentionIsAlwaysHonoured == Spec => []RetentionIsHonoured
<1>1. input \in ConfigInputs \/ input \in NameInputs => RetentionIsHonoured
  BY ConfigInput, PrunesAlwaysKeep DEF RetentionIsHonoured
<1> QED
  BY <1>1, InputIsKnown, PTL

(* What a policy sets prevails over all defaults (orDefault).              *)
THEOREM PoliciesPrevail == Spec => []OverridesPrevail
<1>1. input \in ConfigInputs \/ input \in NameInputs => OverridesPrevail
  BY ConfigInput, OverridesAlwaysPrevail, InputsAssumption DEF OverridesPrevail
<1> QED
  BY <1>1, InputIsKnown, PTL

(* The shipped defaults guess no class, for all specs (DefaultDefaults).   *)
THEOREM ShippedDefaultsAreAlwaysSafe == Spec => []ShippedDefaultsAreSafe
<1>1. input \in ConfigInputs \/ input \in NameInputs => ShippedDefaultsAreSafe
  BY ConfigInput, NoClassIsEverGuessed DEF ShippedDefaultsAreSafe
<1> QED
  BY <1>1, InputIsKnown, PTL

(* The names of objects are within the limit, for all names of policies    *)
(* (suffixed).                                                             *)
THEOREM ObjectNamesAlwaysFit == Spec => []ObjectNamesFit
<1>1. input \in ConfigInputs \/ input \in NameInputs => ObjectNamesFit
  BY NameInput, NamesAlwaysFit DEF ObjectNamesFit
<1> QED
  BY <1>1, InputIsKnown, PTL

(* No two policies share an object, for all names of policies (suffixed).  *)
THEOREM PoliciesNeverShare == Spec => []PoliciesShareNothing
<1>1. input \in ConfigInputs \/ input \in NameInputs => PoliciesShareNothing
  BY NameInput, NothingIsEverShared DEF PoliciesShareNothing
<1> QED
  BY <1>1, InputIsKnown, PTL

=============================================================================
