---------------------------- MODULE MCReconciler ----------------------------
(***************************************************************************)
(* Values of the constants of Reconciler.tla for TLC.  The controller of   *)
(* NoBucketClass has no default bucket class, as it is shipped, and no     *)
(* default for the jobs other than the backup.                             *)
(***************************************************************************)
EXTENDS BackupRequirements, TLC

Cron(backup, prune, check) == "backup" :> backup @@ "prune" :> prune @@ "check" :> check

NoRetention == [f \in RetentionFields |-> 0]

KeepThree == [NoRetention EXCEPT !["keepLast"] = 3]

PolicySpec(mode, cron, class, retention) ==
  [mode |-> mode, schedules |-> cron, bucketClass |-> class, accessClass |-> "",
   retention |-> retention]

NoBucketClass ==
  [schedules |-> Cron("daily", "", ""), bucketClass |-> "", accessClass |-> "keys"]

Daily == PolicySpec("Schedule", Cron("", "", ""), "gold", NoRetention)
Pruned == PolicySpec("Schedule", Cron("hourly", "weekly", ""), "gold", KeepThree)
DailySilver == [Daily EXCEPT !.bucketClass = "silver"]
BucketOnly == PolicySpec("BucketOnly", Cron("", "", ""), "gold", NoRetention)
Classless == PolicySpec("Schedule", Cron("", "", ""), "", NoRetention)

JustBucketOnly == {BucketOnly}
JustDaily == {Daily}
ScheduledTwice == {Daily, Pruned}
BothModes == {Pruned, BucketOnly}
TwoClasses == {Daily, DailySilver}
AllSpecs == {Daily, Pruned, BucketOnly, Classless}

ShortName == <<"x">>
LongName == [i \in 1..(maxLabelLength + 1) |-> "x"]

Usable == [protocol |-> "S3", missing |-> {"Region"}]
Incomplete == [protocol |-> "S3", missing |-> {"AccessSecretKey"}]
AnyOutput == {Usable, Incomplete}
OnlyUsable == {Usable}
OnlyIncomplete == {Incomplete}

Symmetry == Permutations(Controllers) \cup Permutations(Passwords)

NoSecrets == {}
Unlabelled == {[managed |-> FALSE, password |-> p] : p \in Passwords}
OddSecrets == Unlabelled \cup {[managed |-> TRUE, password |-> None]}

=============================================================================
