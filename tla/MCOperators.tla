---------------------------- MODULE MCOperators ----------------------------
(***************************************************************************)
(* The inputs of OperatorRequirements.tla for TLC.                         *)
(***************************************************************************)
EXTENDS OperatorRequirements

CONSTANTS
  Counts,       \* of a retention, when it asks for something
  NameLengths   \* of the names of policies

Retentions ==
  {[f \in RetentionFields |-> IF f \in asked THEN n ELSE 0] :
     asked \in {{}, RetentionFields} \cup {{f} : f \in RetentionFields}, n \in Counts}

Specs ==
  [mode: Modes \cup {""}, schedules: [JobNames -> {"", "hourly"}],
   bucketClass: {"", "gold"}, accessClass: {"", "keys"}, retention: Retentions]

Defaults ==
  [schedules: [JobNames -> {"", "daily"}], bucketClass: {"", "silver"},
   accessClass: {"", "locks"}]

(* Names that differ at their end only, past any cut when they are long. *)
LongAndShort ==
  {[i \in 1..n |-> IF i = n THEN last ELSE "x"] : n \in NameLengths, last \in {"x", "y"}}

=============================================================================
