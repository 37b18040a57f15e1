--------------------------- MODULE BackupContract ---------------------------
(***************************************************************************)
(* What a policy promises its owner.  The controller works towards what is *)
(* wanted and reports on it until it answered: Ready when what runs is     *)
(* what is wanted, Failed when that cannot be had.  An answer stands, and  *)
(* what runs stays as it is, until something else is wanted.               *)
(***************************************************************************)
EXTENDS Naturals

CONSTANT None  \* nothing runs

VARIABLES
  wanted,   \* [generation, possible, jobs]; generation 0 is nothing
  report,   \* [generation, phase]
  running   \* None or jobs

Asked == wanted.generation # 0

Init == ~Asked /\ running = None

Ask ==
  /\ ~Asked
  /\ Asked'
  /\ running = None
  /\ report' = [generation |-> 0, phase |-> ""]
  /\ UNCHANGED running

Edit ==
  /\ Asked
  /\ wanted'.generation = wanted.generation + 1
  /\ UNCHANGED <<report, running>>

Answered ==
  report.generation = wanted.generation /\ report.phase \in {"Ready", "Failed"}

Run ==
  /\ Asked
  /\ ~Answered
  /\ UNCHANGED <<wanted, report>>

(* A report may be of an older wish, but not older than the last report. *)
Report ==
  /\ Asked
  /\ ~Answered
  /\ report'.phase \in {"Pending", "Ready", "Failed"}
  /\ report'.generation \in report.generation..wanted.generation
  /\ report'.generation = wanted.generation =>
       /\ report'.phase = "Failed" <=> ~wanted.possible
       /\ report'.phase = "Ready" => running = wanted.jobs
  /\ UNCHANGED <<wanted, running>>

Withdraw == Asked /\ ~Asked'

(* Nothing is promised on what nobody wants. *)
Unwanted == ~Asked /\ UNCHANGED wanted

Next == Run \/ Report \/ Ask \/ Edit \/ Withdraw \/ Unwanted

Spec == Init /\ [][Next]_<<wanted, report, running>>

=============================================================================
