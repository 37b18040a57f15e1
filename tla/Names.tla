------------------------------- MODULE Names -------------------------------
(***************************************************************************)
(* The names of the objects made for a policy (internal/backup/names.go).  *)
(*                                                                         *)
(* A policy's name is a sequence of characters.  The name of an object is  *)
(* kept in its parts: the head is what it has of the policy's name, hash   *)
(* the name that the hash in it is taken of, <<>> if there is none.  So no *)
(* two names have one hash, and no policy is named by another's hash.      *)
(***************************************************************************)
EXTENDS Naturals, Sequences

maxNameLength == 253

(* "-" and 8 hexadecimal characters *)
hashLen == 9

(* The value of a label, as the API server admits it. *)
maxLabelLength == 63

SuffixLength ==
  [s \in {"-backup", "-backup-credentials", "-backup-repository"} |->
     CASE s = "-backup" -> 7 [] s = "-backup-credentials" -> 19 [] s = "-backup-repository" -> 18]

(* Faulty: the "-" before the hash is not counted. *)
suffixedTooLong(name, suffix) ==
  IF Len(name) + SuffixLength[suffix] <= maxNameLength
  THEN [head |-> name, hash |-> <<>>, suffix |-> suffix]
  ELSE [head |-> SubSeq(name, 1, maxNameLength - SuffixLength[suffix] - 8),
        hash |-> name, suffix |-> suffix]

(* Faulty: the hash is taken over what is kept of the name. *)
suffixedHashOfHead(name, suffix) ==
  LET head == SubSeq(name, 1, maxNameLength - SuffixLength[suffix] - hashLen) IN
    IF Len(name) + SuffixLength[suffix] <= maxNameLength
    THEN [head |-> name, hash |-> <<>>, suffix |-> suffix]
    ELSE [head |-> head, hash |-> head, suffix |-> suffix]

suffixed(name, suffix) ==
  IF Len(name) + SuffixLength[suffix] <= maxNameLength
  THEN [head |-> name, hash |-> <<>>, suffix |-> suffix]
  ELSE [head |-> SubSeq(name, 1, maxNameLength - SuffixLength[suffix] - hashLen),
        hash |-> name, suffix |-> suffix]

NamesFor(policy) ==
  [BucketClaim |-> suffixed(policy, "-backup"),
   BucketAccess |-> suffixed(policy, "-backup"),
   CredentialsSecret |-> suffixed(policy, "-backup-credentials"),
   RepositorySecret |-> suffixed(policy, "-backup-repository"),
   Schedule |-> suffixed(policy, "-backup")]

(* Every object has the policy's name as the value of ampulla's label. *)
LabelAdmitted(policy) == Len(policy) <= maxLabelLength

=============================================================================
