-------------------------- MODULE PasswordRegister --------------------------
(***************************************************************************)
(* What the repository secret promises: a password that is written once.   *)
(* While it is held nobody discards it, so whatever was locked with it can *)
(* be opened; it has to be held before anything is locked.                 *)
(***************************************************************************)
CONSTANTS None, Buckets, Passwords

VARIABLES
  held,      \* somebody relies on the password
  password,  \* None when there is none
  used       \* the password each bucket was locked with

Init ==
  /\ held \in BOOLEAN
  /\ password = None
  /\ used = [b \in Buckets |-> None]

Acquire ==
  /\ ~held
  /\ held' = TRUE
  /\ used = [b \in Buckets |-> None]
  /\ UNCHANGED <<password, used>>

Write ==
  /\ password = None
  /\ password' \in Passwords
  /\ UNCHANGED <<held, used>>

Use(b) ==
  /\ password # None
  /\ used[b] = None
  /\ used' = [used EXCEPT ![b] = password]
  /\ UNCHANGED <<held, password>>

Release ==
  /\ held
  /\ held' = FALSE
  /\ UNCHANGED <<password, used>>

Discard ==
  /\ ~held
  /\ password' = None
  /\ UNCHANGED <<held, used>>

Next ==
  \/ Acquire \/ Write \/ Release \/ Discard
  \/ \E b \in Buckets : Use(b)

Spec == Init /\ [][Next]_<<held, password, used>>

=============================================================================
