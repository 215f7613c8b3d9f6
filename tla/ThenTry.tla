------------------------------- MODULE ThenTry -------------------------------
(***************************************************************************)
(* What every then_try adapter promises: it runs all it was given to the   *)
(* end, errors or not, and only then exits, with Ok if there was no error  *)
(* and with one of the errors otherwise.  Only whoever owns the adapter    *)
(* can cut the work short, by dropping it.                                 *)
(***************************************************************************)
CONSTANTS
  Running, Ok, Dropped   \* outcomes other than an error

VARIABLES
  left,     \* what has not been run to its end
  errors,   \* the errors met so far
  outcome   \* Running, Ok, an error, or Dropped

vars == <<left, errors, outcome>>

Init ==
  /\ errors = {}
  /\ outcome = Running

Run ==
  /\ outcome = Running
  /\ left' \in SUBSET left
  /\ errors \subseteq errors'
  /\ UNCHANGED outcome

Exit ==
  /\ outcome = Running
  /\ left = {}
  /\ outcome' \in IF errors = {} THEN {Ok} ELSE errors
  /\ UNCHANGED <<left, errors>>

Drop ==
  /\ outcome = Running
  /\ outcome' = Dropped
  /\ UNCHANGED <<left, errors>>

Next == Run \/ Exit \/ Drop

Spec == Init /\ [][Next]_vars

=============================================================================
