---------------------------------- MODULE Task ----------------------------------
(***************************************************************************)
(* The task a then_try adapter runs on: its executor polls it after it was *)
(* woken, or a select! or join! around the adapter polls it unasked.       *)
(***************************************************************************)
EXTENDS Naturals, Sequences, FiniteSets

VARIABLES
  pc,      \* "asleep" between polls, else the next step of the poll
  woken,   \* the task is in its executor's run queue
  outcome  \* Running, Dropped, Panicked, or what the adapter returned

\* An error is known by the number of the future or element it came from.
Error(i) == <<"error", i>>
NoError  == <<>>
Running  == <<"running">>
Dropped  == <<"dropped">>
Panicked == <<"panicked">>   \* an output was taken of a future that has none

Results == {"ok", "err"}

\* A poll begins.
Wake(step) ==
  /\ outcome = Running
  /\ pc = "asleep"
  /\ pc' = step
  /\ woken' = FALSE
  /\ UNCHANGED outcome

\* The adapter is dropped between two polls.
Abandon ==
  /\ outcome = Running
  /\ pc = "asleep"
  /\ outcome' = Dropped
  /\ UNCHANGED <<pc, woken>>

=============================================================================
