---------------------------- MODULE PoisonFlagProps ----------------------------
(***************************************************************************)
(* The property of PoisonFlag.                                             *)
(***************************************************************************)
EXTENDS PoisonFlag

\* What the mutex tells of itself, where is_poisoned "is equivalent to
\* is_panic_poisoned || is_cancel_poisoned" (mutex.rs:337), and what an error and
\* its message tell, is what done() was told, however often it was: two panics do
\* not make a cancellation.  Which panics done() is not told of, those of a thread that
\* unwound already, is not a question of the byte: see FirstPanicPoisons.
CausesTold ==
  /\ is_panic_poisoned <=> "panic" \in causes
  /\ is_cancel_poisoned <=> "cancel" \in causes
  /\ is_poisoned <=> is_panic_poisoned \/ is_cancel_poisoned
  /\ pc = "error" =>
       /\ is_panic(flags) <=> "panic" \in causes
       /\ is_cancel(flags) <=> "cancel" \in causes
       /\ DebugFlags(flags) = causes /\ causes # {}

=============================================================================
