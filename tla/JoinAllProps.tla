----------------------------- MODULE JoinAllProps -----------------------------
(***************************************************************************)
(* The properties of JoinAllThenTry.                                       *)
(***************************************************************************)
EXTENDS JoinAllThenTry

\* Whichever kind was chosen, the result is all outputs "in the same order as
\* they were provided" or "the error for the first future listed that failed"
\* (join_all_then_try.rs:71,79), not the first in time.
SameResult ==
  outcome \notin {Running, Dropped} =>
    IF Failed = {} THEN outcome = OkWith([i \in Listed |-> i]) ELSE FirstListed(outcome)

\* Whenever the task sleeps, all futures have been driven as far as they go, there
\* is one that will be notified, and its notification will wake the task.
WakeupComing ==
  outcome = Running /\ pc = "asleep" /\ ~woken =>
    /\ InFlight # {} /\ Queued = {}
    /\ kind = "big" => futuresWaker

Abstract == INSTANCE ThenTry WITH
  left    <- {i \in Listed : futures[i] \notin Results},
  errors  <- {Error(i) : i \in Failed},
  Ok      <- <<"ok">>,
  outcome <- IF outcome[1] = "ok" THEN <<"ok">> ELSE outcome

\* The promise of a then_try adapter: "all other futures will be run to
\* completion" (join_all_then_try.rs:74) before it returns an error.
ImplementsThenTry == Abstract!Spec

=============================================================================
