------------------------------- MODULE JoinProps -------------------------------
(***************************************************************************)
(* The properties of JoinThenTry.                                          *)
(***************************************************************************)
EXTENDS JoinThenTry

\* Wherever the loop starts, a poll of the macro polls every future exactly once
\* before it breaks (join_then_try.rs:149).
PolledOnce ==
  pc = "loop" => \A i \in Branches :
    /\ polls[i] <= 1
    /\ skip = 0 /\ to_run = 0 => polls[i] = 1

\* The result is "the error from the first future listed in the macro that
\* produces an error" (join_then_try.rs:7-8), not the first in time.
FirstListedReturned ==
  outcome \notin {Running, Dropped} =>
    IF Failed = {} THEN outcome = Ok ELSE FirstListed(outcome)

\* Whenever the task sleeps, each of its futures was driven as far as it goes,
\* and one of them is still to be notified.
WakeupComing ==
  outcome = Running /\ pc = "asleep" /\ ~woken => InFlight # {} /\ Queued = {}

\* How many branches this poll skipped: skip_next_time is already the next poll's.
Start == IF skip_next_time = 0 THEN COUNT - 1 ELSE skip_next_time - 1

\* How many branches are polled before branch i, with the first start skipped.
Turn(i, start, count) == IF i > start THEN i - start - 1 ELSE i - start - 1 + count

\* How many branches this poll polls before branch i.
Place(i) == Turn(i, Start, COUNT)

\* "a different future will be polled first to ensure every future passed to join!
\* gets a chance to make progress" (join_then_try.rs:123-124): a future is denied the
\* budget only behind another, and has fewer before it with each new poll until it
\* is the first.
BudgetGoesRound ==
  [][ \A i \in Branches :
        /\ OutOfBudget /\ branch = i /\ i \notin hungry => Place(i) > 0
        /\ pc = "asleep" /\ pc' = "loop" /\ Place(i) # 0 => Place(i)' < Place(i) ]_vars

Abstract == INSTANCE ThenTry WITH
  left   <- {i \in Branches : futures[i] \notin Results},
  errors <- {Error(i) : i \in Failed}

\* The promise of a then_try adapter: "this macro runs all futures to
\* completion" (join_then_try.rs:5).
ImplementsThenTry == Abstract!Spec

-----------------------------------------------------------------------------
\* A woken task is polled, a poll does not block, and what the futures wait for
\* happens.
FairSpec ==
  /\ Spec
  /\ WF_vars(woken /\ StartPoll)
  /\ WF_vars(Poll)
  /\ WF_vars(\E i \in Branches : Notify(i))

\* "to ensure every future passed to join! gets a chance to make progress even if
\* one of the futures consumes the whole budget" (join_then_try.rs:123-125): the
\* others end even if it never does.
NobodyStarves ==
  \A i \in 1 .. MaxBranches :
    <>(i \in Branches \ hungry => futures[i] \in Results \cup {"dropped"})

=============================================================================
