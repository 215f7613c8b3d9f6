----------------------------- MODULE ForEachProps -----------------------------
(***************************************************************************)
(* The properties of ForEachConcurrentThenTry.                             *)
(***************************************************************************)
EXTENDS ForEachConcurrentThenTry

\* At no time are more than limit futures in flight.
LimitRespected == limit # 0 => Cardinality(InFlight) <= limit

\* "The first error encountered is cached and returned" (try_stream.rs:14-15):
\* first in time, wherever it came from.
FirstErrorReturned ==
  /\ outcome = Running => first_error = IF errors = <<>> THEN NoError ELSE Head(errors)
  /\ outcome \in {Ok} \cup Errors => outcome = IF errors = <<>> THEN Ok ELSE Head(errors)

\* FusedFuture: whoever asks between two polls is told that the future has
\* terminated exactly if it has returned.  A select! never polls a terminated
\* future again, so an early answer would lose the result.
TerminatedMeansReturned ==
  pc = "asleep" /\ outcome # Dropped =>
    ((stream = "none" /\ InFlight = {}) <=> outcome # Running)

\* What has not been run to its end: elements not yielded, futures not finished
\* and the end of the stream, which is element 0.
Left ==
  {i \in Elements : i > taken \/ futures[i] \in {"fresh", "waiting", "notified", "dropped"}}
    \cup (IF stream = "some" THEN {0} ELSE {})

Abstract == INSTANCE ThenTry WITH left <- Left, errors <- {errors[i] : i \in DOMAIN errors}

\* The promise of a then_try adapter: the exit comes after the whole stream and
\* all futures, with an error if there was one.
ImplementsThenTry == Abstract!Spec

\* The stream has yielded an Err.
StreamFailed == \E i \in 1 .. taken : items[i] = "err"

\* Whenever the task sleeps, its futures have been driven as far as they go, the
\* stream too unless there is no room, and whoever is to be notified will wake it.
\* This is so until the stream fails: see RunsToCompletion.
WakeupComing ==
  outcome = Running /\ pc = "asleep" /\ ~woken /\ ~StreamFailed =>
    /\ Queued = {}
    /\ InFlight # {} => futuresWaker
    /\ HasRoom /\ stream = "some" => ~streamReady /\ streamWaker
    /\ InFlight # {} \/ stream = "some"

\* What is still to be done: to take each element and to end the future made of
\* it, and to see the end of the stream.
Work ==
  2 * (Len(items) - taken) + Cardinality(InFlight) + (IF stream = "some" THEN 1 ELSE 0)

\* The steps it takes to find that there is no more to do: after progress one more
\* iteration.
LastSteps ==
  IF pc = "stream" THEN 1
  ELSE IF pc = "futures" /\ made_progress_this_iter THEN 2 ELSE 0

\* The steps a poll has left at most.
StepsLeft == 2 * Work + LastSteps

\* The loop of poll (for_each_concurrent_then_try.rs:78) ends by itself: whatever
\* the stream and the futures answer, each step of it leaves fewer to go, and what
\* other threads do meanwhile does not add to them.
PollsEnd ==
  [][ pc # "asleep" /\ pc' # "asleep" =>
        /\ StepsLeft' >= 0
        /\ IF pc' = pc THEN StepsLeft' = StepsLeft ELSE StepsLeft' < StepsLeft ]_vars

-----------------------------------------------------------------------------
\* A woken task is polled and a poll does not block; what the stream and the
\* futures wait for happens.
FairSpec ==
  /\ Spec
  /\ WF_vars(woken /\ StartPoll)
  /\ WF_vars(Poll)
  /\ WF_vars(Notify)

\* "Runs the stream to completion, then exits" (try_stream.rs:10-11).  At stake
\* is a wakeup: a poll that returns Pending must have left its waker with
\* something that is still to happen.
RunsToCompletion == <>(outcome # Running)

\* It does run to completion, errors of the futures or not, if the stream has none.
RunsToCompletionWithoutErr == <>(outcome # Running \/ StreamFailed)

=============================================================================
