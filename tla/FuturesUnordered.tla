--------------------------- MODULE FuturesUnordered ---------------------------
(***************************************************************************)
(* futures_util's FuturesUnordered, in so far as the adapters can tell:    *)
(* poll_next registers the waker of the task, then polls the futures that  *)
(* are queued, in any order, until one ends; a future that is notified is  *)
(* queued again and wakes the task with the waker registered last.         *)
(***************************************************************************)
EXTENDS Futures

VARIABLE futuresWaker   \* it has kept the waker of a poll

\* The futures in slept were polled and returned Pending.
Polled(slept) == [i \in DOMAIN futures |-> IF i \in slept THEN "waiting" ELSE futures[i]]

\* Poll::Ready(Some(_)).
NextItem(i, result) ==
  /\ i \in Queued
  /\ \E slept \in SUBSET (Fresh \ {i}) : futures' = [Polled(slept) EXCEPT ![i] = result]
  /\ futuresWaker' = TRUE

\* Poll::Pending: no queued future is left, or it gives way to other tasks after
\* it has polled some, and wakes this one at once.
NextPending ==
  /\ InFlight # {}
  /\ \E slept \in SUBSET Fresh :
       /\ slept = Queued \/ slept # {}
       /\ futures' = Polled(slept)
       /\ woken' = (woken \/ slept # Queued)
  /\ futuresWaker' = TRUE

\* Poll::Ready(None).
NextNone ==
  /\ InFlight = {}
  /\ futuresWaker' = TRUE
  /\ UNCHANGED futures

\* What future i waits for happens; a waker is used once.
NotifyQueued(i) ==
  /\ futures[i] = "waiting"
  /\ futures' = [futures EXCEPT ![i] = "notified"]
  /\ futuresWaker' = FALSE
  /\ woken' = (woken \/ futuresWaker)

=============================================================================
