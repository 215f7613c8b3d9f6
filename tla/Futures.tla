-------------------------------- MODULE Futures --------------------------------
(***************************************************************************)
(* The futures that a then_try adapter has to run to their end.            *)
(*                                                                         *)
(* A future is "unborn" until it is made, "fresh" until it is first        *)
(* polled, "waiting" when it returned Pending and "notified" once the      *)
(* event it waits for has woken it; each waits for one event at most.  It  *)
(* ends with a result, or is dropped before it ended.                      *)
(***************************************************************************)
EXTENDS Task

VARIABLE futures   \* what became of each future

FutureStates == {"unborn", "fresh", "waiting", "notified", "dropped"} \cup Results

InFlight == {i \in DOMAIN futures : futures[i] \in {"fresh", "waiting", "notified"}}
Fresh    == {i \in DOMAIN futures : futures[i] = "fresh"}
Queued   == {i \in DOMAIN futures : futures[i] \in {"fresh", "notified"}}
Failed   == {i \in DOMAIN futures : futures[i] = "err"}

\* For the properties: the error of the future listed first among those that failed.
FirstListed(error) == \E i \in Failed : error = Error(i) /\ \A j \in Failed : i <= j

\* Futures that had not ended go with the adapter that owns them.
DropFutures ==
  futures' = [i \in DOMAIN futures |-> IF i \in InFlight THEN "dropped" ELSE futures[i]]

-----------------------------------------------------------------------------
(***************************************************************************)
(* futures_util's MaybeDone: a future, then its result.  Nothing comes     *)
(* between the task and the futures, which keep its waker themselves.      *)
(***************************************************************************)

\* poll() of MaybeDone i returns Pending.
MaybePending(i) ==
  /\ futures[i] \in {"fresh", "waiting"}
  /\ futures' = [futures EXCEPT ![i] = "waiting"]

\* poll() returns Ready(()), at once if it did so before.
MaybeReady(i) ==
  \/ /\ futures[i] \in {"fresh", "notified"}
     /\ \E result \in Results : futures' = [futures EXCEPT ![i] = result]
  \/ /\ futures[i] \in Results
     /\ UNCHANGED futures

\* What future i waits for happens.
NotifyTask(i) ==
  /\ futures[i] = "waiting"
  /\ futures' = [futures EXCEPT ![i] = "notified"]
  /\ woken' = TRUE

=============================================================================
