---------------------------- MODULE JoinAllThenTry ----------------------------
(***************************************************************************)
(* The future of join_all_then_try, src/future/join_all_then_try.rs: it    *)
(* polls a few futures one after the other, and collects many with         *)
(* collect_then_try from a FuturesOrdered.                                 *)
(***************************************************************************)
EXTENDS FuturesUnordered, Collecting

CONSTANTS
  MaxFutures,            \* bound on the number of futures
  Hints,                 \* what upper bounds size_hint() may give, {} for None
  SMALL,                 \* as the code's: 30 there
  NO_ATOMIC_CAS,         \* as the build script's: the targets without compare-and-swap
  Targets                \* what TARGET may be when the script runs, {} for unset

ASSUME JoinAllAssumption ==
  /\ MaxFutures \in Nat /\ SMALL \in Nat
  /\ \A hint \in Hints : hint \subseteq Nat

VARIABLES
  kind,      \* "small" or "big"
  elem,      \* small: the element that is polled next, or whose output is taken next
  state,     \* small: FinalState of this poll, "pending" or "alldone"
  results,   \* small: the outputs taken, by number
  yielded    \* big: how many outputs the FuturesOrdered has yielded

smallVars == <<elem, state, results>>
bigVars   == <<collectVars, yielded, futuresWaker>>
vars == <<kind, futures, smallVars, bigVars, pc, woken, outcome>>

Listed  == DOMAIN futures
Numbers == 1 .. MaxFutures
Errors  == {Error(i) : i \in Numbers}

TypeOK ==
  /\ \E n \in 0 .. MaxFutures : futures \in [1 .. n -> FutureStates]
  /\ kind \in {"small", "big"}
  /\ elem \in 1 .. MaxFutures + 1
  /\ state \in {"pending", "alldone"}
  /\ results \in Seq(Numbers)
  /\ yielded \in 0 .. MaxFutures
  /\ items \in Seq(Numbers)
  /\ first_error \in Errors \cup {NoError}
  /\ pc \in {"asleep", "small", "take", "big"}
  /\ outcome \in {Running, Dropped, Panicked} \cup Errors \cup ({"ok"} \X Seq(Numbers))
  /\ {futuresWaker, woken} \subseteq BOOLEAN

StartPoll ==
  /\ Wake(kind)
  /\ elem' = 1
  /\ state' = "alldone"
  /\ UNCHANGED <<kind, futures, results, bigVars>>

-----------------------------------------------------------------------------
(***************************************************************************)
(* A poll of the small kind.                                               *)
(***************************************************************************)

PollElemOrReturn ==    \* mutant: ready!(elem.poll(cx))
  /\ pc = "small"
  /\ elem \in Listed
  /\ \/ MaybePending(elem) /\ state' = "pending" /\ elem' = Len(futures) + 1
     \/ MaybeReady(elem) /\ elem' = elem + 1 /\ UNCHANGED state
  /\ UNCHANGED <<kind, results, bigVars, pc, woken, outcome>>
PollElemForgetting ==    \* mutant: state is that of the last element
  /\ pc = "small"
  /\ elem \in Listed
  /\ \/ MaybePending(elem) /\ state' = "pending"
     \/ MaybeReady(elem) /\ state' = "alldone"
  /\ elem' = elem + 1
  /\ UNCHANGED <<kind, results, bigVars, pc, woken, outcome>>

PollElem ==
  /\ pc = "small"
  /\ elem \in Listed
  /\ \/ MaybePending(elem) /\ state' = "pending"
     \/ MaybeReady(elem) /\ UNCHANGED state
  /\ elem' = elem + 1
  /\ UNCHANGED <<kind, results, bigVars, pc, woken, outcome>>

SmallPending ==
  /\ pc = "small"
  /\ elem \notin Listed /\ state = "pending"
  /\ pc' = "asleep"
  /\ UNCHANGED <<kind, futures, smallVars, bigVars, woken, outcome>>

\* The elements are taken out of the future, and their outputs out of them.
SmallReady ==
  /\ pc = "small"
  /\ elem \notin Listed /\ state = "alldone"
  /\ pc' = "take"
  /\ elem' = 1
  /\ results' = <<>>
  /\ UNCHANGED <<kind, futures, state, bigVars, woken, outcome>>

TakeOk ==
  /\ pc = "take"
  /\ elem \in Listed /\ futures[elem] = "ok"
  /\ results' = Append(results, elem)
  /\ elem' = elem + 1
  /\ UNCHANGED <<kind, futures, state, bigVars, pc, woken, outcome>>

\* An error ends the collecting, and so does an element that has no output.
TakeErr ==
  /\ pc = "take"
  /\ elem \in Listed /\ futures[elem] # "ok"
  /\ outcome' = IF futures[elem] = "err" THEN Error(elem) ELSE Panicked
  /\ pc' = "asleep"
  /\ UNCHANGED <<kind, futures, smallVars, bigVars, woken>>

TakeAll ==
  /\ pc = "take"
  /\ elem \notin Listed
  /\ outcome' = OkWith(results)
  /\ pc' = "asleep"
  /\ UNCHANGED <<kind, futures, smallVars, bigVars, woken>>

-----------------------------------------------------------------------------
(***************************************************************************)
(* A poll of the big kind, CollectThenTry's: the FuturesOrdered keeps an   *)
(* output until it has yielded all that are listed before it.              *)
(***************************************************************************)

BigAsCompleted ==    \* mutant: a FuturesUnordered in place of the FuturesOrdered
  /\ pc = "big"
  /\ yielded < Len(futures)
  /\ \E i \in Queued, result \in Results : NextItem(i, result) /\ Collect(i, result)
  /\ yielded' = yielded + 1
  /\ UNCHANGED <<kind, smallVars, pc, woken>>

\* The output that is next is there.
BigYield ==
  /\ pc = "big"
  /\ yielded < Len(futures)
  /\ futures[yielded + 1] \in Results
  /\ Collect(yielded + 1, futures[yielded + 1])
  /\ yielded' = yielded + 1
  /\ UNCHANGED <<kind, futures, smallVars, futuresWaker, pc, woken>>

\* It is not: the futures are polled.
BigItem ==
  /\ pc = "big"
  /\ yielded < Len(futures)
  /\ futures[yielded + 1] \notin Results
  /\ \E i \in Queued, result \in Results : NextItem(i, result)
  /\ UNCHANGED <<kind, smallVars, collectVars, yielded, pc, woken, outcome>>

BigPending ==
  /\ pc = "big"
  /\ yielded < Len(futures)
  /\ futures[yielded + 1] \notin Results
  /\ NextPending
  /\ pc' = "asleep"
  /\ UNCHANGED <<kind, smallVars, collectVars, yielded, outcome>>

BigReady ==
  /\ pc = "big"
  /\ yielded = Len(futures)
  /\ NextNone
  /\ Exhausted
  /\ pc' = "asleep"
  /\ UNCHANGED <<kind, smallVars, yielded, woken>>

-----------------------------------------------------------------------------
(***************************************************************************)
(* The other threads, and the owner of the future.                         *)
(***************************************************************************)

Notify(i) ==
  /\ outcome = Running
  /\ IF kind = "small" THEN NotifyTask(i) /\ UNCHANGED futuresWaker ELSE NotifyQueued(i)
  /\ UNCHANGED <<kind, smallVars, collectVars, yielded, pc, outcome>>

Drop ==
  /\ Abandon
  /\ DropFutures
  /\ UNCHANGED <<kind, smallVars, bigVars>>

-----------------------------------------------------------------------------

\* The cfg flag the build script gives for a TARGET.
futures_no_atomic_cas(TARGET) == \E target \in TARGET : target \in NO_ATOMIC_CAS

\* join_all_then_try of n futures from an iterator with that upper size hint,
\* which nothing forces to be right.
JoinAll(n, hint, TARGET) ==
  /\ futures = [i \in 1 .. n |-> "fresh"]
  /\ kind = IF futures_no_atomic_cas(TARGET) \/ \E max \in hint : max <= SMALL
            THEN "small" ELSE "big"

Init ==
  /\ \E n \in 0 .. MaxFutures, hint \in Hints, TARGET \in Targets : JoinAll(n, hint, TARGET)
  /\ elem = 1
  /\ state = "alldone"
  /\ results = <<>>
  /\ yielded = 0
  /\ New
  /\ futuresWaker = FALSE
  /\ pc = "asleep"
  /\ woken = TRUE
  /\ outcome = Running

\* The steps of a poll that has started.
Poll ==
  \/ PollElem \/ SmallPending \/ SmallReady \/ TakeOk \/ TakeErr \/ TakeAll
  \/ BigYield \/ BigItem \/ BigPending \/ BigReady

Next == StartPoll \/ Poll \/ (\E i \in Listed : Notify(i)) \/ Drop

Spec == Init /\ [][Next]_vars

=============================================================================
