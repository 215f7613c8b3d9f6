----------------------------- MODULE JoinAllProofs -----------------------------
(***************************************************************************)
(* Proofs about JoinAllThenTry, for any number of futures and both kinds.  *)
(***************************************************************************)
EXTENDS JoinAllProps, TLAPS, SequenceTheorems

-----------------------------------------------------------------------------
(***************************************************************************)
(* Types.                                                                  *)
(***************************************************************************)

\* The outcomes are all different, and an Ok is told by its first component.
LEMMA Distinct ==
  /\ Running # Dropped /\ Running[1] # "ok" /\ Dropped[1] # "ok"
  /\ Panicked # Running /\ Panicked # Dropped
  /\ \A i : /\ Error(i) # Running /\ Error(i) # Dropped /\ Error(i) # NoError
            /\ Error(i)[1] # "ok"
  /\ \A c : /\ OkWith(c) # Running /\ OkWith(c) # Dropped /\ OkWith(c)[1] = "ok"
  /\ \A i, j : Error(i) = Error(j) => i = j
BY DEF Running, Dropped, Panicked, Error, NoError, OkWith

\* The futures are numbered from 1, and there are at most MaxFutures.
LEMMA ListedType ==
  ASSUME TypeOK
  PROVE  /\ Len(futures) \in 0 .. MaxFutures /\ Len(futures) \in Nat /\ MaxFutures \in Nat
         /\ Listed = 1 .. Len(futures)
         /\ futures \in [Listed -> FutureStates]
         /\ yielded \in Nat
         /\ \A i \in Listed : i \in Numbers /\ Error(i) \in Errors
<1>1. PICK n \in 0 .. MaxFutures : futures \in [1 .. n -> FutureStates]
  BY DEF TypeOK
<1>2. Len(futures) = n /\ n \in Nat /\ Listed = 1 .. n
  BY <1>1, JoinAllAssumption DEF Listed
<1>3. \A i \in Listed : i \in Numbers
  BY <1>2, JoinAllAssumption DEF Numbers
<1> QED BY <1>1, <1>2, <1>3, JoinAllAssumption DEF Errors, TypeOK

\* No step adds or removes a future, and a result is for good.
LEMMA FuturesStep ==
  ASSUME TypeOK, [Next]_vars
  PROVE  /\ futures' \in [Listed -> FutureStates]
         /\ Listed' = Listed /\ Len(futures') = Len(futures)
         /\ \A i \in Listed : futures[i] \in Results => futures'[i] = futures[i]
<1> DEFINE Kept == /\ futures' \in [Listed -> FutureStates]
                   /\ \A i \in Listed : futures[i] \in Results => futures'[i] = futures[i]
<1>1. Kept
  <2>0. futures \in [Listed -> FutureStates] /\ DOMAIN futures = Listed
    BY ListedType DEF Listed
  <2>1. CASE UNCHANGED futures
    BY <2>0, <2>1
  <2>2. CASE PollElem
    BY <2>0, <2>2 DEF PollElem, MaybePending, MaybeReady, FutureStates, Results
  <2>3. CASE BigItem
    <3>1. PICK i \in Queued, result \in Results : NextItem(i, result)
      BY <2>3 DEF BigItem
    <3>2. PICK slept \in SUBSET (Fresh \ {i}) : futures' = [Polled(slept) EXCEPT ![i] = result]
      BY <3>1 DEF NextItem
    <3>3. Polled(slept) \in [Listed -> FutureStates]
      BY <2>0 DEF Polled, FutureStates
    <3>4. \A j \in Listed : futures[j] \in Results => j # i /\ j \notin slept
      BY <3>2 DEF Fresh, Queued, Results
    <3> QED BY <2>0, <3>1, <3>2, <3>3, <3>4 DEF Polled, FutureStates
  <2>4. CASE BigPending
    BY <2>0, <2>4 DEF BigPending, NextPending, Polled, Fresh, FutureStates, Results
  <2>5. ASSUME NEW i \in Listed, Notify(i) PROVE Kept
    BY <2>0, <2>5 DEF Notify, NotifyTask, NotifyQueued, FutureStates, Results
  <2>6. CASE Drop
    BY <2>0, <2>6 DEF Drop, DropFutures, InFlight, FutureStates, Results
  <2> QED
    BY <2>1, <2>2, <2>3, <2>4, <2>5, <2>6
       DEF Next, Poll, StartPoll, SmallPending, SmallReady, TakeOk, TakeErr, TakeAll,
           BigYield, BigReady, NextNone, vars
<1>2. Listed' = Listed
  BY <1>1 DEF Listed
<1>3. Len(futures') = Len(futures)
  BY <1>1, ListedType
<1> QED BY <1>1, <1>2, <1>3

LEMMA InitType == Init => TypeOK
<1> SUFFICES ASSUME Init PROVE TypeOK
  OBVIOUS
<1>1. PICK n \in 0 .. MaxFutures : /\ futures = [i \in 1 .. n |-> "fresh"]
                                   /\ kind \in {"small", "big"}
  BY DEF Init, JoinAll
<1>2. futures \in [1 .. n -> FutureStates]
  BY <1>1 DEF FutureStates
<1>3. items \in Seq(Numbers) /\ results \in Seq(Numbers) /\ first_error = NoError
  BY EmptySeq DEF Init, New
<1>4. elem \in 1 .. MaxFutures + 1 /\ yielded \in 0 .. MaxFutures
  BY JoinAllAssumption DEF Init
<1>5. {futuresWaker, woken} \subseteq BOOLEAN
  BY DEF Init
<1> QED BY <1>1, <1>2, <1>3, <1>4, <1>5 DEF Init, TypeOK

LEMMA TypeStep == TypeOK /\ [Next]_vars => TypeOK'
<1> SUFFICES ASSUME TypeOK, [Next]_vars PROVE TypeOK'
  OBVIOUS
<1> USE DEF smallVars, bigVars, collectVars
<1>1. \E n \in 0 .. MaxFutures : futures' \in [1 .. n -> FutureStates]
  BY FuturesStep, ListedType
<1> DEFINE Rest ==
      /\ kind' \in {"small", "big"}
      /\ elem' \in 1 .. MaxFutures + 1
      /\ state' \in {"pending", "alldone"}
      /\ results' \in Seq(Numbers)
      /\ yielded' \in 0 .. MaxFutures
      /\ items' \in Seq(Numbers)
      /\ first_error' \in Errors \cup {NoError}
      /\ pc' \in {"asleep", "small", "take", "big"}
      /\ outcome' \in {Running, Dropped, Panicked} \cup Errors \cup ({"ok"} \X Seq(Numbers))
      /\ futuresWaker' \in BOOLEAN /\ woken' \in BOOLEAN
<1>2. CASE StartPoll
  <2>1. 1 \in 1 .. MaxFutures + 1
    BY JoinAllAssumption
  <2>2. Rest
    BY <1>2, <2>1 DEF StartPoll, Wake, TypeOK
  <2> QED BY <1>1, <2>2 DEF TypeOK
<1>3. CASE PollElem
  <2>1. elem + 1 \in 1 .. MaxFutures + 1
    BY <1>3, ListedType DEF PollElem
  <2>2. Rest
    BY <1>3, <2>1 DEF PollElem, TypeOK
  <2> QED BY <1>1, <2>2 DEF TypeOK
<1>4. CASE SmallPending
  <2>1. Rest
    BY <1>4 DEF SmallPending, TypeOK
  <2> QED BY <1>1, <2>1 DEF TypeOK
<1>5. CASE SmallReady
  <2>1. 1 \in 1 .. MaxFutures + 1 /\ <<>> \in Seq(Numbers)
    BY JoinAllAssumption, EmptySeq
  <2>2. Rest
    BY <1>5, <2>1 DEF SmallReady, TypeOK
  <2> QED BY <1>1, <2>2 DEF TypeOK
<1>12. CASE TakeOk
  <2>1. elem + 1 \in 1 .. MaxFutures + 1 /\ elem \in Numbers
    BY <1>12, ListedType DEF TakeOk
  <2>2. Append(results, elem) \in Seq(Numbers)
    BY <2>1, AppendProperties DEF TypeOK
  <2>3. Rest
    BY <1>12, <2>1, <2>2 DEF TakeOk, TypeOK
  <2> QED BY <1>1, <2>3 DEF TypeOK
<1>13. CASE TakeErr \/ TakeAll
  <2>1. elem \in Listed => Error(elem) \in Errors
    BY ListedType
  <2>2. OkWith(results) \in {"ok"} \X Seq(Numbers)
    BY DEF OkWith, TypeOK
  <2>3. outcome' \in {Panicked} \cup Errors \cup ({"ok"} \X Seq(Numbers))
    BY <1>13, <2>1, <2>2 DEF TakeErr, TakeAll
  <2>4. Rest
    BY <1>13, <2>3 DEF TakeErr, TakeAll, TypeOK
  <2> QED BY <1>1, <2>4 DEF TypeOK
<1>6. CASE BigYield
  <2>1. yielded + 1 \in Listed /\ yielded + 1 \in 0 .. MaxFutures
    BY <1>6, ListedType DEF BigYield
  <2>2. yielded + 1 \in Numbers /\ Error(yielded + 1) \in Errors
    BY <2>1, ListedType
  <2>3. Append(items, yielded + 1) \in Seq(Numbers)
    BY <2>2, AppendProperties DEF TypeOK
  <2>4. items' \in Seq(Numbers) /\ first_error' \in Errors \cup {NoError} /\ outcome' = outcome
    BY <1>6, <2>2, <2>3 DEF BigYield, Collect, TypeOK
  <2>5. Rest
    BY <1>6, <2>1, <2>4 DEF BigYield, TypeOK
  <2> QED BY <1>1, <2>5 DEF TypeOK
<1>7. CASE BigItem \/ BigPending
  <2>1. futuresWaker' = TRUE /\ woken' \in BOOLEAN
    BY <1>7 DEF BigItem, NextItem, BigPending, NextPending, TypeOK
  <2>2. Rest
    BY <1>7, <2>1 DEF BigItem, BigPending, TypeOK
  <2> QED BY <1>1, <2>2 DEF TypeOK
<1>8. CASE BigReady
  <2>1. items \in Seq(Numbers) /\ <<>> \in Seq(Numbers) /\ first_error \in Errors \cup {NoError}
    BY EmptySeq DEF TypeOK
  <2>2. OkWith(items) \in {"ok"} \X Seq(Numbers)
    BY <2>1 DEF OkWith
  <2>3. /\ items' \in Seq(Numbers) /\ first_error' \in Errors \cup {NoError}
        /\ outcome' \in Errors \cup ({"ok"} \X Seq(Numbers))
    BY <1>8, <2>1, <2>2 DEF BigReady, Exhausted
  <2>4. Rest
    BY <1>8, <2>3 DEF BigReady, NextNone, TypeOK
  <2> QED BY <1>1, <2>4 DEF TypeOK
<1>9. ASSUME NEW i \in Listed, Notify(i) PROVE TypeOK'
  <2>1. futuresWaker' \in BOOLEAN /\ woken' \in BOOLEAN
    BY <1>9 DEF Notify, NotifyTask, NotifyQueued, TypeOK
  <2>2. Rest
    BY <1>9, <2>1 DEF Notify, TypeOK
  <2> QED BY <1>1, <2>2 DEF TypeOK
<1>10. CASE Drop
  <2>1. Rest
    BY <1>10 DEF Drop, Abandon, TypeOK
  <2> QED BY <1>1, <2>1 DEF TypeOK
<1>11. CASE UNCHANGED vars
  BY <1>11 DEF vars, TypeOK
<1> QED
  BY <1>2, <1>3, <1>4, <1>5, <1>6, <1>7, <1>8, <1>9, <1>10, <1>11, <1>12, <1>13 DEF Next, Poll

\* Every variable keeps its type.
THEOREM TypeCorrect == Spec => []TypeOK
<1>1. Init => TypeOK
  BY InitType
<1>2. TypeOK /\ [Next]_vars => TypeOK'
  BY TypeStep
<1> QED BY <1>1, <1>2, PTL DEF Spec

-----------------------------------------------------------------------------
(***************************************************************************)
(* The result.                                                             *)
(***************************************************************************)

\* Nobody but the owner drops a future, who then polls no more.  The poll is of the
\* kind that was chosen; what it has passed as done has ended, and all have when
\* outputs are taken.
PollInv ==
  /\ pc # "asleep" => outcome = Running /\ kind = IF pc = "big" THEN "big" ELSE "small"
  /\ outcome = Running => \A i \in Listed : futures[i] \in Results \/ i \in InFlight
  /\ pc = "small" /\ state = "alldone" => \A i \in Listed : i < elem => futures[i] \in Results
  /\ pc = "take" => \A i \in Listed : futures[i] \in Results

\* What the small kind has taken is the outputs of those before elem, all of them Ok.
TakeInv ==
  pc = "take" =>
    /\ elem <= Len(futures) + 1
    /\ results = [i \in 1 .. elem - 1 |-> i]
    /\ \A i \in Listed : i < elem => futures[i] = "ok"

\* What the big kind holds is what the FuturesOrdered has yielded, in its order: all
\* outputs, or the error listed first.
YieldInv ==
  kind = "big" /\ outcome = Running =>
    /\ yielded <= Len(futures)
    /\ \A i \in 1 .. yielded : futures[i] \in Results
    /\ first_error = NoError =>
         /\ items = [i \in 1 .. yielded |-> i]
         /\ \A i \in 1 .. yielded : futures[i] = "ok"
    /\ first_error # NoError =>
         \E i \in 1 .. yielded :
           /\ first_error = Error(i) /\ futures[i] = "err"
           /\ \A j \in 1 .. yielded : futures[j] = "err" => i <= j

JoinInv == PollInv /\ TakeInv /\ YieldInv /\ SameResult

\* One more number at the end of the numbers before it.
LEMMA CountOn ==
  ASSUME NEW n \in Nat, NEW s \in Seq(Numbers), s = [i \in 1 .. n |-> i], n + 1 \in Numbers
  PROVE  Append(s, n + 1) = [i \in 1 .. n + 1 |-> i]
<1>1. Len(s) = n
  <2>1. DOMAIN s = 1 .. n /\ DOMAIN s = 1 .. Len(s) /\ Len(s) \in Nat
    BY LenProperties
  <2> QED BY <2>1
<1> DEFINE t == Append(s, n + 1)
<1>2. /\ t \in Seq(Numbers) /\ Len(t) = n + 1
      /\ \A i \in 1 .. n : t[i] = s[i]
      /\ t[n + 1] = n + 1
  BY <1>1, AppendProperties
<1> HIDE DEF t
<1>3. ASSUME NEW i \in 1 .. n + 1 PROVE t[i] = i
  <2>1. CASE i = n + 1
    BY <1>2, <2>1
  <2>2. CASE i # n + 1
    <3>1. i \in 1 .. n
      BY <2>2
    <3> QED BY <1>2, <3>1
  <2> QED BY <2>1, <2>2
<1>4. t \in [1 .. n + 1 -> Numbers]
  BY <1>2, LenProperties
<1>5. t = [i \in 1 .. n + 1 |-> i]
  BY <1>3, <1>4
<1> QED BY <1>5 DEF t

LEMMA JoinInit == Init => JoinInv
<1> SUFFICES ASSUME Init PROVE JoinInv
  OBVIOUS
<1>1. PICK n \in 0 .. MaxFutures : futures = [i \in 1 .. n |-> "fresh"]
  BY DEF Init, JoinAll
<1>2. Listed = 1 .. n /\ \A i \in Listed : i \in InFlight
  BY <1>1 DEF Listed, InFlight
<1>3. PollInv
  BY <1>2 DEF Init, PollInv
<1>4. Len(futures) \in Nat
  BY <1>1, JoinAllAssumption
<1>5. items = [i \in 1 .. yielded |-> i] /\ 1 .. yielded = {}
  BY DEF Init, New
<1>6. YieldInv
  BY <1>4, <1>5 DEF Init, New, YieldInv
<1> QED BY <1>3, <1>6 DEF Init, JoinInv, TakeInv, SameResult

\* A step that ends nothing and yields nothing.
LEMMA GoOn ==
  ASSUME TypeOK, JoinInv, [Next]_vars, outcome' = outcome,
         UNCHANGED <<kind, collectVars, yielded>>
  PROVE  YieldInv' /\ (outcome = Running => SameResult')
<1>1. YieldInv'
  <2> SUFFICES ASSUME kind = "big", outcome = Running PROVE YieldInv'
    BY DEF YieldInv
  <2>1. \A i \in 1 .. yielded : i \in Listed /\ futures[i] \in Results
    BY ListedType DEF JoinInv, YieldInv
  <2>2. \A i \in 1 .. yielded : futures'[i] = futures[i]
    BY <2>1, FuturesStep
  <2>3. Len(futures') = Len(futures) /\ yielded' = yielded /\ items' = items
        /\ first_error' = first_error
    BY FuturesStep DEF collectVars
  <2> QED BY <2>2, <2>3 DEF JoinInv, YieldInv
<1>2. outcome = Running => SameResult'
  BY DEF SameResult
<1> QED BY <1>1, <1>2

\* A future keeps its place among those that ended or are in flight.
LEMMA StaysInFlight ==
  ASSUME TypeOK, PollInv, outcome = Running, [Next]_vars, ~Drop
  PROVE  \A i \in Listed : futures'[i] \in Results \/ i \in InFlight'
<1>0. futures \in [Listed -> FutureStates] /\ DOMAIN futures = Listed /\ DOMAIN futures' = Listed
      /\ \A i \in Listed : futures[i] \in Results \/ i \in InFlight
  BY ListedType, FuturesStep DEF Listed, PollInv
<1> DEFINE Stays == \A i \in Listed : futures'[i] \in Results \cup {"fresh", "waiting", "notified"}
<1>1. \A i \in Listed : futures[i] \in Results \cup {"fresh", "waiting", "notified"}
  BY <1>0 DEF InFlight
<1>2. CASE UNCHANGED futures
  BY <1>0, <1>2 DEF InFlight
<1>3. CASE PollElem
  <2>1. Stays
    BY <1>0, <1>1, <1>3 DEF PollElem, MaybePending, MaybeReady
  <2> QED BY <1>0, <2>1 DEF InFlight
<1>4. CASE BigItem
  <2>1. PICK i \in Queued, result \in Results : NextItem(i, result)
    BY <1>4 DEF BigItem
  <2>2. PICK slept \in SUBSET (Fresh \ {i}) : futures' = [Polled(slept) EXCEPT ![i] = result]
    BY <2>1 DEF NextItem
  <2>3. \A j \in Listed : Polled(slept)[j] \in Results \cup {"fresh", "waiting", "notified"}
    BY <1>0, <1>1 DEF Polled
  <2>4. Stays
    BY <1>0, <2>1, <2>2, <2>3 DEF Polled
  <2> QED BY <1>0, <2>4 DEF InFlight
<1>5. CASE BigPending
  <2>1. Stays
    BY <1>0, <1>1, <1>5 DEF BigPending, NextPending, Polled
  <2> QED BY <1>0, <2>1 DEF InFlight
<1>6. ASSUME NEW i \in Listed, Notify(i)
      PROVE  \A j \in Listed : futures'[j] \in Results \/ j \in InFlight'
  <2>1. Stays
    BY <1>0, <1>1, <1>6 DEF Notify, NotifyTask, NotifyQueued
  <2> QED BY <1>0, <2>1 DEF InFlight
<1> QED
  BY <1>2, <1>3, <1>4, <1>5, <1>6
     DEF Next, Poll, StartPoll, SmallPending, SmallReady, TakeOk, TakeErr, TakeAll,
         BigYield, BigReady, NextNone, vars

LEMMA PollStep == TypeOK /\ PollInv /\ [Next]_vars => PollInv'
<1> SUFFICES ASSUME TypeOK, PollInv, [Next]_vars PROVE PollInv'
  OBVIOUS
<1> USE DEF smallVars, bigVars, collectVars
<1>0. /\ Listed' = Listed /\ Listed = 1 .. Len(futures) /\ Len(futures) \in Nat
      /\ futures \in [Listed -> FutureStates]
      /\ \A i \in Listed : futures[i] \in Results => futures'[i] \in Results
  BY FuturesStep, ListedType
<1>1. outcome' = Running => \A i \in Listed' : futures'[i] \in Results \/ i \in InFlight'
  <2>1. CASE Drop
    BY <2>1, Distinct DEF Drop, Abandon
  <2>2. CASE UNCHANGED vars
    BY <2>2 DEF vars, PollInv, InFlight, Listed
  <2>3. CASE Next /\ ~Drop
    <3>1. outcome = Running
      BY <2>3 DEF Next, Poll, StartPoll, Wake, PollElem, SmallPending, SmallReady, TakeOk, TakeErr,
           TakeAll, BigYield, BigItem, BigPending, BigReady, Notify, PollInv
    <3> QED BY <1>0, <3>1, <2>3, StaysInFlight
  <2> QED BY <2>1, <2>2, <2>3
<1> DEFINE Passed ==
      /\ pc' # "asleep" => outcome' = Running /\ kind' = IF pc' = "big" THEN "big" ELSE "small"
      /\ pc' = "small" /\ state' = "alldone" => \A i \in Listed : i < elem' => futures'[i] \in Results
      /\ pc' = "take" => \A i \in Listed : futures'[i] \in Results
<1>2. Passed
  <2>1. CASE StartPoll
    BY <1>0, <2>1 DEF StartPoll, Wake, TypeOK
  <2>2. CASE PollElem
    <3>1. pc = "small" /\ elem \in Listed /\ elem' = elem + 1 /\ UNCHANGED <<kind, pc, outcome>>
      BY <2>2 DEF PollElem
    <3>2. state' = "alldone" => state = "alldone" /\ futures'[elem] \in Results
      BY <1>0, <2>2 DEF PollElem, MaybeReady, Results, TypeOK
    <3>3. \A i \in Listed : i < elem + 1 => i < elem \/ i = elem
      BY <1>0, <3>1
    <3> QED BY <1>0, <3>1, <3>2, <3>3 DEF PollInv
  <2>3. CASE SmallPending \/ TakeErr \/ TakeAll \/ BigPending \/ BigReady
    BY <2>3 DEF SmallPending, TakeErr, TakeAll, BigPending, BigReady
  <2>7. CASE SmallReady
    <3>1. /\ pc = "small" /\ elem \notin Listed /\ state = "alldone"
          /\ pc' = "take" /\ UNCHANGED <<kind, outcome>>
      BY <2>7 DEF SmallReady
    <3>2. \A i \in Listed : i < elem
      BY <1>0, <3>1 DEF TypeOK
    <3> QED BY <1>0, <3>1, <3>2 DEF PollInv
  <2>8. CASE TakeOk
    BY <1>0, <2>8 DEF TakeOk, PollInv
  <2>4. CASE BigYield \/ BigItem
    BY <2>4 DEF BigYield, BigItem, Collect, PollInv
  <2>5. ASSUME UNCHANGED <<kind, elem, state, pc, outcome>>
        PROVE  Passed
    BY <1>0, <2>5 DEF PollInv
  <2>6. CASE Drop
    BY <2>6 DEF Drop, Abandon
  <2> QED BY <2>1, <2>2, <2>3, <2>4, <2>5, <2>6, <2>7, <2>8 DEF Next, Poll, Notify, vars
<1> QED BY <1>0, <1>1, <1>2 DEF PollInv

LEMMA TakeStep == TypeOK /\ PollInv /\ TakeInv /\ [Next]_vars => TakeInv'
<1> SUFFICES ASSUME TypeOK, PollInv, TakeInv, [Next]_vars, pc' = "take" PROVE TakeInv'
  BY DEF TakeInv
<1> USE DEF smallVars, bigVars, collectVars
<1>0. /\ Listed' = Listed /\ Listed = 1 .. Len(futures) /\ Len(futures) \in Nat
      /\ \A i \in Listed : futures[i] \in Results => futures'[i] = futures[i]
  BY FuturesStep, ListedType
<1>1. CASE SmallReady
  <2>1. results' = <<>> /\ elem' = 1
    BY <1>1 DEF SmallReady
  <2>2. results' = [i \in 1 .. elem' - 1 |-> i] /\ \A i \in Listed : ~(i < elem')
    BY <1>0, <2>1
  <2>3. elem' <= Len(futures') + 1
    BY <1>0, <2>1, FuturesStep
  <2> QED BY <1>0, <2>2, <2>3 DEF TakeInv
<1>2. CASE TakeOk
  <2>1. /\ pc = "take" /\ elem \in Listed /\ futures[elem] = "ok" /\ UNCHANGED futures
        /\ results' = Append(results, elem) /\ elem' = elem + 1
    BY <1>2 DEF TakeOk
  <2>2. /\ elem - 1 \in Nat /\ elem - 1 + 1 = elem /\ elem + 1 - 1 = elem /\ elem \in Numbers
        /\ \A i \in Listed : i < elem + 1 => i < elem \/ i = elem
    BY <1>0, <2>1, ListedType
  <2>3. Append(results, elem) = [i \in 1 .. elem |-> i]
    <3>1. results \in Seq(Numbers) /\ results = [i \in 1 .. elem - 1 |-> i]
      BY <2>1 DEF TypeOK, TakeInv
    <3>2. Append(results, elem - 1 + 1) = [i \in 1 .. elem - 1 + 1 |-> i]
      BY <2>2, <3>1, CountOn
    <3> QED BY <2>2, <3>2
  <2>4. \A i \in Listed : i < elem' => futures'[i] = "ok"
    BY <2>1, <2>2 DEF TakeInv
  <2>5. elem' <= Len(futures') + 1
    BY <1>0, <2>1, FuturesStep
  <2> QED BY <1>0, <2>1, <2>2, <2>3, <2>4, <2>5 DEF TakeInv
<1>3. ASSUME pc = "take", UNCHANGED <<elem, results>> PROVE TakeInv'
  <2>1. \A i \in Listed : futures'[i] = futures[i]
    BY <1>0, <1>3 DEF PollInv
  <2> QED BY <1>0, <1>3, <2>1, FuturesStep DEF TakeInv
<1>4. CASE UNCHANGED vars
  BY <1>3, <1>4 DEF vars
<1>5. ASSUME NEW i \in Listed, Notify(i) PROVE TakeInv'
  BY <1>3, <1>5 DEF Notify
<1> QED
  BY <1>1, <1>2, <1>4, <1>5 DEF Next, Poll, StartPoll, Wake, TypeOK, PollElem, SmallPending,
     TakeErr, TakeAll, BigYield, BigItem, BigPending, BigReady, Drop, Abandon

LEMMA YieldStep ==
  ASSUME TypeOK, JoinInv, BigYield
  PROVE  YieldInv' /\ SameResult'
<1> DEFINE n == yielded + 1
<1>1. /\ outcome = Running /\ outcome' = Running /\ kind = "big" /\ n \in Listed /\ yielded \in Nat
      /\ futures[n] \in {"ok", "err"} /\ Collect(n, futures[n])
      /\ yielded' = n /\ UNCHANGED <<kind, futures>> /\ n <= Len(futures)
  BY ListedType DEF BigYield, JoinInv, PollInv, Collect, Results
<1>2. n \in Numbers /\ Error(n) # NoError
  BY <1>1, ListedType, Distinct
<1>3. /\ \A i \in 1 .. yielded : futures[i] \in Results
      /\ first_error = NoError =>
           /\ items = [i \in 1 .. yielded |-> i]
           /\ \A i \in 1 .. yielded : futures[i] = "ok"
      /\ first_error # NoError =>
           \E i \in 1 .. yielded :
             /\ first_error = Error(i) /\ futures[i] = "err"
             /\ \A j \in 1 .. yielded : futures[j] = "err" => i <= j
  BY <1>1 DEF JoinInv, YieldInv
<1>4. \A i \in 1 .. n : i \in 1 .. yielded \/ i = n
  BY <1>1
<1>5. \A i \in 1 .. n : futures[i] \in Results
  BY <1>1, <1>3, <1>4 DEF Results
<1>6. CASE first_error = NoError /\ futures[n] = "ok"
  <2>1. items' = Append(items, n) /\ first_error' = NoError
    BY <1>1, <1>6 DEF Collect
  <2>2. items' = [i \in 1 .. n |-> i]
    BY <1>1, <1>2, <1>3, <1>6, <2>1, CountOn DEF TypeOK
  <2>3. \A i \in 1 .. n : futures[i] = "ok"
    BY <1>3, <1>4, <1>6
  <2> QED BY <1>1, <1>5, <2>1, <2>2, <2>3 DEF YieldInv, SameResult
<1>7. CASE first_error = NoError /\ futures[n] = "err"
  <2>1. first_error' = Error(n) /\ n \in 1 .. n
    BY <1>1, <1>7 DEF Collect
  <2>2. \A j \in 1 .. n : futures[j] = "err" => n <= j
    BY <1>1, <1>3, <1>4, <1>7
  <2>3. first_error' # NoError
    BY <1>2, <2>1
  <2> QED BY <1>1, <1>5, <1>7, <2>1, <2>2, <2>3 DEF YieldInv, SameResult
<1>8. CASE first_error # NoError
  <2>1. PICK i \in 1 .. yielded : /\ first_error = Error(i) /\ futures[i] = "err"
                                  /\ \A j \in 1 .. yielded : futures[j] = "err" => i <= j
    BY <1>3, <1>8
  <2>2. first_error' = first_error
    BY <1>1, <1>8 DEF Collect
  <2>3. i \in 1 .. n /\ \A j \in 1 .. n : futures[j] = "err" => i <= j
    BY <1>1, <1>4, <2>1
  <2> QED BY <1>1, <1>5, <1>8, <2>1, <2>2, <2>3 DEF YieldInv, SameResult
<1> QED BY <1>1, <1>6, <1>7, <1>8

LEMMA BigResult ==
  ASSUME TypeOK, JoinInv, BigReady
  PROVE  YieldInv' /\ SameResult'
<1>1. /\ outcome = Running /\ kind = "big" /\ yielded = Len(futures) /\ Listed = 1 .. yielded
      /\ futures' = futures /\ Listed' = Listed /\ Failed' = Failed
  BY ListedType DEF BigReady, NextNone, JoinInv, PollInv, Listed, Failed
<1>2. CASE first_error = NoError
  <2>1. outcome' = OkWith(items) /\ items = [i \in Listed |-> i]
    BY <1>1, <1>2 DEF BigReady, Exhausted, JoinInv, YieldInv
  <2>2. Failed = {}
    BY <1>1, <1>2 DEF JoinInv, YieldInv, Failed, Listed
  <2>3. outcome' # Running
    BY <2>1, Distinct
  <2> QED BY <1>1, <2>1, <2>2, <2>3 DEF YieldInv, SameResult
<1>3. CASE first_error # NoError
  <2>1. PICK i \in 1 .. yielded : /\ first_error = Error(i) /\ futures[i] = "err"
                                  /\ \A j \in 1 .. yielded : futures[j] = "err" => i <= j
    BY <1>1, <1>3 DEF JoinInv, YieldInv
  <2>2. outcome' = Error(i)
    BY <1>3, <2>1 DEF BigReady, Exhausted
  <2>3. i \in Failed /\ \A j \in Failed : i <= j
    BY <1>1, <2>1 DEF Failed, Listed
  <2>4. outcome' # Running
    BY <2>2, Distinct
  <2> QED BY <1>1, <2>2, <2>3, <2>4 DEF YieldInv, SameResult, FirstListed
<1> QED BY <1>2, <1>3

\* The first that is not Ok was reached with all before it taken.
LEMMA ErrTaken ==
  ASSUME TypeOK, JoinInv, TakeErr
  PROVE  YieldInv' /\ SameResult'
<1>1. /\ kind = "small" /\ UNCHANGED <<kind, futures>> /\ elem \in Listed
      /\ futures[elem] # "ok" /\ futures[elem] \in Results
      /\ outcome' = IF futures[elem] = "err" THEN Error(elem) ELSE Panicked
      /\ \A i \in Listed : i < elem => futures[i] = "ok"
  BY DEF TakeErr, JoinInv, PollInv, TakeInv
<1>2. Failed' = Failed /\ Failed \subseteq Listed
  BY <1>1 DEF Failed, Listed
<1>3. elem \in Failed /\ outcome' = Error(elem)
  BY <1>1 DEF Failed, Listed, Results
<1>4. \A j \in Failed : elem <= j
  BY <1>1, <1>2, ListedType DEF Failed
<1> QED BY <1>1, <1>2, <1>3, <1>4 DEF YieldInv, SameResult, FirstListed

\* The last was taken, and all were Ok.
LEMMA AllTaken ==
  ASSUME TypeOK, JoinInv, TakeAll
  PROVE  YieldInv' /\ SameResult'
<1>1. /\ kind = "small" /\ UNCHANGED <<kind, futures>> /\ elem \notin Listed
      /\ outcome' = OkWith(results) /\ results = [i \in 1 .. elem - 1 |-> i]
      /\ elem <= Len(futures) + 1
      /\ \A i \in Listed : i < elem => futures[i] = "ok"
  BY DEF TakeAll, JoinInv, PollInv, TakeInv
<1>2. \A i \in Listed : i < elem
  BY <1>1, ListedType DEF TypeOK
<1>3. elem = Len(futures) + 1
  BY <1>1, ListedType DEF TypeOK
<1>4. Listed' = Listed /\ Failed' = {}
  BY <1>1, <1>2 DEF Failed, Listed
<1>5. results = [i \in Listed |-> i]
  BY <1>1, <1>3, ListedType
<1> QED BY <1>1, <1>4, <1>5 DEF YieldInv, SameResult

LEMMA JoinStep == TypeOK /\ JoinInv /\ [Next]_vars => JoinInv'
<1> SUFFICES ASSUME TypeOK, JoinInv, [Next]_vars PROVE YieldInv' /\ SameResult'
  BY PollStep, TakeStep DEF JoinInv
<1> USE DEF smallVars, bigVars
<1>1. CASE StartPoll \/ PollElem \/ SmallPending \/ SmallReady \/ TakeOk \/ BigItem \/ BigPending
  <2>1. outcome = Running /\ outcome' = outcome /\ UNCHANGED <<kind, collectVars, yielded>>
    BY <1>1 DEF StartPoll, Wake, PollElem, SmallPending, SmallReady, TakeOk, BigItem, BigPending,
         JoinInv, PollInv
  <2> QED BY <2>1, GoOn
<1>2. ASSUME NEW i \in Listed, Notify(i) PROVE YieldInv' /\ SameResult'
  <2>1. outcome = Running /\ outcome' = outcome /\ UNCHANGED <<kind, collectVars, yielded>>
    BY <1>2 DEF Notify
  <2> QED BY <2>1, GoOn
<1>3. CASE TakeErr
  BY <1>3, ErrTaken
<1>8. CASE TakeAll
  BY <1>8, AllTaken
<1>4. CASE BigYield
  BY <1>4, YieldStep
<1>5. CASE BigReady
  BY <1>5, BigResult
<1>6. CASE Drop
  <2>1. outcome' = Dropped
    BY <1>6 DEF Drop, Abandon
  <2> QED BY <2>1, Distinct DEF YieldInv, SameResult
<1>7. CASE UNCHANGED vars
  BY <1>7 DEF vars, collectVars, JoinInv, YieldInv, SameResult, Listed, Failed, FirstListed
<1> QED
  BY <1>1, <1>2, <1>3, <1>4, <1>5, <1>6, <1>7, <1>8 DEF Next, Poll

LEMMA JoinInvariant == Spec => [](TypeOK /\ JoinInv)
<1>1. Init => TypeOK /\ JoinInv
  BY InitType, JoinInit
<1>2. TypeOK /\ JoinInv /\ [Next]_vars => TypeOK' /\ JoinInv'
  BY TypeStep, JoinStep
<1> QED BY <1>1, <1>2, PTL DEF Spec

\* Both kinds return the same: all outputs in order, or the error listed first.
THEOREM SameResultCorrect == Spec => []SameResult
<1>1. JoinInv => SameResult
  BY DEF JoinInv
<1> QED BY <1>1, JoinInvariant, PTL

-----------------------------------------------------------------------------
(***************************************************************************)
(* The wakeup.                                                             *)
(***************************************************************************)

\* The small kind has driven what it has passed, or a notification came since; the
\* big kind has left the FuturesOrdered only when nothing in it is queued.
WakeInv ==
  /\ kind = "small" /\ pc = "small" =>
       /\ woken \/ \A i \in Listed : i < elem => i \notin Queued
       /\ state = "pending" => \E i \in Listed : i < elem /\ i \in InFlight
  /\ outcome = Running /\ pc = "asleep" =>
       woken \/ (InFlight # {} /\ Queued = {} /\ (kind = "big" => futuresWaker))

LEMMA WakeStep == TypeOK /\ PollInv /\ WakeInv /\ [Next]_vars => WakeInv'
<1> SUFFICES ASSUME TypeOK, PollInv, WakeInv, [Next]_vars PROVE WakeInv'
  OBVIOUS
<1> USE DEF smallVars, bigVars, collectVars
<1>0. /\ Listed' = Listed /\ Listed = 1 .. Len(futures) /\ Len(futures) \in Nat
      /\ futures \in [Listed -> FutureStates] /\ DOMAIN futures = Listed /\ DOMAIN futures' = Listed
      /\ InFlight = {i \in Listed : futures[i] \in {"fresh", "waiting", "notified"}}
      /\ InFlight' = {i \in Listed : futures'[i] \in {"fresh", "waiting", "notified"}}
      /\ Queued = {i \in Listed : futures[i] \in {"fresh", "notified"}}
      /\ Queued' = {i \in Listed : futures'[i] \in {"fresh", "notified"}}
  BY FuturesStep, ListedType DEF Listed, InFlight, Queued
<1>1. CASE StartPoll
  <2>1. pc' = kind /\ elem' = 1 /\ state' = "alldone" /\ kind \in {"small", "big"}
    BY <1>1 DEF StartPoll, Wake, TypeOK
  <2>2. \A i \in Listed : ~(i < 1)
    BY <1>0
  <2> QED BY <1>0, <2>1, <2>2 DEF WakeInv
<1>2. CASE PollElem
  <2>1. /\ pc = "small" /\ pc' = "small" /\ elem \in Listed /\ elem' = elem + 1
        /\ kind' = kind /\ woken' = woken
    BY <1>2 DEF PollElem
  <2>2. /\ elem \notin Queued'
        /\ \A i \in Listed : i # elem => futures'[i] = futures[i]
    BY <1>0, <1>2 DEF PollElem, MaybePending, MaybeReady, Results
  <2>3. \A i \in Listed : i < elem + 1 => i < elem \/ i = elem
    BY <1>0, <2>1
  <2>4. kind = "small" => (woken \/ \A i \in Listed : i < elem' => i \notin Queued')
    BY <1>0, <2>1, <2>2, <2>3 DEF WakeInv
  <2>5. kind = "small" /\ state' = "pending" => \E i \in Listed : i < elem' /\ i \in InFlight'
    <3>0. elem \in Nat /\ elem < elem + 1 /\ \A i \in Listed : i < elem => i < elem + 1 /\ i # elem
      BY <1>0, <2>1
    <3>1. CASE MaybePending(elem)
      <4>1. elem \in InFlight'
        BY <1>0, <2>1, <3>1 DEF MaybePending
      <4> QED BY <2>1, <3>0, <4>1
    <3>2. CASE UNCHANGED state
      <4> SUFFICES ASSUME kind = "small", state = "pending"
                   PROVE  \E i \in Listed : i < elem' /\ i \in InFlight'
        BY <3>2
      <4>1. PICK i \in Listed : i < elem /\ i \in InFlight
        BY <2>1 DEF WakeInv
      <4>2. i < elem + 1 /\ i \in InFlight'
        BY <1>0, <2>2, <3>0, <4>1
      <4> QED BY <2>1, <4>2
    <3> QED BY <1>2, <3>1, <3>2 DEF PollElem
  <2> QED BY <1>0, <2>1, <2>4, <2>5 DEF WakeInv
<1>3. CASE SmallPending
  <2>1. /\ pc = "small" /\ kind = "small" /\ outcome = Running /\ pc' = "asleep" /\ state = "pending"
        /\ elem \notin Listed /\ UNCHANGED <<kind, futures, woken>>
    BY <1>3 DEF SmallPending, PollInv
  <2>2. \A i \in Listed : i < elem
    BY <1>0, <2>1 DEF TypeOK
  <2>3. InFlight' = InFlight /\ Queued' = Queued
    BY <1>0, <2>1
  <2>4. InFlight # {} /\ (woken \/ Queued = {})
    BY <1>0, <2>1, <2>2 DEF WakeInv
  <2> QED BY <2>1, <2>3, <2>4 DEF WakeInv
<1>4. CASE TakeErr \/ TakeAll \/ BigReady
  <2>1. pc' = "asleep" /\ outcome' # Running
    BY <1>4, Distinct DEF TakeErr, TakeAll, BigReady, Exhausted, TypeOK, Errors
  <2> QED BY <2>1 DEF WakeInv
<1>5. CASE SmallReady \/ TakeOk \/ BigYield \/ BigItem
  <2>1. pc' \in {"take", "big"}
    BY <1>5 DEF SmallReady, TakeOk, BigYield, BigItem
  <2> QED BY <2>1 DEF WakeInv
<1>6. CASE BigPending
  <2>1. InFlight # {} /\ futuresWaker' = TRUE /\ pc' = "asleep"
    BY <1>6 DEF BigPending, NextPending
  <2>2. PICK slept \in SUBSET Fresh : /\ futures' = Polled(slept)
                                      /\ woken' = (woken \/ slept # Queued)
    BY <1>6 DEF BigPending, NextPending
  <2>3. InFlight' = InFlight
    BY <1>0, <2>2 DEF Polled, Fresh
  <2>4. slept = Queued => Queued' = {}
    BY <1>0, <2>2 DEF Polled
  <2> QED BY <2>1, <2>2, <2>3, <2>4 DEF WakeInv
<1>7. ASSUME NEW i \in Listed, Notify(i) PROVE WakeInv'
  <2>1. /\ futures[i] = "waiting" /\ futures' = [futures EXCEPT ![i] = "notified"]
        /\ UNCHANGED <<kind, elem, state, pc, outcome>>
    BY <1>7 DEF Notify, NotifyTask, NotifyQueued
  <2>2. InFlight' = InFlight /\ InFlight # {}
    BY <1>0, <2>1
  <2>3. CASE kind = "small"
    <3>1. woken' = TRUE
      BY <1>7, <2>3 DEF Notify, NotifyTask
    <3> QED BY <1>0, <2>1, <2>2, <3>1 DEF WakeInv
  <2>4. CASE kind # "small"
    <3>1. woken' = (woken \/ futuresWaker) /\ kind = "big"
      BY <1>7, <2>4 DEF Notify, NotifyQueued, TypeOK
    <3> QED BY <2>1, <2>2, <3>1 DEF WakeInv
  <2> QED BY <2>3, <2>4
<1>8. CASE Drop
  <2>1. outcome' # Running /\ pc' = "asleep"
    BY <1>8, Distinct DEF Drop, Abandon
  <2> QED BY <2>1 DEF WakeInv
<1>9. CASE UNCHANGED vars
  BY <1>0, <1>9 DEF vars, WakeInv
<1> QED
  BY <1>1, <1>2, <1>3, <1>4, <1>5, <1>6, <1>7, <1>8, <1>9 DEF Next, Poll

\* No wakeup is lost, in either kind.
THEOREM WakeupCorrect == Spec => []WakeupComing
<1>1. Init => TypeOK /\ PollInv /\ WakeInv
  BY InitType, JoinInit DEF JoinInv, Init, WakeInv
<1>2. TypeOK /\ PollInv /\ WakeInv /\ [Next]_vars => TypeOK' /\ PollInv' /\ WakeInv'
  BY TypeStep, PollStep, WakeStep
<1>3. WakeInv => WakeupComing
  BY DEF WakeInv, WakeupComing
<1> QED BY <1>1, <1>2, <1>3, PTL DEF Spec

-----------------------------------------------------------------------------
(***************************************************************************)
(* The refinement.                                                         *)
(***************************************************************************)

\* What ThenTry sees.
Left     == {i \in Listed : futures[i] \notin Results}
ErrorSet == {Error(i) : i \in Failed}
Seen     == IF outcome[1] = "ok" THEN <<"ok">> ELSE outcome

LEMMA AbstractStep ==
  ASSUME TypeOK, JoinInv, [Next]_vars
  PROVE  [Abstract!Next]_(Abstract!vars)
<1> USE DEF Abstract!Next, Abstract!vars, smallVars, bigVars, collectVars
<1>0. /\ Listed' = Listed
      /\ \A i \in Listed : futures[i] \in Results => futures'[i] = futures[i]
  BY FuturesStep
<1>1. Left' \subseteq Left /\ ErrorSet \subseteq ErrorSet'
  <2>1. Left' \subseteq Left
    BY <1>0 DEF Left
  <2>2. Failed \subseteq Failed'
    BY <1>0 DEF Failed, Listed, Results
  <2> QED BY <2>1, <2>2 DEF ErrorSet
<1>2. ASSUME outcome = Running, outcome' = Running PROVE Abstract!Next
  <2>1. Seen = Running /\ Seen' = Running
    BY <1>2, Distinct DEF Seen
  <2> QED BY <1>1, <2>1 DEF Abstract!Run, Left, ErrorSet, Seen
<1>3. CASE StartPoll \/ PollElem \/ SmallPending \/ SmallReady \/ TakeOk \/ BigYield \/ BigItem
           \/ BigPending
  <2>1. outcome = Running /\ outcome' = Running
    BY <1>3 DEF StartPoll, Wake, PollElem, SmallPending, SmallReady, TakeOk, BigYield, Collect,
         BigItem, BigPending, JoinInv, PollInv
  <2> QED BY <1>2, <2>1
<1>4. ASSUME NEW i \in Listed, Notify(i) PROVE Abstract!Next
  BY <1>2, <1>4 DEF Notify
<1>5. CASE TakeErr \/ TakeAll \/ BigReady
  <2>1. outcome = Running /\ UNCHANGED futures /\ SameResult' /\ outcome' \notin {Running, Dropped}
    <3>1. outcome' \in {Panicked} \cup Errors \/ \E c : outcome' = OkWith(c)
      BY <1>5, ListedType DEF TakeErr, TakeAll, BigReady, Exhausted, TypeOK
    <3>2. outcome' \notin {Running, Dropped}
      BY <3>1, Distinct DEF Errors
    <3>3. outcome = Running /\ UNCHANGED futures
      BY <1>5 DEF TakeErr, TakeAll, BigReady, NextNone, JoinInv, PollInv
    <3> QED BY <3>2, <3>3, JoinStep DEF JoinInv
  <2>2. Left = {}
    <3>1. CASE TakeErr \/ TakeAll
      BY <3>1 DEF TakeErr, TakeAll, JoinInv, PollInv, Left
    <3>2. CASE BigReady
      BY <2>1, <3>2, ListedType DEF BigReady, JoinInv, PollInv, YieldInv, Left
    <3> QED BY <1>5, <3>1, <3>2
  <2>3. Left' = Left /\ ErrorSet' = ErrorSet /\ Failed' = Failed
    BY <2>1 DEF Left, ErrorSet, Failed, Listed
  <2>4. Seen' \in IF ErrorSet = {} THEN {<<"ok">>} ELSE ErrorSet
    <3>1. CASE Failed = {}
      <4>1. outcome' = OkWith([i \in Listed' |-> i])
        BY <2>1, <2>3, <3>1 DEF SameResult
      <4>2. Seen' = <<"ok">>
        BY <4>1, Distinct DEF Seen
      <4> QED BY <3>1, <4>2 DEF ErrorSet
    <3>2. CASE Failed # {}
      <4>1. PICK i \in Failed : outcome' = Error(i)
        BY <2>1, <2>3, <3>2 DEF SameResult, FirstListed
      <4>2. Seen' = Error(i) /\ Error(i) \in ErrorSet
        BY <4>1, Distinct DEF Seen, ErrorSet
      <4> QED BY <4>2
    <3> QED BY <3>1, <3>2
  <2>5. Seen = Running
    BY <2>1, Distinct DEF Seen
  <2> QED BY <2>2, <2>3, <2>4, <2>5 DEF Abstract!Exit, Left, ErrorSet, Seen
<1>6. CASE Drop
  <2>1. outcome = Running /\ outcome' = Dropped
    BY <1>6 DEF Drop, Abandon
  <2>2. Seen = Running /\ Seen' = Dropped
    BY <2>1, Distinct DEF Seen
  <2>3. \A i \in Listed : /\ futures'[i] \in Results <=> futures[i] \in Results
                          /\ futures'[i] = "err" <=> futures[i] = "err"
    BY <1>6, ListedType DEF Drop, DropFutures, InFlight, Listed, Results
  <2>4. Left' = Left /\ ErrorSet' = ErrorSet
    <3>1. Left' = Left
      BY <1>0, <2>3 DEF Left
    <3>2. Failed' = Failed
      BY <1>0, <2>3 DEF Failed, Listed
    <3> QED BY <3>1, <3>2 DEF ErrorSet
  <2> QED BY <2>2, <2>4 DEF Abstract!Drop, Left, ErrorSet, Seen
<1>7. CASE UNCHANGED vars
  BY <1>7 DEF vars, Listed, Failed
<1> QED BY <1>3, <1>4, <1>5, <1>6, <1>7 DEF Next, Poll

\* Whichever kind was chosen, all futures are run to their end before it returns.
THEOREM JoinAllImplementsThenTry == Spec => ImplementsThenTry
<1>1. Init => Abstract!Init
  <2> SUFFICES ASSUME Init PROVE Abstract!Init
    OBVIOUS
  <2>1. outcome = Running /\ outcome[1] # "ok"
    BY Distinct DEF Init
  <2>2. Failed = {}
    BY DEF Init, JoinAll, Failed
  <2> QED BY <2>1, <2>2 DEF Abstract!Init
<1>2. TypeOK /\ JoinInv /\ [Next]_vars => [Abstract!Next]_(Abstract!vars)
  BY AbstractStep
<1> QED BY <1>1, <1>2, JoinInvariant, PTL DEF Spec, ImplementsThenTry, Abstract!Spec

=============================================================================
