----------------------------- MODULE ForEachProofs -----------------------------
(***************************************************************************)
(* Proofs about ForEachConcurrentThenTry, for streams of any length and    *)
(* any limits.                                                             *)
(***************************************************************************)
EXTENDS ForEachProps, TLAPS, FiniteSetTheorems, SequenceTheorems

-----------------------------------------------------------------------------
(***************************************************************************)
(* Types.                                                                  *)
(***************************************************************************)

\* The outcomes and errors are all different.
LEMMA Distinct ==
  /\ Running # Ok /\ Running # Dropped /\ Ok # Dropped
  /\ \A i : /\ Error(i) # Running /\ Error(i) # Ok /\ Error(i) # Dropped
            /\ Error(i) # NoError
BY DEF Running, Ok, Dropped, Error, NoError

\* A stream has at most MaxItems elements, and each is numbered.
LEMMA ItemsType ==
  ASSUME TypeOK
  PROVE  /\ Len(items) \in 0 .. MaxItems
         /\ items \in [Elements -> StreamResults]
<1>1. PICK n \in 0 .. MaxItems : items \in [1 .. n -> StreamResults]
  BY DEF TypeOK
<1>2. Len(items) = n
  BY <1>1, MaxItemsAssumption
<1> QED BY <1>1, <1>2 DEF Elements

\* Errors are cached, and listed, as errors.
LEMMA KeepFirstType ==
  ASSUME TypeOK, NEW i \in Elements, KeepFirst(Error(i))
  PROVE  first_error' \in Errors \cup {NoError} /\ errors' \in Seq(Errors)
<1>1. Error(i) \in Errors
  BY ItemsType, MaxItemsAssumption DEF Errors, Elements
<1>2. Append(errors, Error(i)) \in Seq(Errors)
  BY <1>1, AppendProperties DEF TypeOK
<1> QED BY <1>1, <1>2 DEF KeepFirst, TypeOK

\* The futures a poll leaves behind.
LEMMA PolledType ==
  ASSUME TypeOK, NEW slept \in SUBSET Fresh
  PROVE  Polled(slept) \in [Elements -> FutureStates]
BY DEF TypeOK, Polled, FutureStates

LEMMA InitType == Init => TypeOK
<1> SUFFICES ASSUME Init PROVE TypeOK
  OBVIOUS
<1>1. Len(items) \in Nat
  <2>1. PICK n \in 0 .. MaxItems : items \in [1 .. n -> StreamResults]
    BY DEF Init
  <2> QED BY <2>1, MaxItemsAssumption
<1>2. errors \in Seq(Errors) /\ taken \in 0 .. Len(items)
  BY <1>1 DEF Init
<1>3. futures \in [Elements -> FutureStates]
  BY DEF Init, New, FutureStates
<1> QED BY <1>2, <1>3 DEF Init, New, TypeOK

LEMMA TypeStep == TypeOK /\ [Next]_vars => TypeOK'
<1> SUFFICES ASSUME TypeOK, [Next]_vars PROVE TypeOK'
  OBVIOUS
<1> USE DEF streamVars, futuresVars, errorVars
<1>1. CASE StartPoll
  BY <1>1 DEF StartPoll, Wake, TypeOK, Elements
<1>2. CASE SkipStream \/ StreamPending \/ StreamEnd
  BY <1>2 DEF SkipStream, StreamPending, StreamEnd, StreamStep, TypeOK, Elements
<1>3. CASE StreamElem
  <2>1. taken' \in 0 .. Len(items)
    BY <1>3, ItemsType DEF StreamElem, Yield, TypeOK
  <2>2. futures' \in [Elements -> FutureStates]
    BY <1>3 DEF StreamElem, TypeOK, FutureStates
  <2> QED BY <1>3, <2>1, <2>2 DEF StreamElem, Yield, StreamStep, TypeOK, Elements
<1>4. CASE StreamErr
  <2>1. taken' \in 0 .. Len(items) /\ taken + 1 \in Elements
    BY <1>4, ItemsType DEF StreamErr, Yield, TypeOK, Elements
  <2>2. first_error' \in Errors \cup {NoError} /\ errors' \in Seq(Errors)
    BY <1>4, <2>1, KeepFirstType DEF StreamErr
  <2> QED BY <1>4, <2>1, <2>2 DEF StreamErr, Yield, StreamStep, TypeOK, Elements
<1>5. CASE FuturesItem
  <2>1. PICK i \in Queued, result \in Results :
          /\ NextItem(i, result)
          /\ IF result = "err" THEN KeepFirst(Error(i)) ELSE UNCHANGED errorVars
    BY <1>5 DEF FuturesItem
  <2>2. i \in Elements
    BY DEF Queued, TypeOK
  <2>3. futures' \in [Elements -> FutureStates] /\ futuresWaker' \in BOOLEAN
    BY <2>1, <2>2, PolledType DEF NextItem, FutureStates
  <2>4. first_error' \in Errors \cup {NoError} /\ errors' \in Seq(Errors)
    BY <2>1, <2>2, KeepFirstType DEF TypeOK
  <2> QED BY <1>5, <2>3, <2>4 DEF FuturesItem, TypeOK, Elements
<1>6. CASE FuturesPending
  <2>1. futures' \in [Elements -> FutureStates]
        /\ futuresWaker' \in BOOLEAN /\ woken' \in BOOLEAN
    BY <1>6, PolledType DEF FuturesPending, NextPending
  <2> QED BY <1>6, <2>1 DEF FuturesPending, EndIteration, TypeOK, Elements
<1>7. CASE FuturesEmpty
  BY <1>7 DEF FuturesEmpty, NextNone, EndIteration, TypeOK, Elements
<1>8. CASE Return
  BY <1>8 DEF Return, NextNone, TypeOK, Elements
<1>9. CASE StreamNotify
  BY <1>9 DEF StreamNotify, TypeOK, Elements
<1>10. ASSUME NEW i \in Elements, FutureNotify(i) PROVE TypeOK'
  BY <1>10 DEF FutureNotify, NotifyQueued, TypeOK, Elements, FutureStates
<1>11. CASE Drop
  BY <1>11 DEF Drop, Abandon, DropFutures, TypeOK, Elements, FutureStates
<1>12. CASE UNCHANGED vars
  BY <1>12 DEF vars, TypeOK, Elements
<1> QED
  BY <1>1, <1>2, <1>3, <1>4, <1>5, <1>6, <1>7, <1>8, <1>9, <1>10, <1>11, <1>12
     DEF Next, Poll, Notify

\* Every variable keeps its type.
THEOREM TypeCorrect == Spec => []TypeOK
<1>1. Init => TypeOK
  BY InitType
<1>2. TypeOK /\ [Next]_vars => TypeOK'
  BY TypeStep
<1> QED BY <1>1, <1>2, PTL DEF Spec


-----------------------------------------------------------------------------
(***************************************************************************)
(* The limit.                                                              *)
(***************************************************************************)

\* Which futures are in flight after a step.
LEMMA InFlightStep ==
  ASSUME TypeOK, [Next]_vars
  PROVE  \/ StreamElem /\ InFlight' \subseteq InFlight \cup {taken + 1}
         \/ (FuturesItem \/ Drop) /\ InFlight' \subseteq InFlight
         \/ ~StreamElem /\ ~FuturesItem /\ ~Drop /\ InFlight' = InFlight
<1> USE DEF streamVars, futuresVars, errorVars
<1>1. CASE StreamElem
  <2>1. InFlight' \subseteq InFlight \cup {taken + 1}
    BY <1>1 DEF StreamElem, InFlight, TypeOK
  <2> QED BY <1>1, <2>1
<1>2. CASE FuturesItem
  <2>1. InFlight' \subseteq InFlight
    BY <1>2 DEF FuturesItem, NextItem, Polled, Queued, Fresh, InFlight, Results, TypeOK
  <2> QED BY <1>2, <2>1
<1>3. CASE Drop
  <2>1. InFlight' \subseteq InFlight
    BY <1>3 DEF Drop, DropFutures, InFlight, TypeOK
  <2> QED BY <1>3, <2>1
<1>4. ASSUME ~StreamElem, ~FuturesItem, ~Drop  PROVE InFlight' = InFlight
  <2>1. CASE UNCHANGED futures
    BY <2>1 DEF InFlight
  <2>2. CASE FuturesPending
    BY <2>2 DEF FuturesPending, NextPending, Polled, Fresh, InFlight, TypeOK
  <2>3. ASSUME NEW i \in Elements, FutureNotify(i)  PROVE InFlight' = InFlight
    BY <2>3 DEF FutureNotify, NotifyQueued, InFlight, TypeOK
  <2>4. \/ UNCHANGED futures \/ FuturesPending
        \/ \E i \in Elements : FutureNotify(i)
    BY <1>4 DEF Next, Poll, Notify, StartPoll, SkipStream, StreamPending, StreamErr, StreamEnd,
         FuturesEmpty, NextNone, Return, StreamNotify, vars
  <2> QED BY <2>1, <2>2, <2>3, <2>4
<1> QED BY <1>1, <1>2, <1>3, <1>4

LEMMA InFlightFinite == TypeOK => IsFiniteSet(InFlight)
<1> SUFFICES ASSUME TypeOK PROVE IsFiniteSet(InFlight)
  OBVIOUS
<1>1. IsFiniteSet(1 .. Len(items))
  BY ItemsType, FS_Interval
<1> QED BY <1>1, FS_Subset DEF InFlight, TypeOK, Elements

\* The stream and the limit are given.
LEMMA FixedStep == [Next]_vars => UNCHANGED <<items, limit>>
<1> SUFFICES ASSUME [Next]_vars PROVE UNCHANGED <<items, limit>>
  OBVIOUS
<1>1. CASE Poll
  BY <1>1 DEF Poll, SkipStream, StreamPending, StreamErr, StreamEnd, StreamElem, StreamStep,
       FuturesItem, FuturesPending, FuturesEmpty, EndIteration, Return, streamVars
<1>2. CASE StartPoll \/ Notify \/ Drop \/ UNCHANGED vars
  BY <1>2 DEF StartPoll, Notify, StreamNotify, FutureNotify, Drop, vars, streamVars
<1> QED BY <1>1, <1>2 DEF Next

LEMMA LimitStep == TypeOK /\ LimitRespected /\ [Next]_vars => LimitRespected'
<1> SUFFICES ASSUME TypeOK, LimitRespected, [Next]_vars, limit # 0
             PROVE  Cardinality(InFlight') <= limit
  BY FixedStep DEF LimitRespected
<1>1. IsFiniteSet(InFlight) /\ Cardinality(InFlight) \in Nat /\ limit \in Nat
  BY InFlightFinite, FS_CardinalityType, LimitsAssumption DEF TypeOK
<1>2. Cardinality(InFlight) <= limit
  BY DEF LimitRespected
<1>3. ASSUME InFlight' \subseteq InFlight  PROVE Cardinality(InFlight') <= limit
  <2>1. Cardinality(InFlight') \in Nat /\ Cardinality(InFlight') <= Cardinality(InFlight)
    BY <1>1, <1>3, FS_Subset, FS_CardinalityType
  <2> QED BY <1>1, <1>2, <2>1
<1>4. CASE StreamElem /\ InFlight' \subseteq InFlight \cup {taken + 1}
  <2>1. Cardinality(InFlight) < limit
    BY <1>1, <1>4 DEF StreamElem, Yield, HasRoom
  <2>2. /\ IsFiniteSet(InFlight \cup {taken + 1})
        /\ Cardinality(InFlight \cup {taken + 1}) <= Cardinality(InFlight) + 1
    BY <1>1, FS_AddElement
  <2>3. /\ Cardinality(InFlight \cup {taken + 1}) \in Nat
        /\ Cardinality(InFlight') \in Nat
        /\ Cardinality(InFlight') <= Cardinality(InFlight \cup {taken + 1})
    BY <1>4, <2>2, FS_Subset, FS_CardinalityType
  <2> QED BY <1>1, <2>1, <2>2, <2>3
<1> QED BY <1>3, <1>4, InFlightStep

\* Never are more than limit futures in flight, whatever the stream and the futures do.
THEOREM LimitCorrect == Spec => []LimitRespected
<1>1. Init => TypeOK /\ LimitRespected
  <2> SUFFICES ASSUME Init PROVE LimitRespected
    BY InitType
  <2>1. InFlight = {}
    BY DEF Init, New, InFlight
  <2>2. Cardinality(InFlight) = 0
    BY <2>1, FS_EmptySet
  <2>3. limit \in Nat
    BY LimitsAssumption DEF Init, New
  <2> QED BY <2>2, <2>3 DEF LimitRespected
<1>2. TypeOK /\ LimitRespected /\ [Next]_vars => TypeOK' /\ LimitRespected'
  BY TypeStep, LimitStep
<1> QED BY <1>1, <1>2, PTL DEF Spec

-----------------------------------------------------------------------------
(***************************************************************************)
(* The exit.                                                               *)
(***************************************************************************)

\* Only a future that has not returned is polled; it returns when it has no work
\* left and goes to sleep only when it has some; the stream is dropped at its end.
ExitInv ==
  /\ pc # "asleep" => outcome = Running
  /\ outcome \notin {Running, Dropped} => stream = "none" /\ InFlight = {}
  /\ pc = "asleep" /\ outcome = Running => stream = "some" \/ InFlight # {}
  /\ stream = "none" => taken = Len(items)
  /\ outcome # Dropped => \A i \in Elements : futures[i] # "dropped"

LEMMA ExitInit == Init => ExitInv
BY Distinct DEF Init, New, ExitInv

LEMMA ExitStep == TypeOK /\ ExitInv /\ [Next]_vars => ExitInv'
<1> SUFFICES ASSUME TypeOK, ExitInv, [Next]_vars PROVE ExitInv'
  OBVIOUS
<1> USE Distinct DEF streamVars, futuresVars, errorVars, ExitInv
<1>1. CASE StartPoll
  BY <1>1 DEF StartPoll, Wake, InFlight, Elements
<1>2. CASE SkipStream \/ StreamPending \/ StreamEnd
  BY <1>2 DEF SkipStream, StreamPending, StreamEnd, StreamStep, InFlight, Elements
<1>3. CASE StreamElem
  <2>1. stream' = "some" /\ outcome' = Running /\ pc' = "futures"
    BY <1>3 DEF StreamElem, Yield, StreamStep
  <2>2. \A i \in Elements' : futures'[i] # "dropped"
    BY <1>3, <2>1 DEF StreamElem, StreamStep, TypeOK, Elements
  <2> QED BY <2>1, <2>2
<1>4. CASE StreamErr
  BY <1>4 DEF StreamErr, Yield, StreamStep, Elements
<1>5. CASE FuturesItem
  <2>1. outcome' = Running /\ pc' = "stream" /\ UNCHANGED <<stream, taken, items>>
    BY <1>5 DEF FuturesItem
  <2>2. \A i \in Elements' : futures'[i] # "dropped"
    BY <1>5, <2>1 DEF FuturesItem, NextItem, Polled, Results, TypeOK, Elements
  <2> QED BY <2>1, <2>2
<1>6. CASE FuturesPending
  <2>1. outcome' = Running /\ UNCHANGED <<stream, taken, items>> /\ InFlight # {}
    BY <1>6 DEF FuturesPending, NextPending, EndIteration
  <2>2. InFlight' = InFlight
    BY <1>6, InFlightStep DEF FuturesPending, StreamElem, StreamStep, FuturesItem, Drop, Abandon, NextPending, NextItem, Polled, Fresh, InFlight, TypeOK
  <2>3. \A i \in Elements' : futures'[i] # "dropped"
    BY <1>6, <2>1 DEF FuturesPending, NextPending, Polled, TypeOK, Elements
  <2> QED BY <2>1, <2>2, <2>3
<1>7. CASE FuturesEmpty
  BY <1>7 DEF FuturesEmpty, NextNone, EndIteration, InFlight, Elements
<1>8. CASE Return
  <2>1. outcome' # Running
    BY <1>8 DEF Return, TypeOK, Errors
  <2> QED BY <1>8, <2>1 DEF Return, NextNone, InFlight, Elements
<1>9. CASE StreamNotify
  BY <1>9 DEF StreamNotify, InFlight, Elements
<1>10. ASSUME NEW i \in Elements, FutureNotify(i) PROVE ExitInv'
  <2>1. InFlight' = InFlight /\ UNCHANGED <<stream, taken, items, pc, outcome>>
    BY <1>10 DEF FutureNotify, NotifyQueued, InFlight, TypeOK
  <2>2. outcome # Dropped => \A j \in Elements : futures'[j] # "dropped"
    BY <1>10 DEF FutureNotify, NotifyQueued, TypeOK
  <2> QED BY <2>1, <2>2 DEF Elements
<1>11. CASE Drop
  BY <1>11 DEF Drop, Abandon, Elements
<1>12. CASE UNCHANGED vars
  BY <1>12 DEF vars, InFlight, Elements
<1> QED
  BY <1>1, <1>2, <1>3, <1>4, <1>5, <1>6, <1>7, <1>8, <1>9, <1>10, <1>11, <1>12
     DEF Next, Poll, Notify

LEMMA ExitInvariant == Spec => [](TypeOK /\ ExitInv)
<1>1. Init => TypeOK /\ ExitInv
  BY InitType, ExitInit
<1>2. TypeOK /\ ExitInv /\ [Next]_vars => TypeOK' /\ ExitInv'
  BY TypeStep, ExitStep
<1> QED BY <1>1, <1>2, PTL DEF Spec

\* Whoever asks between two polls if the future has terminated gets the truth.
THEOREM TerminatedCorrect == Spec => []TerminatedMeansReturned
<1>1. TypeOK /\ ExitInv => TerminatedMeansReturned
  BY DEF TypeOK, ExitInv, TerminatedMeansReturned
<1> QED BY <1>1, ExitInvariant, PTL

-----------------------------------------------------------------------------
(***************************************************************************)
(* The error.                                                              *)
(***************************************************************************)

\* Appending to a sequence of errors keeps its head.
LEMMA HeadOfAppend ==
  ASSUME NEW s \in Seq(Errors), NEW e \in Errors
  PROVE  Append(s, e) # <<>> /\ Head(Append(s, e)) = IF s = <<>> THEN e ELSE Head(s)
<1>1. Len(s) \in Nat /\ (s = <<>> <=> Len(s) = 0)
  BY EmptySeq, LenProperties
<1>2. /\ Append(s, e) \in Seq(Errors) /\ Len(Append(s, e)) = Len(s) + 1
      /\ \A i \in 1 .. Len(s) : Append(s, e)[i] = s[i]
      /\ Append(s, e)[Len(s) + 1] = e
  BY AppendProperties
<1>3. Append(s, e) # <<>>
  BY <1>1, <1>2
<1>4. Head(Append(s, e)) = Append(s, e)[1]
  BY <1>2, <1>3
<1>5. CASE s = <<>>
  BY <1>1, <1>2, <1>3, <1>4, <1>5
<1>6. CASE s # <<>>
  BY <1>1, <1>2, <1>3, <1>4, <1>6
<1> QED BY <1>5, <1>6

LEMMA ErrorInit == Init => FirstErrorReturned
BY Distinct DEF Init, New, FirstErrorReturned, Errors

\* An error that is met is kept if it is the first.
LEMMA ErrorKept ==
  ASSUME TypeOK, FirstErrorReturned, outcome = Running, outcome' = outcome,
         NEW i \in Elements, KeepFirst(Error(i))
  PROVE  FirstErrorReturned'
<1>1. Error(i) \in Errors
  BY ItemsType, MaxItemsAssumption DEF Errors, Elements
<1>2. errors \in Seq(Errors) /\ first_error = IF errors = <<>> THEN NoError ELSE Head(errors)
  BY DEF TypeOK, FirstErrorReturned
<1>3. /\ Append(errors, Error(i)) # <<>>
      /\ Head(Append(errors, Error(i))) = IF errors = <<>> THEN Error(i) ELSE Head(errors)
  BY <1>1, <1>2, HeadOfAppend
<1>4. errors # <<>> => Head(errors) \in Errors
  BY <1>2
<1>5. \A e \in Errors : e # NoError
  BY Distinct DEF Errors
<1>6. /\ errors' = Append(errors, Error(i))
      /\ first_error' = IF first_error = NoError THEN Error(i) ELSE first_error
  BY DEF KeepFirst
<1>7. first_error' = Head(errors') /\ errors' # <<>>
  BY <1>2, <1>3, <1>4, <1>5, <1>6
<1>8. outcome' \notin {Ok} \cup Errors
  BY Distinct DEF Errors
<1> QED BY <1>7, <1>8 DEF FirstErrorReturned

LEMMA ErrorStep == TypeOK /\ ExitInv /\ FirstErrorReturned /\ [Next]_vars => FirstErrorReturned'
<1> SUFFICES ASSUME TypeOK, ExitInv, FirstErrorReturned, [Next]_vars PROVE FirstErrorReturned'
  OBVIOUS
<1>1. ASSUME UNCHANGED <<errorVars, outcome>> PROVE FirstErrorReturned'
  BY <1>1 DEF errorVars, FirstErrorReturned
<1>2. CASE StreamErr
  <2>1. taken + 1 \in Elements /\ KeepFirst(Error(taken + 1))
    BY <1>2, ItemsType DEF StreamErr, Yield, TypeOK, Elements
  <2>2. outcome = Running /\ outcome' = outcome
    BY <1>2 DEF StreamErr, StreamStep, ExitInv
  <2> QED BY <2>1, <2>2, ErrorKept
<1>3. CASE FuturesItem
  <2>1. PICK i \in Queued, result \in Results :
          IF result = "err" THEN KeepFirst(Error(i)) ELSE UNCHANGED errorVars
    BY <1>3 DEF FuturesItem
  <2>2. outcome = Running /\ outcome' = outcome /\ i \in Elements
    BY <1>3 DEF FuturesItem, ExitInv, Queued, TypeOK
  <2> QED BY <1>1, <2>1, <2>2, ErrorKept
<1>4. CASE Return
  <2>1. outcome = Running /\ errors' = errors
        /\ outcome' = IF first_error = NoError THEN Ok ELSE first_error
    BY <1>4 DEF Return, ExitInv
  <2>2. first_error = IF errors = <<>> THEN NoError ELSE Head(errors)
    BY <2>1 DEF FirstErrorReturned
  <2>3. errors # <<>> => Head(errors) \in Errors
    BY DEF TypeOK
  <2>4. \A e \in Errors : e # NoError /\ e # Running
    BY Distinct DEF Errors
  <2>5. outcome' = IF errors = <<>> THEN Ok ELSE Head(errors)
    BY <2>1, <2>2, <2>3, <2>4
  <2>6. outcome' # Running
    BY <2>3, <2>4, <2>5, Distinct
  <2> QED BY <2>1, <2>5, <2>6 DEF FirstErrorReturned
<1>5. CASE Drop
  <2>1. outcome' = Dropped
    BY <1>5 DEF Drop, Abandon
  <2>2. outcome' \notin {Running, Ok} \cup Errors
    BY <2>1, Distinct DEF Errors
  <2> QED BY <2>2 DEF FirstErrorReturned
<1>6. ASSUME ~StreamErr, ~FuturesItem, ~Return, ~Drop  PROVE UNCHANGED <<errorVars, outcome>>
  <2>1. CASE StreamElem \/ SkipStream \/ StreamPending \/ StreamEnd
    BY <2>1 DEF StreamElem, SkipStream, StreamPending, StreamEnd, StreamStep, errorVars
  <2>2. CASE FuturesPending \/ FuturesEmpty
    BY <2>2 DEF FuturesPending, FuturesEmpty, EndIteration
  <2>3. CASE StartPoll \/ Notify \/ UNCHANGED vars
    BY <2>3 DEF StartPoll, Wake, Notify, StreamNotify, FutureNotify, vars, errorVars
  <2> QED BY <1>6, <2>1, <2>2, <2>3 DEF Next, Poll
<1> QED BY <1>1, <1>2, <1>3, <1>4, <1>5, <1>6

LEMMA ErrorInvariant == Spec => [](TypeOK /\ ExitInv /\ FirstErrorReturned)
<1>1. Init => TypeOK /\ ExitInv /\ FirstErrorReturned
  BY InitType, ExitInit, ErrorInit
<1>2. TypeOK /\ ExitInv /\ FirstErrorReturned /\ [Next]_vars
        => TypeOK' /\ ExitInv' /\ FirstErrorReturned'
  BY TypeStep, ExitStep, ErrorStep
<1> QED BY <1>1, <1>2, PTL DEF Spec

\* The error returned is the first one in time, of the stream or of a future.
THEOREM FirstErrorCorrect == Spec => []FirstErrorReturned
BY ErrorInvariant, PTL

-----------------------------------------------------------------------------
(***************************************************************************)
(* The wakeup.                                                             *)
(***************************************************************************)

\* The task is woken or, if it can go on with the stream, the stream will wake it.
StreamWatched == woken \/ (HasRoom /\ stream = "some" => ~streamReady /\ streamWaker)

\* The same of the futures in flight, all of which have been polled.
FuturesWatched == woken \/ (Queued = {} /\ (InFlight # {} => futuresWaker))

\* From a step of the stream that made no progress to the end of the poll, and
\* from there to the next one, a change of the stream wakes the task.
WakeInv ==
  ~StreamFailed =>
    /\ pc = "futures" /\ ~made_progress_this_iter => StreamWatched
    /\ pc = "asleep" /\ outcome = Running => StreamWatched /\ FuturesWatched

LEMMA WakeInit == Init => WakeInv
BY DEF Init, WakeInv, StreamWatched, FuturesWatched

\* An Err of the stream is not forgotten.
LEMMA FailedForGood == TypeOK /\ [Next]_vars /\ StreamFailed => StreamFailed'
<1> SUFFICES ASSUME TypeOK, [Next]_vars PROVE items' = items /\ taken' \in Nat /\ taken' >= taken
  BY ItemsType DEF StreamFailed, TypeOK
<1>1. taken \in Nat /\ items' = items
  BY ItemsType, FixedStep DEF TypeOK
<1>2. taken' = taken \/ taken' = taken + 1
  <2>1. CASE Poll
    BY <2>1 DEF Poll, SkipStream, StreamPending, StreamErr, StreamEnd, StreamElem, Yield,
         FuturesItem, FuturesPending, FuturesEmpty, EndIteration, Return, streamVars
  <2>2. CASE StartPoll \/ Notify \/ Drop \/ UNCHANGED vars
    BY <2>2 DEF StartPoll, Notify, StreamNotify, FutureNotify, Drop, vars, streamVars
  <2> QED BY <2>1, <2>2 DEF Next
<1> QED BY <1>1, <1>2

LEMMA WakeStep == TypeOK /\ ExitInv /\ WakeInv /\ [Next]_vars => WakeInv'
<1> SUFFICES ASSUME TypeOK, ExitInv, WakeInv, [Next]_vars, ~StreamFailed, ~StreamFailed'
             PROVE  WakeInv'
  BY FailedForGood DEF WakeInv
<1> USE DEF WakeInv, streamVars, futuresVars
<1>1. CASE StartPoll
  BY <1>1 DEF StartPoll, Wake
<1>2. CASE StreamElem
  BY <1>2 DEF StreamElem, StreamStep
<1>3. CASE StreamErr
  <2>1. taken + 1 \in 1 .. taken' /\ items'[taken + 1] = "err"
    BY <1>3, FixedStep, ItemsType DEF StreamErr, Yield, TypeOK
  <2> QED BY <2>1 DEF StreamFailed
<1>4. CASE SkipStream \/ StreamPending \/ StreamEnd
  <2>1. pc' = "futures" /\ InFlight' = InFlight /\ limit' = limit
    BY <1>4 DEF SkipStream, StreamPending, StreamEnd, StreamStep, InFlight
  <2>2. HasRoom' <=> HasRoom
    BY <2>1 DEF HasRoom
  <2> QED BY <1>4, <2>1, <2>2 DEF SkipStream, StreamPending, StreamEnd, StreamStep, StreamWatched
<1>5. CASE FuturesItem
  BY <1>5 DEF FuturesItem
<1>6. CASE FuturesPending
  <2>1. InFlight' = InFlight /\ limit' = limit
    BY <1>6, FixedStep DEF FuturesPending, NextPending, Polled, Fresh, InFlight, TypeOK
  <2>2. HasRoom' <=> HasRoom
    BY <2>1 DEF HasRoom
  <2>3. pc = "futures" /\ UNCHANGED <<stream, streamReady, streamWaker>>
        /\ (pc' = "asleep" => ~made_progress_this_iter) /\ pc' \in {"stream", "asleep"}
    BY <1>6 DEF FuturesPending, EndIteration
  <2>4. FuturesWatched' /\ (woken => woken')
    BY <1>6 DEF FuturesPending, NextPending, Polled, Fresh, Queued, FuturesWatched, TypeOK
  <2> QED BY <2>2, <2>3, <2>4 DEF StreamWatched
<1>7. CASE FuturesEmpty
  <2>1. InFlight' = {} /\ Queued' = {} /\ (HasRoom' <=> HasRoom)
    BY <1>7 DEF FuturesEmpty, NextNone, EndIteration, InFlight, Queued, HasRoom
  <2> QED BY <1>7, <2>1 DEF FuturesEmpty, EndIteration, StreamWatched, FuturesWatched
<1>8. CASE Return
  <2>1. outcome' # Running /\ pc' = "asleep"
    BY <1>8, Distinct DEF Return, TypeOK, Errors
  <2> QED BY <2>1
<1>9. CASE StreamNotify
  <2>1. /\ HasRoom' <=> HasRoom
        /\ InFlight' = InFlight /\ Queued' = Queued
    BY <1>9 DEF StreamNotify, InFlight, Queued, HasRoom
  <2> QED BY <1>9, <2>1 DEF StreamNotify, StreamWatched, FuturesWatched
<1>10. ASSUME NEW i \in Elements, FutureNotify(i) PROVE WakeInv'
  <2>1. InFlight' = InFlight /\ i \in InFlight
    BY <1>10 DEF FutureNotify, NotifyQueued, InFlight, TypeOK
  <2>2. HasRoom' <=> HasRoom
    BY <1>10, <2>1 DEF FutureNotify, HasRoom
  <2> QED BY <1>10, <2>1, <2>2 DEF FutureNotify, NotifyQueued, StreamWatched, FuturesWatched
<1>11. CASE Drop
  BY <1>11, Distinct DEF Drop, Abandon
<1>12. CASE UNCHANGED vars
  BY <1>12 DEF vars, StreamWatched, FuturesWatched, HasRoom, Queued, InFlight
<1> QED
  BY <1>1, <1>2, <1>3, <1>4, <1>5, <1>6, <1>7, <1>8, <1>9, <1>10, <1>11, <1>12
     DEF Next, Poll, Notify

\* No wakeup is lost, as long as the stream yields no Err.
THEOREM WakeupCorrect == Spec => []WakeupComing
<1>1. Init => TypeOK /\ ExitInv /\ WakeInv
  BY InitType, ExitInit, WakeInit
<1>2. TypeOK /\ ExitInv /\ WakeInv /\ [Next]_vars => TypeOK' /\ ExitInv' /\ WakeInv'
  BY TypeStep, ExitStep, WakeStep
<1>3. TypeOK /\ ExitInv /\ WakeInv => WakeupComing
  BY DEF TypeOK, ExitInv, WakeInv, StreamWatched, FuturesWatched, WakeupComing
<1> QED BY <1>1, <1>2, <1>3, PTL DEF Spec

-----------------------------------------------------------------------------
(***************************************************************************)
(* The end of each poll.                                                   *)
(***************************************************************************)

LEMMA WorkType ==
  TypeOK => /\ Len(items) \in Nat /\ taken \in Nat /\ Len(items) - taken \in Nat
            /\ Cardinality(InFlight) \in Nat
            /\ Work \in Nat
<1> SUFFICES ASSUME TypeOK
             PROVE  /\ Len(items) \in Nat /\ taken \in Nat /\ Len(items) - taken \in Nat
                    /\ Cardinality(InFlight) \in Nat
                    /\ Work \in Nat
  OBVIOUS
<1>1. Len(items) \in Nat /\ taken \in 0 .. Len(items)
  BY ItemsType, MaxItemsAssumption DEF TypeOK
<1>2. Cardinality(InFlight) \in Nat
  BY InFlightFinite, FS_CardinalityType
<1>3. Len(items) - taken \in Nat /\ taken \in Nat
  BY <1>1
<1> QED BY <1>1, <1>2, <1>3 DEF Work

LEMMA WorkTypeNext ==
  TypeOK' => (/\ Len(items) \in Nat /\ taken \in Nat /\ Len(items) - taken \in Nat
              /\ Cardinality(InFlight) \in Nat
              /\ Work \in Nat)'
BY WorkType, PTL

\* The value of LastSteps, case by case.
LEMMA LastStepsValue ==
  /\ LastSteps \in {0, 1, 2}
  /\ pc = "stream" => LastSteps = 1
  /\ pc = "futures" /\ made_progress_this_iter => LastSteps = 2
  /\ pc = "futures" /\ ~made_progress_this_iter => LastSteps = 0
<1>1. ASSUME pc = "stream" PROVE LastSteps = 1
  BY <1>1, Zenon DEF LastSteps
<1>2. ASSUME pc = "futures", made_progress_this_iter PROVE LastSteps = 2
  <2>1. pc # "stream"
    BY <1>2
  <2> QED BY <1>2, <2>1, Zenon DEF LastSteps
<1>3. ASSUME ~(pc = "stream"), ~(pc = "futures" /\ made_progress_this_iter) PROVE LastSteps = 0
  BY <1>3, Zenon DEF LastSteps
<1>4. LastSteps \in {0, 1, 2}
  BY Zenon DEF LastSteps
<1> QED BY <1>1, <1>2, <1>3, <1>4, Zenon

LEMMA LastStepsValueNext ==
  (/\ LastSteps \in {0, 1, 2}
   /\ pc = "stream" => LastSteps = 1
   /\ pc = "futures" /\ made_progress_this_iter => LastSteps = 2
   /\ pc = "futures" /\ ~made_progress_this_iter => LastSteps = 0)'
BY LastStepsValue, PTL

\* The future that ends is no longer in flight.
LEMMA ItemShrinks ==
  ASSUME TypeOK, FuturesItem
  PROVE  Cardinality(InFlight') < Cardinality(InFlight)
<1>1. PICK i \in InFlight : InFlight' \subseteq InFlight \ {i}
  BY DEF FuturesItem, NextItem, Polled, Queued, Fresh, InFlight, Results, TypeOK
<1>2. /\ IsFiniteSet(InFlight \ {i})
      /\ Cardinality(InFlight \ {i}) = Cardinality(InFlight) - 1
      /\ Cardinality(InFlight) \in Nat /\ Cardinality(InFlight \ {i}) \in Nat
  BY InFlightFinite, FS_RemoveElement, FS_CardinalityType
<1>3. Cardinality(InFlight') \in Nat /\ Cardinality(InFlight') <= Cardinality(InFlight \ {i})
  BY <1>1, <1>2, FS_Subset, FS_CardinalityType
<1> QED BY <1>2, <1>3

\* No step of a poll adds to the work: an element that is taken becomes a future at
\* most, and counts for two.
LEMMA WorkStep ==
  ASSUME TypeOK, TypeOK', [Next]_vars, ~Drop
  PROVE  /\ Work' <= Work
         /\ StreamElem \/ FuturesItem => Work' < Work
<1>1. Len(items)' = Len(items) /\ items' = items
  BY FixedStep
<1>2. /\ Len(items) \in Nat /\ taken \in Nat /\ taken' \in Nat
      /\ Cardinality(InFlight) \in Nat /\ Cardinality(InFlight') \in Nat
  BY WorkType, WorkTypeNext
<1>3. CASE StreamElem
  <2>1. taken' = taken + 1 /\ stream' = stream
    BY <1>3 DEF StreamElem, Yield
  <2>2. InFlight' \subseteq InFlight \cup {taken + 1}
    BY <1>3, InFlightStep DEF StreamElem, FuturesItem, StreamStep
  <2>3. /\ IsFiniteSet(InFlight \cup {taken + 1})
        /\ \/ Cardinality(InFlight \cup {taken + 1}) = Cardinality(InFlight)
           \/ Cardinality(InFlight \cup {taken + 1}) = Cardinality(InFlight) + 1
    BY InFlightFinite, FS_AddElement, Zenon
  <2>4. /\ Cardinality(InFlight \cup {taken + 1}) \in Nat
        /\ Cardinality(InFlight') <= Cardinality(InFlight \cup {taken + 1})
    BY <2>2, <2>3, FS_Subset, FS_CardinalityType
  <2>5. Cardinality(InFlight') <= Cardinality(InFlight) + 1
    BY <1>2, <2>3, <2>4
  <2> QED BY <1>1, <1>2, <2>1, <2>5 DEF Work
<1>4. CASE FuturesItem
  <2>1. taken' = taken /\ stream' = stream
    BY <1>4 DEF FuturesItem, streamVars
  <2> QED BY <1>1, <1>2, <1>4, <2>1, ItemShrinks DEF Work
<1>5. ASSUME ~StreamElem, ~FuturesItem  PROVE Work' <= Work
  <2>1. InFlight' = InFlight
    BY <1>5, InFlightStep
  <2>2. /\ taken' = taken \/ taken' = taken + 1
        /\ stream' = stream \/ (stream = "some" /\ stream' = "none")
    BY <1>5 DEF Next, Poll, Notify, StartPoll, SkipStream, StreamPending, StreamErr, StreamEnd,
         Yield, FuturesPending, FuturesEmpty, EndIteration, Return, StreamNotify, FutureNotify,
         vars, streamVars
  <2> QED BY <1>1, <1>2, <2>1, <2>2 DEF Work
<1> QED BY <1>3, <1>4, <1>5, <1>2 DEF Work

LEMMA RankNat ==
  ASSUME NEW work \in Nat, NEW last \in {0, 1, 2}
  PROVE  2 * work + last \in Nat
OBVIOUS

LEMMA RankLess ==
  ASSUME NEW w \in Nat, NEW x \in Nat, NEW l \in {0, 1, 2}, NEW m \in {0, 1, 2},
         x <= w, m < l \/ (x < w /\ m < l + 2)
  PROVE  2 * x + m < 2 * w + l
OBVIOUS

LEMMA PollStep ==
  ASSUME TypeOK, TypeOK', [Next]_vars, pc # "asleep", pc' # "asleep"
  PROVE  /\ StepsLeft' >= 0
         /\ IF pc' = pc THEN StepsLeft' = StepsLeft ELSE StepsLeft' < StepsLeft
<1>0. StepsLeft = 2 * Work + LastSteps /\ StepsLeft' = 2 * Work' + LastSteps'
  BY DEF StepsLeft
<1>1. Work \in Nat /\ Work' \in Nat
  BY WorkType, WorkTypeNext
<1>2. LastSteps' \in {0, 1, 2}
  BY LastStepsValueNext
<1>3. StepsLeft' \in Nat
  BY <1>0, <1>1, <1>2, RankNat
<1>4. ~Drop
  BY DEF Drop, Abandon
<1>5. Work' <= Work /\ (StreamElem \/ FuturesItem => Work' < Work)
  BY <1>4, WorkStep
<1>6. CASE SkipStream \/ StreamPending \/ StreamErr \/ StreamEnd
  <2>1. pc = "stream" /\ pc' = "futures" /\ ~made_progress_this_iter'
    BY <1>6 DEF SkipStream, StreamPending, StreamErr, StreamEnd, StreamStep
  <2>2. LastSteps = 1 /\ LastSteps' = 0
    BY <2>1, LastStepsValue, LastStepsValueNext, Zenon
  <2>3. /\ Work' <= Work /\ LastSteps \in {0, 1, 2}
        /\ \/ LastSteps' < LastSteps
           \/ Work' < Work /\ LastSteps' < LastSteps + 2
    BY <1>5, <2>2, LastStepsValue
  <2>4. 2 * Work' + LastSteps' < 2 * Work + LastSteps
    BY <1>1, <1>2, <2>3, RankLess
  <2> QED BY <1>0, <1>3, <2>1, <2>4
<1>7. CASE StreamElem
  <2>1. pc = "stream" /\ pc' = "futures" /\ made_progress_this_iter'
    BY <1>7 DEF StreamElem, StreamStep
  <2>2. LastSteps = 1 /\ LastSteps' = 2
    BY <2>1, LastStepsValue, LastStepsValueNext, Zenon
  <2>3. /\ Work' <= Work /\ LastSteps \in {0, 1, 2}
        /\ \/ LastSteps' < LastSteps
           \/ Work' < Work /\ LastSteps' < LastSteps + 2
    BY <1>5, <1>7, <2>2, LastStepsValue
  <2>4. 2 * Work' + LastSteps' < 2 * Work + LastSteps
    BY <1>1, <1>2, <2>3, RankLess
  <2> QED BY <1>0, <1>3, <2>1, <2>4
<1>8. CASE FuturesItem
  <2>1. pc = "futures" /\ pc' = "stream"
    BY <1>8 DEF FuturesItem
  <2>2. LastSteps \in {0, 2} /\ LastSteps' = 1
    BY <2>1, LastStepsValue, LastStepsValueNext
  <2>3. /\ Work' <= Work /\ LastSteps \in {0, 1, 2}
        /\ \/ LastSteps' < LastSteps
           \/ Work' < Work /\ LastSteps' < LastSteps + 2
    BY <1>5, <1>8, <2>2, LastStepsValue
  <2>4. 2 * Work' + LastSteps' < 2 * Work + LastSteps
    BY <1>1, <1>2, <2>3, RankLess
  <2> QED BY <1>0, <1>3, <2>1, <2>4
<1>9. CASE FuturesPending \/ FuturesEmpty
  <2>1. pc = "futures" /\ pc' = "stream" /\ made_progress_this_iter
    BY <1>9 DEF FuturesPending, FuturesEmpty, EndIteration
  <2>2. LastSteps = 2 /\ LastSteps' = 1
    BY <2>1, LastStepsValue, LastStepsValueNext, Zenon
  <2>3. /\ Work' <= Work /\ LastSteps \in {0, 1, 2}
        /\ \/ LastSteps' < LastSteps
           \/ Work' < Work /\ LastSteps' < LastSteps + 2
    BY <1>5, <2>2, LastStepsValue
  <2>4. 2 * Work' + LastSteps' < 2 * Work + LastSteps
    BY <1>1, <1>2, <2>3, RankLess
  <2> QED BY <1>0, <1>3, <2>1, <2>4
<1>10. CASE Notify \/ UNCHANGED vars
  <2>1. UNCHANGED <<pc, items, taken, stream, made_progress_this_iter>>
    BY <1>10 DEF Notify, StreamNotify, FutureNotify, vars, streamVars
  <2>2. InFlight' = InFlight
    <3>1. ~StreamElem /\ ~FuturesItem
      BY <2>1 DEF StreamElem, StreamStep, FuturesItem
    <3> QED BY <1>4, <3>1, InFlightStep
  <2> QED BY <1>3, <2>1, <2>2 DEF StepsLeft, LastSteps, Work
<1> QED
  BY <1>4, <1>6, <1>7, <1>8, <1>9, <1>10 DEF Next, Poll, StartPoll, Wake, Return

\* The loop of poll ends, for any stream, any futures and any limit.
THEOREM PollsEndCorrect == Spec => PollsEnd
<1>1. ASSUME TypeOK, TypeOK', [Next]_vars
      PROVE  [pc # "asleep" /\ pc' # "asleep" =>
                /\ StepsLeft' >= 0
                /\ IF pc' = pc THEN StepsLeft' = StepsLeft ELSE StepsLeft' < StepsLeft]_vars
  BY <1>1, PollStep
<1> QED BY <1>1, TypeCorrect, PTL DEF Spec, PollsEnd

-----------------------------------------------------------------------------
(***************************************************************************)
(* The refinement.                                                         *)
(***************************************************************************)

\* The set of errors met grows with the sequence.
ErrorSet == {errors[i] : i \in DOMAIN errors}

LEMMA ErrorSetGrows ==
  ASSUME TypeOK, NEW i \in Elements, KeepFirst(Error(i))
  PROVE  ErrorSet \subseteq ErrorSet'
<1>1. Error(i) \in Errors
  BY ItemsType, MaxItemsAssumption DEF Errors, Elements
<1>2. /\ Len(errors) \in Nat
      /\ DOMAIN errors = 1 .. Len(errors)
      /\ DOMAIN Append(errors, Error(i)) = 1 .. Len(errors) + 1
      /\ \A k \in 1 .. Len(errors) : Append(errors, Error(i))[k] = errors[k]
  BY <1>1, AppendProperties, LenProperties DEF TypeOK
<1> QED BY <1>2 DEF KeepFirst, ErrorSet

\* A step of a poll, or of another thread, that only works off what is left.
LEMMA RunStep ==
  ASSUME outcome = Running, outcome' = Running,
         Left' \subseteq Left, ErrorSet \subseteq ErrorSet'
  PROVE  Abstract!Run
BY DEF Abstract!Run, ErrorSet

\* Nothing is added to what is left while the stream is where it was.
LEMMA LeftShrinks ==
  ASSUME TypeOK, items' = items, taken' = taken, stream' = stream \/ stream' = "none",
         \A i \in Elements : futures'[i] \in {"fresh", "waiting", "notified", "dropped"}
            => futures[i] \in {"fresh", "waiting", "notified", "dropped"}
  PROVE  Left' \subseteq Left
BY DEF Left, Elements

LEMMA AbstractStep ==
  ASSUME TypeOK, ExitInv, FirstErrorReturned, [Next]_vars
  PROVE  [Abstract!Next]_(Abstract!vars)
<1> USE DEF Abstract!Next, Abstract!vars, streamVars, futuresVars, errorVars
<1>1. CASE StartPoll \/ UNCHANGED vars
  BY <1>1 DEF StartPoll, Wake, vars, Left, Elements
<1>2. CASE SkipStream \/ StreamPending \/ StreamEnd
  <2>1. outcome = Running /\ outcome' = Running /\ ErrorSet' = ErrorSet
    BY <1>2 DEF SkipStream, StreamPending, StreamEnd, StreamStep, ExitInv, ErrorSet
  <2>2. Left' \subseteq Left
    BY <1>2, LeftShrinks DEF SkipStream, StreamPending, StreamEnd, StreamStep
  <2> QED BY <2>1, <2>2, RunStep
<1>3. CASE StreamElem
  <2>1. outcome = Running /\ outcome' = Running /\ ErrorSet' = ErrorSet
    BY <1>3 DEF StreamElem, StreamStep, ExitInv, ErrorSet
  <2>2. Left' \subseteq Left
    <3>1. /\ taken \in Nat /\ taken' = taken + 1 /\ stream' = stream
          /\ UNCHANGED items
          /\ \A i \in Elements : i # taken + 1 => futures'[i] = futures[i]
      BY <1>3, ItemsType DEF StreamElem, Yield, StreamStep, TypeOK
    <3> QED BY <3>1, ItemsType DEF Left, Elements
  <2> QED BY <2>1, <2>2, RunStep
<1>4. CASE StreamErr
  <2>1. taken + 1 \in Elements /\ KeepFirst(Error(taken + 1))
    BY <1>4, ItemsType DEF StreamErr, Yield, TypeOK, Elements
  <2>2. outcome = Running /\ outcome' = Running
    BY <1>4 DEF StreamErr, StreamStep, ExitInv
  <2>3. Left' \subseteq Left
    <3>1. taken \in Nat /\ taken' = taken + 1 /\ UNCHANGED <<stream, items, futures>>
      BY <1>4, ItemsType DEF StreamErr, Yield, StreamStep, TypeOK
    <3> QED BY <3>1, ItemsType DEF Left, Elements
  <2> QED BY <2>1, <2>2, <2>3, ErrorSetGrows, RunStep
<1>5. CASE FuturesItem
  <2>1. PICK i \in Queued, result \in Results :
          /\ NextItem(i, result)
          /\ IF result = "err" THEN KeepFirst(Error(i)) ELSE UNCHANGED errorVars
    BY <1>5 DEF FuturesItem
  <2>2. outcome = Running /\ outcome' = Running /\ i \in Elements
        /\ UNCHANGED <<items, taken, stream>>
    BY <1>5 DEF FuturesItem, ExitInv, Queued, TypeOK
  <2>3. ErrorSet \subseteq ErrorSet'
    BY <2>1, <2>2, ErrorSetGrows DEF ErrorSet
  <2>4. \A j \in Elements : futures'[j] \in {"fresh", "waiting", "notified", "dropped"}
          => futures[j] \in {"fresh", "waiting", "notified", "dropped"}
    BY <2>1 DEF NextItem, Polled, Fresh, Queued, Results, TypeOK
  <2> QED BY <2>2, <2>3, <2>4, LeftShrinks, RunStep
<1>6. CASE FuturesPending \/ FuturesEmpty
  <2>1. outcome = Running /\ outcome' = Running /\ ErrorSet' = ErrorSet
        /\ UNCHANGED <<items, taken, stream>>
    BY <1>6 DEF FuturesPending, FuturesEmpty, EndIteration, ExitInv, ErrorSet
  <2>2. \A j \in Elements : futures'[j] \in {"fresh", "waiting", "notified", "dropped"}
          => futures[j] \in {"fresh", "waiting", "notified", "dropped"}
    BY <1>6 DEF FuturesPending, NextPending, FuturesEmpty, NextNone, Polled, Fresh, TypeOK
  <2> QED BY <2>1, <2>2, LeftShrinks, RunStep
<1>7. CASE Return
  <2>1. outcome = Running /\ stream = "none" /\ InFlight = {} /\ taken = Len(items)
    BY <1>7 DEF Return, NextNone, ExitInv
  <2>2. Left = {} /\ UNCHANGED <<Left, ErrorSet>>
    <3>1. \A i \in Elements : futures[i] \notin {"fresh", "waiting", "notified", "dropped"}
      BY <2>1, Distinct DEF ExitInv, InFlight, TypeOK
    <3>2. \A i \in Elements : ~(i > taken)
      BY <2>1, ItemsType DEF Elements
    <3>3. Left = {}
      BY <2>1, <3>1, <3>2 DEF Left
    <3>4. UNCHANGED <<items, taken, stream, futures, errors>>
      BY <1>7 DEF Return, NextNone
    <3> QED BY <3>3, <3>4 DEF Left, Elements, ErrorSet
  <2>3. outcome' = IF first_error = NoError THEN Ok ELSE first_error
    BY <1>7 DEF Return
  <2>4. first_error = IF errors = <<>> THEN NoError ELSE Head(errors)
    BY <2>1 DEF FirstErrorReturned
  <2>5. CASE errors = <<>>
    <3>1. ErrorSet = {}
      BY <2>5 DEF ErrorSet
    <3>2. outcome' = Ok
      BY <2>3, <2>4, <2>5
    <3> QED BY <2>1, <2>2, <3>1, <3>2 DEF Abstract!Exit, ErrorSet
  <2>6. CASE errors # <<>>
    <3>1. Len(errors) \in Nat \ {0} /\ DOMAIN errors = 1 .. Len(errors)
      BY <2>6, EmptySeq, LenProperties DEF TypeOK
    <3>2. Head(errors) = errors[1] /\ Head(errors) \in Errors
      BY <2>6, <3>1, HeadTailProperties DEF TypeOK
    <3>3. Head(errors) \in ErrorSet
      BY <3>1, <3>2 DEF ErrorSet
    <3>4. Head(errors) # NoError
      BY <3>2, Distinct DEF Errors
    <3>5. outcome' = Head(errors)
      BY <2>3, <2>4, <2>6, <3>4
    <3> QED BY <2>1, <2>2, <3>3, <3>5 DEF Abstract!Exit, ErrorSet
  <2> QED BY <2>5, <2>6
<1>8. CASE Notify
  <2>1. outcome = Running /\ outcome' = Running /\ ErrorSet' = ErrorSet
        /\ UNCHANGED <<items, taken, stream>>
    BY <1>8 DEF Notify, StreamNotify, FutureNotify, ErrorSet
  <2>2. \A j \in Elements : futures'[j] \in {"fresh", "waiting", "notified", "dropped"}
          => futures[j] \in {"fresh", "waiting", "notified", "dropped"}
    BY <1>8 DEF Notify, StreamNotify, FutureNotify, NotifyQueued, TypeOK
  <2> QED BY <2>1, <2>2, LeftShrinks, RunStep
<1>9. CASE Drop
  <2>1. outcome = Running /\ outcome' = Dropped
        /\ UNCHANGED <<items, taken, stream, errors>>
    BY <1>9 DEF Drop, Abandon
  <2>2. \A j \in Elements : futures'[j] \in {"fresh", "waiting", "notified", "dropped"}
          <=> futures[j] \in {"fresh", "waiting", "notified", "dropped"}
    BY <1>9 DEF Drop, DropFutures, InFlight, TypeOK
  <2>3. Left' = Left /\ ErrorSet' = ErrorSet
    BY <2>1, <2>2 DEF Left, Elements, ErrorSet
  <2> QED BY <2>1, <2>3 DEF Abstract!Drop, ErrorSet
<1> QED
  BY <1>1, <1>2, <1>3, <1>4, <1>5, <1>6, <1>7, <1>8, <1>9 DEF Next, Poll

\* The adapter keeps the promise of ThenTry: it exits when all it was given has
\* been run to the end, and then with an error if there was one.
THEOREM ForEachImplementsThenTry == Spec => ImplementsThenTry
<1>1. Init => Abstract!Init
  BY DEF Init, Abstract!Init
<1>2. TypeOK /\ ExitInv /\ FirstErrorReturned /\ [Next]_vars => [Abstract!Next]_(Abstract!vars)
  BY AbstractStep
<1> QED BY <1>1, <1>2, ErrorInvariant, PTL DEF Spec, ImplementsThenTry, Abstract!Spec

=============================================================================
