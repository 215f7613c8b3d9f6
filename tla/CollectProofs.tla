------------------------------ MODULE CollectProofs ------------------------------
(***************************************************************************)
(* Proofs about CollectThenTry, for streams of any length.                 *)
(***************************************************************************)
EXTENDS CollectProps, TLAPS, SequenceTheorems

-----------------------------------------------------------------------------
(***************************************************************************)
(* Types.                                                                  *)
(***************************************************************************)

\* The outcomes are all different, and an Ok is told by its first component.
LEMMA Distinct ==
  /\ Running # Dropped /\ Running[1] # "ok" /\ Dropped[1] # "ok"
  /\ \A i : /\ Error(i) # Running /\ Error(i) # Dropped /\ Error(i) # NoError
            /\ Error(i)[1] # "ok" /\ Error(i) # <<"ok">>
  /\ \A c : /\ OkWith(c) # Running /\ OkWith(c) # Dropped
            /\ OkWith(c)[1] = "ok" /\ OkWith(c)[2] = c
  /\ \A c, i : OkWith(c) # Error(i)
BY DEF Running, Dropped, Error, NoError, OkWith

\* A stream has at most MaxElements elements, and each is numbered.
LEMMA ElementsType ==
  ASSUME TypeOK
  PROVE  /\ Len(elements) \in 0 .. MaxElements /\ Len(elements) \in Nat /\ taken \in Nat
         /\ DOMAIN elements = 1 .. Len(elements)
         /\ \A i \in 1 .. Len(elements) : elements[i] \in {"ok", "err"} /\ i \in Numbers
<1>1. PICK n \in 0 .. MaxElements : elements \in [1 .. n -> Results]
  BY DEF TypeOK
<1>2. Len(elements) = n /\ n \in Nat
  BY <1>1, MaxElementsAssumption
<1> QED BY <1>1, <1>2, MaxElementsAssumption DEF Results, Numbers, TypeOK

LEMMA InitType == Init => TypeOK
<1> SUFFICES ASSUME Init PROVE TypeOK
  OBVIOUS
<1>1. items \in Seq(Numbers)
  BY EmptySeq DEF Init, New
<1>2. taken \in 0 .. Len(elements)
  <2>1. PICK n \in 0 .. MaxElements : elements \in [1 .. n -> Results]
    BY DEF Init
  <2>2. Len(elements) = n /\ n \in Nat
    BY <2>1, MaxElementsAssumption
  <2> QED BY <2>2 DEF Init
<1> QED BY <1>1, <1>2 DEF Init, New, TypeOK

LEMMA TypeStep == TypeOK /\ [Next]_vars => TypeOK'
<1> SUFFICES ASSUME TypeOK, [Next]_vars PROVE TypeOK'
  OBVIOUS
<1> USE DEF collectVars, streamVars
<1>1. CASE StartPoll \/ StreamPending \/ StreamNotify \/ UNCHANGED vars
  BY <1>1 DEF StartPoll, Wake, StreamPending, StreamNotify, vars, TypeOK
<1>2. CASE StreamElement
  <2>1. taken' = taken + 1 /\ taken' \in 1 .. Len(elements)
    BY <1>2, ElementsType DEF StreamElement
  <2>2. taken' \in Numbers /\ Error(taken') \in Errors
    BY <2>1, ElementsType DEF Errors
  <2>3. Append(items, taken') \in Seq(Numbers)
    BY <2>2, AppendProperties DEF TypeOK
  <2>4. items' \in Seq(Numbers) /\ first_error' \in Errors \cup {NoError} /\ outcome' = outcome
    BY <1>2, <2>2, <2>3 DEF StreamElement, Collect, TypeOK
  <2> QED BY <1>2, <2>1, <2>4 DEF StreamElement, TypeOK
<1>3. CASE StreamEnd
  <2>1. /\ items' \in Seq(Numbers) /\ first_error' \in Errors \cup {NoError}
        /\ outcome' \in Errors \cup ({"ok"} \X Seq(Numbers))
    <3>1. items \in Seq(Numbers) /\ <<>> \in Seq(Numbers) /\ first_error \in Errors \cup {NoError}
      BY EmptySeq DEF TypeOK
    <3>2. OkWith(items) \in {"ok"} \X Seq(Numbers)
      BY <3>1 DEF OkWith
    <3> QED BY <1>3, <3>1, <3>2 DEF StreamEnd, Exhausted
  <2> QED BY <1>3, <2>1 DEF StreamEnd, TypeOK
<1>4. CASE Drop
  BY <1>4 DEF Drop, Abandon, TypeOK
<1> QED BY <1>1, <1>2, <1>3, <1>4 DEF Next, Poll

\* Every variable keeps its type.
THEOREM TypeCorrect == Spec => []TypeOK
<1>1. Init => TypeOK
  BY InitType
<1>2. TypeOK /\ [Next]_vars => TypeOK'
  BY TypeStep
<1> QED BY <1>1, <1>2, PTL DEF Spec

-----------------------------------------------------------------------------
(***************************************************************************)
(* What is collected.                                                      *)
(***************************************************************************)

\* While the future runs it holds what the stream has yielded: the collection,
\* and the first error if there was one.
CollectInv ==
  /\ pc = "polling" => outcome = Running
  /\ outcome = Running /\ first_error = NoError => \A i \in 1 .. taken : elements[i] = "ok"
  /\ CollectedInOrder
  /\ FirstErrorReturned

\* One more element that is Ok.
LEMMA ListsMore ==
  ASSUME TypeOK, NEW c \in Seq(Numbers), Lists(c, taken),
         taken + 1 \in 1 .. Len(elements), elements[taken + 1] = "ok"
  PROVE  Lists(Append(c, taken + 1), taken + 1)
<1> DEFINE d == Append(c, taken + 1)
<1>1. taken \in Nat /\ taken + 1 \in Numbers /\ Len(c) \in Nat /\ DOMAIN c = 1 .. Len(c)
  BY ElementsType, LenProperties
<1>2. /\ d \in Seq(Numbers) /\ Len(d) = Len(c) + 1
      /\ \A k \in 1 .. Len(c) : d[k] = c[k]
      /\ d[Len(c) + 1] = taken + 1
  BY <1>1, AppendProperties
<1>3. DOMAIN d = 1 .. Len(c) + 1
  BY <1>2, LenProperties
<1> HIDE DEF d
<1>4. \A k \in 1 .. Len(c) : c[k] \in 1 .. taken
  BY <1>1 DEF Lists
<1>5. \A j, k \in DOMAIN d : j < k => d[j] < d[k]
  <2> SUFFICES ASSUME NEW j \in 1 .. Len(c) + 1, NEW k \in 1 .. Len(c) + 1, j < k
               PROVE  d[j] < d[k]
    BY <1>3
  <2>1. j \in 1 .. Len(c) /\ d[j] = c[j]
    BY <1>1, <1>2
  <2>2. CASE k = Len(c) + 1
    BY <1>1, <1>2, <1>4, <2>1, <2>2
  <2>3. CASE k # Len(c) + 1
    <3>1. k \in 1 .. Len(c) /\ d[k] = c[k]
      BY <1>1, <1>2, <2>3
    <3> QED BY <1>1, <2>1, <3>1 DEF Lists
  <2> QED BY <2>2, <2>3
<1>6. {d[k] : k \in DOMAIN d} = {c[k] : k \in DOMAIN c} \cup {taken + 1}
  <2>1. \A k \in DOMAIN d : d[k] \in {c[l] : l \in DOMAIN c} \cup {taken + 1}
    BY <1>1, <1>2, <1>3
  <2>2. \A k \in DOMAIN c : c[k] \in {d[l] : l \in DOMAIN d}
    BY <1>1, <1>2, <1>3
  <2>3. taken + 1 \in {d[l] : l \in DOMAIN d}
    BY <1>1, <1>2, <1>3
  <2> QED BY <2>1, <2>2, <2>3
<1>7. {i \in 1 .. taken + 1 : elements[i] = "ok"} = {i \in 1 .. taken : elements[i] = "ok"} \cup {taken + 1}
  BY <1>1
<1>8. {d[k] : k \in DOMAIN d} = {i \in 1 .. taken + 1 : elements[i] = "ok"}
  BY <1>6, <1>7 DEF Lists
<1>9. Lists(d, taken + 1)
  BY <1>5, <1>8 DEF Lists
<1> QED BY <1>9 DEF d

\* One more that is an Err.
LEMMA ListsSame ==
  ASSUME TypeOK, NEW c, Lists(c, taken), elements[taken + 1] = "err"
  PROVE  Lists(c, taken + 1)
<1>1. {i \in 1 .. taken + 1 : elements[i] = "ok"} = {i \in 1 .. taken : elements[i] = "ok"}
  BY ElementsType
<1> QED BY <1>1 DEF Lists

LEMMA CollectInit == Init => CollectInv
<1> SUFFICES ASSUME Init PROVE CollectInv
  OBVIOUS
<1>1. outcome[1] # "ok" /\ outcome \notin Errors
  BY Distinct DEF Init, Errors
<1>2. Lists(items, taken)
  BY DEF Init, New, Lists
<1> QED BY <1>1, <1>2 DEF Init, New, CollectInv, CollectedInOrder, FirstErrorReturned

LEMMA CollectStep == TypeOK /\ CollectInv /\ [Next]_vars => CollectInv'
<1> SUFFICES ASSUME TypeOK, CollectInv, [Next]_vars PROVE CollectInv'
  OBVIOUS
<1> USE DEF collectVars, streamVars
<1>1. ASSUME UNCHANGED <<elements, taken, items, first_error, outcome>>,
             pc' = "polling" => outcome = Running
      PROVE  CollectInv'
  BY <1>1 DEF CollectInv, CollectedInOrder, FirstErrorReturned, Lists, IsFirstError
<1>2. CASE StartPoll \/ StreamPending \/ StreamNotify \/ UNCHANGED vars
  BY <1>1, <1>2 DEF StartPoll, Wake, StreamPending, StreamNotify, vars, CollectInv
<1>3. CASE StreamElement
  <2>1. /\ taken' = taken + 1 /\ taken + 1 \in 1 .. Len(elements) /\ taken \in Nat
        /\ outcome = Running /\ outcome' = Running /\ UNCHANGED <<elements, pc>>
        /\ elements[taken + 1] \in {"ok", "err"}
    BY <1>3, ElementsType DEF StreamElement, Collect, CollectInv
  <2>2. outcome'[1] # "ok" /\ outcome' \notin Errors
    BY <2>1, Distinct DEF Errors
  <2>3. Lists(items, taken) /\ (first_error = NoError \/ IsFirstError(first_error, taken))
    BY <2>1 DEF CollectInv, CollectedInOrder, FirstErrorReturned
  <2>4. \A e : IsFirstError(e, taken) => IsFirstError(e, taken + 1)
    BY <2>1 DEF IsFirstError
  <2>5. CASE elements[taken + 1] = "ok"
    <3>1. items' = Append(items, taken + 1) /\ first_error' = first_error
      BY <1>3, <2>1, <2>5 DEF StreamElement, Collect
    <3>2. Lists(items', taken + 1)
      BY <2>1, <2>3, <2>5, <3>1, ListsMore DEF TypeOK
    <3>3. first_error' = NoError => \A i \in 1 .. taken + 1 : elements[i] = "ok"
      BY <2>1, <2>5, <3>1 DEF CollectInv
    <3>4. first_error' = NoError \/ IsFirstError(first_error', taken + 1)
      BY <2>3, <2>4, <3>1
    <3> QED BY <2>1, <2>2, <3>2, <3>3, <3>4
            DEF CollectInv, CollectedInOrder, FirstErrorReturned, Lists, IsFirstError
  <2>6. CASE elements[taken + 1] = "err"
    <3>1. /\ items' = items
          /\ first_error' = IF first_error = NoError THEN Error(taken + 1) ELSE first_error
      BY <1>3, <2>1, <2>6 DEF StreamElement, Collect
    <3>2. Lists(items', taken + 1)
      BY <2>3, <2>6, <3>1, ListsSame
    <3>3. first_error' # NoError
      BY <3>1, Distinct
    <3>4. IsFirstError(first_error', taken + 1)
      <4>1. CASE first_error = NoError
        <5>1. \A j \in 1 .. taken : elements[j] = "ok"
          BY <2>1, <4>1 DEF CollectInv
        <5>2. taken + 1 \in 1 .. taken + 1 /\ (taken + 1) - 1 = taken
          BY <2>1
        <5> QED BY <2>6, <3>1, <4>1, <5>1, <5>2 DEF IsFirstError
      <4>2. CASE first_error # NoError
        BY <2>3, <2>4, <3>1, <4>2
      <4> QED BY <4>1, <4>2
    <3> QED BY <2>1, <2>2, <3>2, <3>3, <3>4
            DEF CollectInv, CollectedInOrder, FirstErrorReturned, Lists, IsFirstError
  <2> QED BY <2>1, <2>5, <2>6
<1>4. CASE StreamEnd
  <2>1. taken = Len(elements) /\ outcome = Running /\ UNCHANGED elements /\ pc' = "asleep"
    BY <1>4 DEF StreamEnd, CollectInv
  <2>2. Lists(items, Len(elements))
        /\ (first_error = NoError \/ IsFirstError(first_error, Len(elements)))
    BY <2>1 DEF CollectInv, CollectedInOrder, FirstErrorReturned
  <2>3. CASE first_error = NoError
    <3>1. outcome' = OkWith(items)
      BY <1>4, <2>3 DEF StreamEnd, Exhausted
    <3>2. outcome'[1] = "ok" /\ outcome'[2] = items /\ outcome' \notin Errors /\ outcome' # Running
      BY <3>1, Distinct DEF Errors
    <3>3. \A i \in DOMAIN elements : elements[i] = "ok"
      BY <2>1, <2>3, ElementsType DEF CollectInv
    <3> QED BY <2>1, <2>2, <3>2, <3>3
            DEF CollectInv, CollectedInOrder, FirstErrorReturned, Lists
  <2>4. CASE first_error # NoError
    <3>1. outcome' = first_error /\ first_error \in Errors
      BY <1>4, <2>4 DEF StreamEnd, Exhausted, TypeOK
    <3>2. outcome' # Running /\ outcome'[1] # "ok"
      BY <3>1, Distinct DEF Errors
    <3>3. IsFirstError(outcome', Len(elements))
      BY <2>2, <2>4, <3>1
    <3> QED BY <2>1, <3>2, <3>3
            DEF CollectInv, CollectedInOrder, FirstErrorReturned, IsFirstError
  <2> QED BY <2>3, <2>4
<1>5. CASE Drop
  <2>1. outcome' = Dropped /\ pc' = "asleep"
    BY <1>5 DEF Drop, Abandon
  <2>2. outcome' # Running /\ outcome'[1] # "ok" /\ outcome' \notin Errors
    BY <2>1, Distinct DEF Errors
  <2> QED BY <2>1, <2>2 DEF CollectInv, CollectedInOrder, FirstErrorReturned
<1> QED BY <1>2, <1>3, <1>4, <1>5 DEF Next, Poll

LEMMA CollectInvariant == Spec => [](TypeOK /\ CollectInv)
<1>1. Init => TypeOK /\ CollectInv
  BY InitType, CollectInit
<1>2. TypeOK /\ CollectInv /\ [Next]_vars => TypeOK' /\ CollectInv'
  BY TypeStep, CollectStep
<1> QED BY <1>1, <1>2, PTL DEF Spec

\* The collection is the stream, in its order, up to where it is or to its end.
THEOREM CollectedCorrect == Spec => []CollectedInOrder
<1>1. CollectInv => CollectedInOrder
  BY DEF CollectInv
<1> QED BY <1>1, CollectInvariant, PTL

\* The error cached, and the one returned, is the first of the stream.
THEOREM FirstErrorCorrect == Spec => []FirstErrorReturned
<1>1. CollectInv => FirstErrorReturned
  BY DEF CollectInv
<1> QED BY <1>1, CollectInvariant, PTL

\* A task that sleeps and is not woken has left its waker with the stream, also
\* after any number of errors.
THEOREM WakeupCorrect == Spec => []WakeupComing
<1>1. Init => WakeupComing
  BY DEF Init, WakeupComing
<1>2. TypeOK /\ WakeupComing /\ [Next]_vars => WakeupComing'
  <2> SUFFICES ASSUME TypeOK, WakeupComing, [Next]_vars PROVE WakeupComing'
    OBVIOUS
  <2> USE DEF WakeupComing, collectVars, streamVars
  <2>1. CASE StartPoll \/ StreamPending \/ StreamNotify \/ UNCHANGED vars
    BY <2>1 DEF StartPoll, Wake, StreamPending, StreamNotify, vars, TypeOK
  <2>2. CASE StreamElement
    BY <2>2 DEF StreamElement
  <2>3. CASE StreamEnd
    <3>1. outcome' # Running
      BY <2>3, Distinct DEF StreamEnd, Exhausted, TypeOK, Errors
    <3> QED BY <3>1
  <2>4. CASE Drop
    BY <2>4, Distinct DEF Drop, Abandon
  <2> QED BY <2>1, <2>2, <2>3, <2>4 DEF Next, Poll
<1> QED BY <1>1, <1>2, TypeCorrect, PTL DEF Spec

-----------------------------------------------------------------------------
(***************************************************************************)
(* The refinement.                                                         *)
(***************************************************************************)

\* What ThenTry sees of the errors and of the outcome.
ErrorSet == {Error(i) : i \in {j \in 1 .. taken : elements[j] = "err"}}
Seen     == IF outcome[1] = "ok" THEN <<"ok">> ELSE outcome

LEMMA AbstractStep ==
  ASSUME TypeOK, CollectInv, [Next]_vars
  PROVE  [Abstract!Next]_(Abstract!vars)
<1> USE DEF Abstract!Next, Abstract!vars, collectVars, streamVars
<1>1. CASE StartPoll \/ StreamPending \/ StreamNotify \/ UNCHANGED vars
  BY <1>1 DEF StartPoll, Wake, StreamPending, StreamNotify, vars
<1>2. CASE StreamElement
  <2>1. /\ taken' = taken + 1 /\ taken \in Nat /\ Len(elements) \in Nat
        /\ outcome = Running /\ outcome' = Running /\ UNCHANGED elements
    BY <1>2, ElementsType DEF StreamElement, Collect, CollectInv
  <2>2. Seen = Running /\ Seen' = Running
    BY <2>1, Distinct DEF Seen
  <2>3. taken' + 1 .. Len(elements') \in SUBSET (taken + 1 .. Len(elements))
    BY <2>1
  <2>4. ErrorSet \subseteq ErrorSet'
    BY <2>1 DEF ErrorSet
  <2> QED BY <2>2, <2>3, <2>4 DEF Abstract!Run, Seen, ErrorSet
<1>3. CASE StreamEnd
  <2>1. taken = Len(elements) /\ Len(elements) \in Nat /\ outcome = Running
        /\ UNCHANGED <<elements, taken>>
    BY <1>3, ElementsType DEF StreamEnd, CollectInv
  <2>2. taken + 1 .. Len(elements) = {} /\ Seen = Running
    BY <2>1, Distinct DEF Seen
  <2>3. UNCHANGED <<taken + 1 .. Len(elements), ErrorSet>>
    BY <2>1 DEF ErrorSet
  <2>4. Seen' \in IF ErrorSet = {} THEN {<<"ok">>} ELSE ErrorSet
    <3>1. CASE first_error = NoError
      <4>1. ErrorSet = {}
        BY <2>1, <3>1 DEF CollectInv, ErrorSet
      <4>2. outcome' = OkWith(items)
        BY <1>3, <3>1 DEF StreamEnd, Exhausted
      <4> QED BY <4>1, <4>2, Distinct DEF Seen
    <3>2. CASE first_error # NoError
      <4>1. IsFirstError(first_error, taken)
        BY <2>1, <3>2 DEF CollectInv, FirstErrorReturned
      <4>2. first_error \in ErrorSet
        BY <4>1 DEF IsFirstError, ErrorSet
      <4>3. outcome' = first_error /\ first_error \in Errors
        BY <1>3, <3>2 DEF StreamEnd, Exhausted, TypeOK
      <4>4. Seen' = first_error
        BY <4>3, Distinct DEF Seen, Errors
      <4> QED BY <4>2, <4>4
    <3> QED BY <3>1, <3>2
  <2> QED BY <2>2, <2>3, <2>4 DEF Abstract!Exit, Seen, ErrorSet
<1>4. CASE Drop
  <2>1. outcome = Running /\ outcome' = Dropped /\ UNCHANGED <<elements, taken>>
    BY <1>4 DEF Drop, Abandon
  <2>2. Seen = Running /\ Seen' = Dropped
    BY <2>1, Distinct DEF Seen
  <2>3. UNCHANGED <<taken + 1 .. Len(elements), ErrorSet>>
    BY <2>1 DEF ErrorSet
  <2> QED BY <2>2, <2>3 DEF Abstract!Drop, Seen, ErrorSet
<1> QED BY <1>1, <1>2, <1>3, <1>4 DEF Next, Poll

\* The adapter keeps the promise of ThenTry: it exits after the whole stream.
THEOREM CollectImplementsThenTry == Spec => ImplementsThenTry
<1>1. Init => Abstract!Init
  <2> SUFFICES ASSUME Init PROVE Abstract!Init
    OBVIOUS
  <2>1. Seen = Running /\ ErrorSet = {}
    BY Distinct DEF Init, Seen, ErrorSet
  <2> QED BY <2>1 DEF Abstract!Init, Seen, ErrorSet
<1>2. TypeOK /\ CollectInv /\ [Next]_vars => [Abstract!Next]_(Abstract!vars)
  BY AbstractStep
<1> QED BY <1>1, <1>2, CollectInvariant, PTL DEF Spec, ImplementsThenTry, Abstract!Spec

=============================================================================
