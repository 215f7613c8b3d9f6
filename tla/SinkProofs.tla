------------------------------- MODULE SinkProofs -------------------------------
(***************************************************************************)
(* Proofs about SinkReserve, for any number of items and any capacity of   *)
(* the sink.                                                               *)
(***************************************************************************)
EXTENDS SinkProps, TLAPS, SequenceTheorems

-----------------------------------------------------------------------------
(***************************************************************************)
(* The reservation.                                                        *)
(***************************************************************************)

\* Who has the sink, and what that means.  A reservation holds the task to an item
\* that is still to be sent; the future that has the sink is the one that exists;
\* a poll is where its state says; and once a flush_reserve has flushed, nothing
\* gets into the sink before its permit is used.
ReserveInv ==
  /\ ready => Len(buffer) < Capacity
  /\ holder = "permit" => ready /\ state = "Reserve"
  /\ holder \in {"future", "permit"} => next <= MaxItems
  /\ holder = "future" => alive
  /\ TerminatedMeansIssued
  /\ pc # "asleep" => alive
  /\ pc = "poll_flush" => state = "PollFlush"
  /\ pc = "poll_ready" => state = "Reserve"
  /\ adapter = "flush_reserve" /\ state = "Reserve" /\ holder \in {"future", "permit"}
       => buffer = <<>>

LEMMA InitInv == Init => TypeOK /\ ReserveInv
<1> SUFFICES ASSUME Init PROVE TypeOK /\ ReserveInv
  OBVIOUS
<1>1. buffer \in Seq(1 .. MaxItems) /\ delivered \in Seq(1 .. MaxItems) /\ Len(buffer) = 0
  BY EmptySeq DEF Init
<1>2. {buffer, delivered} \subseteq Seq(1 .. MaxItems)
  BY <1>1
<1>3. next \in 1 .. MaxItems + 1 /\ Len(buffer) <= Capacity
  BY <1>1, SinkAssumption DEF Init
<1>4. {ready, broken, sinkWaker, alive, woken} \subseteq BOOLEAN
  BY DEF Init
<1>5. TypeOK
  BY <1>2, <1>3, <1>4 DEF Init, TypeOK
<1>6. ReserveInv
  BY <1>1, SinkAssumption DEF Init, ReserveInv, TerminatedMeansIssued, is_terminated
<1> QED BY <1>5, <1>6

\* An item in the sink, where there is room for it.
LEMMA SendStep ==
  ASSUME TypeOK, ReserveInv, UsePermit, start_send, holder' \in {"task", "flush"},
         woken' \in BOOLEAN, outcome' = outcome
  PROVE  TypeOK' /\ ReserveInv'
<1> USE DEF sinkVars, adapterVars
<1>1. /\ holder = "permit" /\ pc = "asleep" /\ next' = next + 1 /\ buffer' = Append(buffer, next)
      /\ ready' \in BOOLEAN /\ (Len(buffer') = Capacity => ~ready')
      /\ UNCHANGED <<delivered, broken, sinkWaker, adapter, alive, sink, state, pc>>
  BY DEF UsePermit, start_send
<1>2. /\ next \in 1 .. MaxItems /\ Len(buffer) \in Nat /\ Len(buffer) < Capacity
      /\ buffer \in Seq(1 .. MaxItems) /\ Capacity \in Nat /\ MaxItems \in Nat
  BY <1>1, LenProperties, SinkAssumption DEF TypeOK, ReserveInv
<1>3. buffer' \in Seq(1 .. MaxItems) /\ Len(buffer') = Len(buffer) + 1
  BY <1>1, <1>2, AppendProperties
<1>4. next' \in 1 .. MaxItems + 1 /\ Len(buffer') <= Capacity
  BY <1>1, <1>2, <1>3
<1>5. TypeOK'
  <2>1. {buffer, delivered}' \subseteq Seq(1 .. MaxItems)
    BY <1>1, <1>3 DEF TypeOK
  <2>2. {ready, broken, sinkWaker, alive, woken}' \subseteq BOOLEAN
    BY <1>1 DEF TypeOK
  <2> QED BY <1>1, <1>4, <2>1, <2>2 DEF TypeOK
<1>6. ready' => Len(buffer') < Capacity
  BY <1>1, <1>2, <1>3, <1>4
<1>7. ReserveInv'
  BY <1>1, <1>6 DEF ReserveInv, TerminatedMeansIssued, is_terminated
<1> QED BY <1>5, <1>7

LEMMA InvStep == TypeOK /\ ReserveInv /\ [Next]_vars => TypeOK' /\ ReserveInv'
<1> SUFFICES ASSUME TypeOK, ReserveInv, [Next]_vars PROVE TypeOK' /\ ReserveInv'
  OBVIOUS
<1> USE DEF sinkVars, adapterVars, HasSink, is_terminated
<1>0. next \in 1 .. MaxItems + 1 /\ Error(next) \in {Error(i) : i \in 1 .. MaxItems + 1}
  BY DEF TypeOK
<1>1. CASE StartPoll
  BY <1>1 DEF StartPoll, Wake, TypeOK, ReserveInv, TerminatedMeansIssued
<1>2. CASE PollPending \/ PollTerminated
  <2>1. /\ pc' = "asleep" /\ sinkWaker' \in BOOLEAN
        /\ UNCHANGED <<next, buffer, delivered, ready, broken, woken, outcome, holder,
                       adapter, alive, sink, state>>
    BY <1>2 DEF PollPending, PollTerminated, Return, TypeOK
  <2>2. TypeOK'
    BY <2>1 DEF TypeOK
  <2>3. ReserveInv'
    BY <2>1 DEF ReserveInv, TerminatedMeansIssued
  <2> QED BY <2>2, <2>3
<1>3. CASE PollErr
  <2>1. /\ pc' = "asleep" /\ outcome' \in {Error(i) : i \in 1 .. MaxItems + 1}
        /\ UNCHANGED <<next, buffer, delivered, ready, broken, woken, sinkWaker, holder,
                       adapter, alive, sink, state>>
    BY <1>0, <1>3 DEF PollErr, Fail, Return
  <2>2. TypeOK'
    BY <2>1 DEF TypeOK
  <2>3. ReserveInv'
    BY <2>1 DEF ReserveInv, TerminatedMeansIssued
  <2> QED BY <2>2, <2>3
<1>4. CASE FlushReady
  BY <1>4 DEF FlushReady, TypeOK, ReserveInv, TerminatedMeansIssued
<1>5. CASE ReserveReady
  <2>1. /\ pc = "poll_ready" /\ sink = "some" /\ ready /\ sink' = "none" /\ holder' = "permit"
        /\ pc' = "asleep"
        /\ UNCHANGED <<next, buffer, delivered, ready, broken, woken, sinkWaker, adapter, alive,
                       state, outcome>>
    BY <1>5 DEF ReserveReady, Return
  <2>2. alive /\ holder = "future" /\ state = "Reserve"
    BY <2>1 DEF ReserveInv, TerminatedMeansIssued
  <2>3. TypeOK'
    BY <2>1 DEF TypeOK
  <2>4. ReserveInv'
    BY <2>1, <2>2 DEF ReserveInv, TerminatedMeansIssued
  <2> QED BY <2>3, <2>4
<1>6. CASE PollFlush
  <2>1. /\ holder = "flush" /\ holder' \in {"flush", "task"} /\ {woken', sinkWaker'} \subseteq BOOLEAN
        /\ outcome' = outcome \/ outcome' = Error(next)
        /\ UNCHANGED <<next, buffer, delivered, ready, broken, adapter, alive, sink, state, pc>>
    BY <1>6 DEF PollFlush, Fail, TypeOK
  <2>2. TypeOK'
    BY <1>0, <2>1 DEF TypeOK
  <2>3. ReserveInv'
    BY <2>1 DEF ReserveInv, TerminatedMeansIssued
  <2> QED BY <2>2, <2>3
<1>7. CASE reserve \/ flush_reserve
  <2>1. /\ next <= MaxItems /\ holder' = "future" /\ alive' = TRUE /\ sink' = "some" /\ woken' = TRUE
        /\ \/ adapter' = "reserve" /\ state' = "Reserve"
           \/ adapter' = "flush_reserve" /\ state' = "PollFlush"
        /\ UNCHANGED <<next, buffer, delivered, ready, broken, sinkWaker, pc, outcome>>
    BY <1>7 DEF reserve, flush_reserve, Make, NewReserve
  <2>2. pc = "asleep"
    BY <1>7 DEF reserve, flush_reserve, Make, ReserveInv, TypeOK
  <2>3. {ready, broken, sinkWaker, alive, woken}' \subseteq BOOLEAN
    BY <2>1 DEF TypeOK
  <2>4. TypeOK'
    BY <2>1, <2>3 DEF TypeOK
  <2>5. ReserveInv'
    BY <2>1, <2>2 DEF ReserveInv, TerminatedMeansIssued
  <2> QED BY <2>4, <2>5
<1>8. CASE DropFuture
  BY <1>8 DEF DropFuture, TypeOK, ReserveInv, TerminatedMeansIssued
<1>9. CASE feed \/ send
  BY <1>9, SendStep DEF feed, send, TypeOK
<1>10. CASE SendErr
  BY <1>0, <1>10 DEF SendErr, UsePermit, Fail, TypeOK, ReserveInv, TerminatedMeansIssued
<1>11. CASE DropPermit \/ DropFlush
  BY <1>11 DEF DropPermit, DropFlush, UsePermit, TypeOK, ReserveInv, TerminatedMeansIssued
<1>12. CASE Deliver
  <2>1. /\ buffer # <<>> /\ delivered' = Append(delivered, Head(buffer)) /\ buffer' = Tail(buffer)
        /\ UNCHANGED <<ready, next, broken, holder, adapter, alive, sink, state, pc, outcome>>
        /\ sinkWaker' = FALSE /\ woken' \in BOOLEAN
    BY <1>12 DEF Deliver, Event, TypeOK
  <2>2. /\ Len(buffer) \in Nat \ {0} /\ Capacity \in Nat /\ Len(buffer) <= Capacity
        /\ Head(buffer) \in 1 .. MaxItems /\ Tail(buffer) \in Seq(1 .. MaxItems)
        /\ Len(Tail(buffer)) = Len(buffer) - 1
    BY <2>1, EmptySeq, HeadTailProperties, SinkAssumption DEF TypeOK
  <2>3. delivered' \in Seq(1 .. MaxItems)
    BY <2>1, <2>2, AppendProperties DEF TypeOK
  <2>4. Len(buffer') <= Capacity /\ (Len(buffer) < Capacity => Len(buffer') < Capacity)
    BY <2>1, <2>2
  <2>5. TypeOK'
    <3>1. {buffer, delivered}' \subseteq Seq(1 .. MaxItems)
      BY <2>1, <2>2, <2>3
    <3>2. {ready, broken, sinkWaker, alive, woken}' \subseteq BOOLEAN
      BY <2>1 DEF TypeOK
    <3> QED BY <2>1, <2>4, <3>1, <3>2 DEF TypeOK
  <2>6. ReserveInv'
    BY <2>1, <2>4 DEF ReserveInv, TerminatedMeansIssued
  <2> QED BY <2>5, <2>6
<1>13. CASE GetReady
  BY <1>13 DEF GetReady, Event, TypeOK, ReserveInv, TerminatedMeansIssued
<1>14. CASE Break
  BY <1>14 DEF Break, TypeOK, ReserveInv, TerminatedMeansIssued
<1>15. CASE UNCHANGED vars
  BY <1>15 DEF vars, TypeOK, ReserveInv, TerminatedMeansIssued
<1> QED
  BY <1>1, <1>2, <1>3, <1>4, <1>5, <1>6, <1>7, <1>8, <1>9, <1>10, <1>11, <1>12, <1>13, <1>14, <1>15
     DEF Next, Poll, TaskStep, SinkStep

LEMMA Invariant == Spec => [](TypeOK /\ ReserveInv)
<1>1. Init => TypeOK /\ ReserveInv
  BY InitInv
<1>2. TypeOK /\ ReserveInv /\ [Next]_vars => TypeOK' /\ ReserveInv'
  BY InvStep
<1> QED BY <1>1, <1>2, PTL DEF Spec

\* Every variable keeps its type; among others, the sink never gets more than it
\* has room for.
THEOREM TypeCorrect == Spec => []TypeOK
BY Invariant, PTL

\* A permit is given out and kept only while the sink is ready for its item.
THEOREM PermitCorrect == Spec => []PermitMeansReady
<1>1. TypeOK /\ ReserveInv => PermitMeansReady
  <2> SUFFICES ASSUME TypeOK, ReserveInv, holder = "permit"
               PROVE  /\ ready /\ Len(buffer) < Capacity
                      /\ adapter = "flush_reserve" => buffer = <<>>
    BY DEF PermitMeansReady
  <2> QED BY DEF ReserveInv
<1> QED BY <1>1, Invariant, PTL

\* Futures that are terminated have issued their permit, and no poll panics.
THEOREM TerminatedCorrect == Spec => []TerminatedMeansIssued
<1>1. ReserveInv => TerminatedMeansIssued
  BY DEF ReserveInv
<1> QED BY <1>1, Invariant, PTL

-----------------------------------------------------------------------------
(***************************************************************************)
(* The items.                                                              *)
(***************************************************************************)

\* Moving the head of a sequence to the end of the one before leaves the two together
\* what they were.
LEMMA MoveHead ==
  ASSUME NEW S, NEW s \in Seq(S), NEW t \in Seq(S), t # <<>>
  PROVE  Append(s, Head(t)) \o Tail(t) = s \o t
<1> DEFINE h == <<Head(t)>>
<1>1. Head(t) \in S /\ Tail(t) \in Seq(S) /\ Len(Tail(t)) = Len(t) - 1 /\ Len(t) \in Nat \ {0}
      /\ \A i \in 1 .. Len(Tail(t)) : Tail(t)[i] = t[i + 1]
  BY HeadTailProperties, EmptySeq
<1>2. Append(s, Head(t)) = s \o h
  BY <1>1, AppendIsConcat
<1>3. h \in Seq(S) /\ Len(h) = 1 /\ h[1] = t[1]
  BY <1>1
<1>4. h \o Tail(t) = t
  <2> HIDE DEF h
  <2>1. /\ h \o Tail(t) \in Seq(S) /\ Len(h \o Tail(t)) = Len(h) + Len(Tail(t))
        /\ \A i \in 1 .. Len(h) + Len(Tail(t)) : (h \o Tail(t))[i] =
              IF i <= Len(h) THEN h[i] ELSE Tail(t)[i - Len(h)]
    BY <1>1, <1>3, ConcatProperties
  <2>2. Len(h) + Len(Tail(t)) = Len(t)
    BY <1>1, <1>3
  <2>3. ASSUME NEW i \in 1 .. Len(t) PROVE (h \o Tail(t))[i] = t[i]
    <3>1. (h \o Tail(t))[i] = IF i <= 1 THEN h[i] ELSE Tail(t)[i - 1]
      BY <1>3, <2>1, <2>2
    <3>2. CASE i = 1
      BY <1>3, <3>1, <3>2
    <3>3. CASE i # 1
      <4>1. i - 1 \in 1 .. Len(Tail(t)) /\ (i - 1) + 1 = i
        BY <1>1, <3>3
      <4>2. (h \o Tail(t))[i] = Tail(t)[i - 1]
        <5>1. ~(i <= 1)
          BY <3>3
        <5> QED BY <3>1, <5>1
      <4>3. Tail(t)[i - 1] = t[(i - 1) + 1]
        BY <1>1, <4>1
      <4> QED BY <4>1, <4>2, <4>3
    <3> QED BY <3>2, <3>3
  <2> QED BY <2>1, <2>2, <2>3, SeqEqual
<1>5. (s \o h) \o Tail(t) = s \o (h \o Tail(t))
  BY <1>1, <1>3, ConcatAssociative
<1> QED BY <1>2, <1>4, <1>5

\* An item appended to the second of two sequences is appended to them together.
LEMMA AppendToConcat ==
  ASSUME NEW S, NEW n \in S, NEW s \in Seq(S), NEW t \in Seq(S)
  PROVE  s \o Append(t, n) = Append(s \o t, n)
<1> DEFINE e == <<n>>
<1>1. Append(t, n) = t \o e /\ Append(s \o t, n) = (s \o t) \o e
  BY AppendIsConcat, ConcatProperties
<1>2. e \in Seq(S)
  OBVIOUS
<1>3. (s \o t) \o e = s \o (t \o e)
  <2> HIDE DEF e
  <2> QED BY <1>2, ConcatAssociative
<1> QED BY <1>1, <1>3

\* The items before the one to send next are the first items.
FirstItems(n) == [i \in 1 .. n |-> i]

\* Counting on: one more number at the end of the numbers before it.
LEMMA CountOn ==
  ASSUME NEW S, NEW n \in S, n \in Nat \ {0}, NEW s \in Seq(S), NEW t \in Seq(S),
         s \o t = FirstItems(n - 1)
  PROVE  s \o Append(t, n) = FirstItems(n)
<1>0. s \o Append(t, n) = Append(s \o t, n)
  BY AppendToConcat
<1> USE DEF FirstItems
<1> DEFINE c == s \o t
<1>1. c \in Seq(S) /\ c = [i \in 1 .. n - 1 |-> i]
  BY ConcatProperties
<1>2. s \o Append(t, n) = Append(c, n)
  BY <1>0
<1>3. Append(c, n) = [i \in 1 .. n |-> i]
  <2> HIDE DEF c
  <2>1. Len(c) = n - 1
    <3>1. DOMAIN c = 1 .. n - 1 /\ DOMAIN c = 1 .. Len(c) /\ Len(c) \in Nat
      BY <1>1, LenProperties
    <3> QED BY <3>1
  <2>2. /\ Append(c, n) \in Seq(S) /\ Len(Append(c, n)) = Len(c) + 1
        /\ \A i \in 1 .. Len(c) : Append(c, n)[i] = c[i]
        /\ Append(c, n)[Len(c) + 1] = n
    BY <1>1, AppendProperties
  <2>3. Len(c) + 1 = n
    BY <2>1
  <2>4. ASSUME NEW i \in 1 .. n PROVE Append(c, n)[i] = i
    <3>1. CASE i = n
      BY <2>2, <2>3, <3>1
    <3>2. CASE i # n
      <4>1. i \in 1 .. n - 1
        BY <3>2
      <4> QED BY <1>1, <2>1, <2>2, <4>1
    <3> QED BY <3>1, <3>2
  <2>5. Append(c, n) \in [1 .. n -> S]
    BY <2>2, <2>3, LenProperties
  <2> QED BY <2>4, <2>5
<1> QED BY <1>2, <1>3

\* Whatever is dropped, and in whatever state the sink is, the items reach it once
\* each and in order.
THEOREM ItemsCorrect == Spec => []ItemsSentOnce
<1>1. Init => ItemsSentOnce
  <2> SUFFICES ASSUME Init PROVE ItemsSentOnce
    OBVIOUS
  <2>1. delivered \o buffer = <<>>
    BY ConcatEmptySeq, EmptySeq DEF Init
  <2>2. [i \in 1 .. next - 1 |-> i] = <<>>
    BY DEF Init
  <2> QED BY <2>1, <2>2 DEF ItemsSentOnce
<1>2. ASSUME TypeOK, ReserveInv, ItemsSentOnce, [Next]_vars
      PROVE  ItemsSentOnce'
  <2>1. CASE UNCHANGED <<next, buffer, delivered>>
    BY <1>2, <2>1 DEF ItemsSentOnce
  <2>2. CASE start_send /\ UsePermit
    <3>1. next \in Nat \ {0} /\ next' = next + 1 /\ delivered' = delivered
          /\ buffer' = Append(buffer, next)
      BY <1>2, <2>2 DEF start_send, TypeOK
    <3>2. delivered \o buffer = FirstItems(next - 1)
      BY <1>2 DEF ItemsSentOnce, FirstItems
    <3>3. next \in 1 .. MaxItems /\ delivered \in Seq(1 .. MaxItems) /\ buffer \in Seq(1 .. MaxItems)
      BY <1>2, <2>2, SinkAssumption DEF UsePermit, TypeOK, ReserveInv
    <3>4. delivered \o Append(buffer, next) = FirstItems(next)
      BY <3>1, <3>2, <3>3, CountOn
    <3>5. next' - 1 = next
      BY <3>1
    <3> QED BY <3>1, <3>4, <3>5 DEF ItemsSentOnce, FirstItems
  <2>3. CASE Deliver
    <3>1. delivered' \o buffer' = delivered \o buffer /\ next' = next
      BY <1>2, <2>3, MoveHead DEF Deliver, Event, TypeOK
    <3> QED BY <1>2, <3>1 DEF ItemsSentOnce
  <2> QED
    BY <1>2, <2>1, <2>2, <2>3
       DEF Next, Poll, TaskStep, SinkStep, vars, sinkVars, adapterVars, StartPoll, PollPending,
           PollErr, FlushReady, ReserveReady, PollTerminated, Return, PollFlush, reserve,
           flush_reserve, Make, DropFuture, feed, send, SendErr, DropPermit, DropFlush,
           GetReady, Break, Event
<1> QED BY <1>1, <1>2, Invariant, PTL DEF Spec

-----------------------------------------------------------------------------
(***************************************************************************)
(* The wakeups.                                                            *)
(***************************************************************************)

\* A poll is of a future, never of a Flush: what WakeupComing takes for the thing
\* awaited is the one the last poll has found in the way.
WakeInv == WakeupComing /\ (pc # "asleep" => holder # "flush")

LEMMA WakeStep ==
  ASSUME TypeOK, ReserveInv, WakeInv, [Next]_vars
  PROVE  WakeInv'
<1> USE DEF sinkVars, adapterVars, HasSink, is_terminated, WakeInv, WakeupComing
<1>1. CASE StartPoll
  BY <1>1 DEF StartPoll, Wake
<1>2. CASE PollPending
  <2>1. /\ ~broken /\ sinkWaker' = TRUE
        /\ \/ pc = "poll_flush" /\ buffer # <<>>
           \/ pc = "poll_ready" /\ ~ready
        /\ UNCHANGED <<buffer, ready, broken, holder, state>>
    BY <1>2 DEF PollPending, Return
  <2>2. /\ pc = "poll_flush" => state = "PollFlush"
        /\ pc = "poll_ready" => state = "Reserve"
        /\ holder # "flush"
    BY <2>1 DEF ReserveInv
  <2>3. pc' = "asleep"
    BY <1>2 DEF PollPending, Return
  <2> QED BY <2>1, <2>2, <2>3
<1>3. CASE PollErr
  BY <1>3 DEF PollErr, Fail, Return, Error, Running
<1>4. CASE FlushReady
  BY <1>4 DEF FlushReady
<1>5. CASE ReserveReady
  BY <1>5 DEF ReserveReady, Return
<1>6. CASE PollTerminated
  BY <1>6 DEF PollTerminated, Return, ReserveInv, TerminatedMeansIssued
<1>7. CASE PollFlush
  BY <1>7 DEF PollFlush, Fail, Error, Running, TypeOK
<1>8. CASE reserve \/ flush_reserve
  BY <1>8 DEF reserve, flush_reserve, Make, NewReserve
<1>9. CASE DropFuture
  BY <1>9 DEF DropFuture
<1>10. CASE feed \/ send
  BY <1>10 DEF feed, send, UsePermit, start_send
<1>11. CASE SendErr \/ DropPermit \/ DropFlush
  BY <1>11 DEF SendErr, DropPermit, DropFlush, UsePermit
<1>12. CASE Deliver \/ GetReady \/ Break
  BY <1>12 DEF Deliver, GetReady, Break, Event
<1>13. CASE UNCHANGED vars
  BY <1>13 DEF vars
<1> QED
  BY <1>1, <1>2, <1>3, <1>4, <1>5, <1>6, <1>7, <1>8, <1>9, <1>10, <1>11, <1>12, <1>13
     DEF Next, Poll, TaskStep, SinkStep

\* No wakeup is lost: whatever is dropped, and whatever the sink does while it is
\* polled, a task that sleeps on it is going to be woken.
THEOREM WakeupCorrect == Spec => []WakeupComing
<1>1. Init => WakeInv
  BY DEF Init, WakeInv, WakeupComing
<1>2. ASSUME TypeOK, ReserveInv, WakeInv, [Next]_vars
      PROVE  WakeInv'
  BY <1>2, WakeStep
<1>3. WakeInv => WakeupComing
  BY DEF WakeInv
<1> QED BY <1>1, <1>2, <1>3, Invariant, PTL DEF Spec

=============================================================================
