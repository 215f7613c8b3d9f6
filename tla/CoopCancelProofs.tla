---------------------------- MODULE CoopCancelProofs ----------------------------
(***************************************************************************)
(* Proofs about CoopCancel, for any set of Cancelers and any number of     *)
(* messages.                                                               *)
(***************************************************************************)
EXTENDS CoopCancelProps, TLAPS, SequenceTheorems

-----------------------------------------------------------------------------
(***************************************************************************)
(* Types.                                                                  *)
(***************************************************************************)

\* The messages sent so far are those of later, too.
LEMMA SentGrows ==
  ASSUME NEW n \in Nat, NEW s \in Seq(1 .. n)
  PROVE  s \in Seq(1 .. n + 1)
<1>1. 1 .. n \subseteq 1 .. n + 1
  OBVIOUS
<1> QED BY <1>1, SeqMonotonic

LEMMA InitType == Init => TypeOK
<1> SUFFICES ASSUME Init PROVE TypeOK
  OBVIOUS
<1>1. queue \in Seq(1 .. sent) /\ received \in Seq(1 .. sent)
  BY EmptySeq DEF Init
<1>2. sent \in 0 .. MaxMessages /\ first_sender \in 0 .. sent
  BY MaxMessagesAssumption DEF Init, NoMessage
<1>3. cancelers \subseteq Cancelers /\ waiter \in [Messages -> {"none", "live", "resolved", "dropped"}]
  BY DEF Init
<1> QED BY <1>1, <1>2, <1>3 DEF Init, TypeOK

LEMMA TypeStep == TypeOK /\ [Next]_vars => TypeOK'
<1> SUFFICES ASSUME TypeOK, [Next]_vars PROVE TypeOK'
  OBVIOUS
<1> USE DEF TypeOK
<1>1. ASSUME NEW c \in Cancelers, NEW d \in Cancelers, Clone(c, d)  PROVE TypeOK'
  BY <1>1 DEF Clone
<1>2. ASSUME NEW c \in Cancelers, DropCanceler(c)  PROVE TypeOK'
  BY <1>2 DEF DropCanceler
<1>3. ASSUME NEW c \in Cancelers, Cancel(c)  PROVE TypeOK'
  <2>1. sent \in Nat /\ sent' = sent + 1 /\ sent' \in 0 .. MaxMessages
    BY <1>3, MaxMessagesAssumption DEF Cancel, NewPayload
  <2>2. queue \in Seq(1 .. sent') /\ received \in Seq(1 .. sent') /\ sent' \in 1 .. sent'
    BY <2>1, SentGrows
  <2>3. Append(queue, sent') \in Seq(1 .. sent')
    BY <2>2, AppendProperties
  <2>4. waiter' \in [Messages -> {"none", "live", "resolved", "dropped"}]
    BY <1>3 DEF Cancel, NewPayload
  <2>5. first_sender \in 0 .. sent'
    BY <2>1
  <2> QED BY <1>3, <2>1, <2>2, <2>3, <2>4, <2>5 DEF Cancel
<1>4. CASE Recv \/ RecvNone \/ DropRecv
  BY <1>4 DEF Recv, RecvNone, DropRecv
<1>5. CASE RecvSome
  <2>1. /\ Head(queue) \in 1 .. sent /\ Tail(queue) \in Seq(1 .. sent)
        /\ Append(received, Head(queue)) \in Seq(1 .. sent)
    BY <1>5, HeadTailProperties, AppendProperties DEF RecvSome
  <2> QED BY <1>5, <2>1 DEF RecvSome
<1>6. CASE DropReceiver
  BY <1>6, EmptySeq DEF DropReceiver
<1>7. CASE DropFirstSender
  BY <1>7 DEF DropFirstSender, NoMessage
<1>8. ASSUME NEW m \in Messages, WaiterReady(m) \/ DropWaiter(m)  PROVE TypeOK'
  BY <1>8 DEF WaiterReady, DropWaiter
<1>9. CASE UNCHANGED vars
  BY <1>9 DEF vars
<1> QED BY <1>1, <1>2, <1>3, <1>4, <1>5, <1>6, <1>7, <1>8, <1>9 DEF Next

\* Every variable keeps its type.
THEOREM TypeCorrect == Spec => []TypeOK
<1>1. Init => TypeOK
  BY InitType
<1>2. TypeOK /\ [Next]_vars => TypeOK'
  BY TypeStep
<1> QED BY <1>1, <1>2, PTL DEF Spec

-----------------------------------------------------------------------------
(***************************************************************************)
(* What is received.                                                       *)
(***************************************************************************)

\* While there is a Receiver, the channel holds the messages from the one after
\* first_sender to the last one sent.  recv() only waits before the first, and
\* first_sender is the message received until it is dropped.
OrderInv ==
  /\ first_sender \in {NoMessage, 1}
  /\ receiver = "open" =>
       /\ Len(queue) + first_sender = sent
       /\ \A k \in 1 .. Len(queue) : queue[k] = k + first_sender
  /\ recv = "pending" => receiver = "open" /\ first_sender = NoMessage
  /\ receiver \in {"open", "closed"} =>
       received = IF first_sender = NoMessage THEN <<>> ELSE <<1>>
  /\ OnlyFirstReceived

LEMMA OrderInit == Init => OrderInv
BY DEF Init, OrderInv, OnlyFirstReceived, NoMessage

LEMMA OrderStep == TypeOK /\ OrderInv /\ [Next]_vars => OrderInv'
<1> SUFFICES ASSUME TypeOK, OrderInv, [Next]_vars PROVE OrderInv'
  OBVIOUS
<1> USE DEF OrderInv, OnlyFirstReceived
<1>1. ASSUME NEW c \in Cancelers, NEW d \in Cancelers, Clone(c, d)  PROVE OrderInv'
  BY <1>1 DEF Clone
<1>2. ASSUME NEW c \in Cancelers, DropCanceler(c)  PROVE OrderInv'
  BY <1>2 DEF DropCanceler
<1>3. ASSUME NEW c \in Cancelers, Cancel(c)  PROVE OrderInv'
  <2>1. /\ receiver = "open" /\ queue' = Append(queue, sent') /\ sent' = sent + 1
        /\ UNCHANGED <<receiver, first_sender, recv, received>>
    BY <1>3 DEF Cancel, NewPayload
  <2>2. /\ sent \in Nat /\ Len(queue) \in Nat /\ first_sender \in Nat
        /\ queue \in Seq(1 .. sent + 1) /\ sent + 1 \in 1 .. sent + 1
    BY MaxMessagesAssumption, SentGrows, LenProperties DEF TypeOK
  <2>3. /\ Len(queue') = Len(queue) + 1
        /\ \A k \in 1 .. Len(queue) : queue'[k] = queue[k]
        /\ queue'[Len(queue) + 1] = sent + 1
    BY <2>1, <2>2, AppendProperties
  <2> QED BY <2>1, <2>2, <2>3
<1>4. CASE Recv \/ RecvNone \/ DropRecv
  BY <1>4 DEF Recv, RecvNone, DropRecv
<1>5. CASE RecvSome
  <2>1. /\ receiver = "open" /\ first_sender = 0 /\ received = <<>> /\ queue # <<>>
        /\ queue' = Tail(queue) /\ first_sender' = Head(queue)
        /\ received' = Append(received, Head(queue)) /\ recv' = "idle"
        /\ UNCHANGED <<receiver, sent>>
    BY <1>5 DEF RecvSome, NoMessage
  <2>2. Len(queue) \in Nat \ {0} /\ sent \in Nat
    BY <2>1, EmptySeq, MaxMessagesAssumption DEF TypeOK
  <2>3. Head(queue) = 1
    BY <2>1, <2>2
  <2>4. /\ Len(Tail(queue)) = Len(queue) - 1
        /\ \A k \in 1 .. Len(Tail(queue)) : Tail(queue)[k] = queue[k + 1]
    BY <2>1, HeadTailProperties DEF TypeOK
  <2>5. received' = <<1>>
    BY <2>1, <2>3
  <2> QED BY <2>1, <2>2, <2>3, <2>4, <2>5 DEF NoMessage
<1>6. CASE DropReceiver
  BY <1>6 DEF DropReceiver
<1>7. CASE DropFirstSender
  BY <1>7 DEF DropFirstSender
<1>8. ASSUME NEW m \in Messages, WaiterReady(m) \/ DropWaiter(m)  PROVE OrderInv'
  BY <1>8 DEF WaiterReady, DropWaiter
<1>9. CASE UNCHANGED vars
  BY <1>9 DEF vars
<1> QED BY <1>1, <1>2, <1>3, <1>4, <1>5, <1>6, <1>7, <1>8, <1>9 DEF Next

LEMMA OrderInvariant == Spec => [](TypeOK /\ OrderInv)
<1>1. Init => TypeOK /\ OrderInv
  BY InitType, OrderInit
<1>2. TypeOK /\ OrderInv /\ [Next]_vars => TypeOK' /\ OrderInv'
  BY TypeStep, OrderStep
<1> QED BY <1>1, <1>2, PTL DEF Spec

\* Whoever sends how many messages, recv() returns the first one sent and no other.
THEOREM OnlyFirstCorrect == Spec => []OnlyFirstReceived
<1>1. OrderInv => OnlyFirstReceived
  BY DEF OrderInv
<1> QED BY <1>1, OrderInvariant, PTL

-----------------------------------------------------------------------------
(***************************************************************************)
(* What is told.                                                           *)
(***************************************************************************)

\* Waiters are made with their messages, and resolve when they should.
WaiterInv ==
  /\ \A m \in Messages : waiter[m] # "none" => m <= sent
  /\ WaiterOutlivesReceiver

\* The sender of a message sent is alive while there is a Receiver.
LEMMA SenderOfSent ==
  ASSUME TypeOK, OrderInv, receiver = "open", NEW m \in 1 .. sent
  PROVE  SenderAlive(m)
<1>1. sent \in Nat /\ Len(queue) \in Nat /\ DOMAIN queue = 1 .. Len(queue)
  BY LenProperties, MaxMessagesAssumption DEF TypeOK
<1>2. CASE m = first_sender
  BY <1>2 DEF SenderAlive
<1>3. CASE m # first_sender
  <2>1. m - first_sender \in 1 .. Len(queue)
    BY <1>1, <1>3 DEF OrderInv, NoMessage
  <2>2. queue[m - first_sender] = m
    BY <1>1, <2>1 DEF OrderInv, NoMessage
  <2> QED BY <1>1, <2>1, <2>2 DEF SenderAlive, ToSet
<1> QED BY <1>2, <1>3

\* So is that of the message received until the last of the Receiver is dropped.
LEMMA SenderOfReceived ==
  ASSUME TypeOK, OrderInv, receiver = "closed", NEW m \in ToSet(received)
  PROVE  SenderAlive(m)
<1>1. received # <<>> => received = <<1>> /\ first_sender = 1
  BY DEF OrderInv
<1>2. received # <<>> /\ m = 1
  BY <1>1 DEF ToSet
<1> QED BY <1>1, <1>2 DEF SenderAlive

LEMMA WaiterInit == Init => WaiterInv
BY DEF Init, WaiterInv, WaiterOutlivesReceiver

LEMMA WaiterStep == TypeOK /\ OrderInv /\ WaiterInv /\ [Next]_vars => WaiterInv'
<1> SUFFICES ASSUME TypeOK, OrderInv, WaiterInv, [Next]_vars PROVE WaiterInv'
  OBVIOUS
<1> USE DEF WaiterInv, WaiterOutlivesReceiver
<1>1. ASSUME NEW c \in Cancelers, NEW d \in Cancelers, Clone(c, d)  PROVE WaiterInv'
  BY <1>1 DEF Clone
<1>2. ASSUME NEW c \in Cancelers, DropCanceler(c)  PROVE WaiterInv'
  BY <1>2 DEF DropCanceler
<1>3. ASSUME NEW c \in Cancelers, Cancel(c)  PROVE WaiterInv'
  <2>1. /\ receiver = "open" /\ sent' = sent + 1 /\ sent \in Nat
        /\ waiter' = [waiter EXCEPT ![sent + 1] = "live"]
        /\ UNCHANGED <<receiver, received>>
    BY <1>3, MaxMessagesAssumption DEF Cancel, NewPayload, TypeOK
  <2>2. \A m \in Messages : m \in Int /\ (m # sent + 1 => waiter'[m] = waiter[m])
                            /\ (m = sent + 1 => waiter'[m] = "live")
    BY <2>1, MaxMessagesAssumption DEF TypeOK, Messages
  <2> QED BY <2>1, <2>2
<1>4. CASE Recv \/ RecvNone \/ DropRecv
  BY <1>4 DEF Recv, RecvNone, DropRecv
<1>5. CASE RecvSome
  BY <1>5 DEF RecvSome, OrderInv
<1>6. CASE DropReceiver
  <2>1. \A m \in Messages : waiter[m] # "resolved"
    BY <1>6 DEF DropReceiver
  <2> QED BY <1>6, <2>1 DEF DropReceiver
<1>7. CASE DropFirstSender
  BY <1>7 DEF DropFirstSender
<1>8. ASSUME NEW m \in Messages, WaiterReady(m)  PROVE WaiterInv'
  <2>1. /\ waiter[m] = "live" /\ ~SenderAlive(m) /\ waiter' = [waiter EXCEPT ![m] = "resolved"]
        /\ UNCHANGED <<sent, receiver, received>>
    BY <1>8 DEF WaiterReady
  <2>2. m \in 1 .. sent
    BY <2>1, MaxMessagesAssumption DEF TypeOK, Messages
  <2>3. receiver # "open" /\ (m \in ToSet(received) => receiver = "dropped")
    BY <2>1, <2>2, SenderOfSent, SenderOfReceived DEF TypeOK
  <2>4. \A n \in Messages : waiter'[n] = IF n = m THEN "resolved" ELSE waiter[n]
    BY <2>1 DEF TypeOK
  <2> QED BY <2>1, <2>3, <2>4
<1>9. ASSUME NEW m \in Messages, DropWaiter(m)  PROVE WaiterInv'
  BY <1>9 DEF DropWaiter, TypeOK
<1>10. CASE UNCHANGED vars
  BY <1>10 DEF vars
<1> QED BY <1>1, <1>2, <1>3, <1>4, <1>5, <1>6, <1>7, <1>8, <1>9, <1>10 DEF Next

\* No Waiter resolves before the Receiver is dropped, nor that of the message
\* received before all of the Receiver is.
THEOREM WaiterCorrect == Spec => []WaiterOutlivesReceiver
<1>1. Init => TypeOK /\ OrderInv /\ WaiterInv
  BY InitType, OrderInit, WaiterInit
<1>2. TypeOK /\ OrderInv /\ WaiterInv /\ [Next]_vars => TypeOK' /\ OrderInv' /\ WaiterInv'
  BY TypeStep, OrderStep, WaiterStep
<1>3. WaiterInv => WaiterOutlivesReceiver
  BY DEF WaiterInv
<1> QED BY <1>1, <1>2, <1>3, PTL DEF Spec

\* A channel that was dropped stays empty, and a Receiver that was dropped holds nothing.
DropInv ==
  /\ receiver # "open" => queue = <<>>
  /\ receiver = "dropped" => first_sender = NoMessage

LEMMA DropStep == TypeOK /\ OrderInv /\ DropInv /\ [Next]_vars => DropInv'
<1> SUFFICES ASSUME TypeOK, OrderInv, DropInv, [Next]_vars PROVE DropInv'
  OBVIOUS
<1> USE DEF DropInv
<1>1. ASSUME NEW c \in Cancelers, \/ DropCanceler(c) \/ Cancel(c)
                                  \/ \E d \in Cancelers : Clone(c, d)
      PROVE  DropInv'
  BY <1>1 DEF Clone, DropCanceler, Cancel
<1>2. CASE RecvSome
  BY <1>2 DEF RecvSome, OrderInv
<1>3. CASE Recv \/ RecvNone \/ DropRecv \/ DropReceiver \/ DropFirstSender
  BY <1>3 DEF Recv, RecvNone, DropRecv, DropReceiver, DropFirstSender
<1>4. ASSUME NEW m \in Messages, WaiterReady(m) \/ DropWaiter(m)  PROVE DropInv'
  BY <1>4 DEF WaiterReady, DropWaiter
<1>5. CASE UNCHANGED vars
  BY <1>5 DEF vars
<1> QED BY <1>1, <1>2, <1>3, <1>4, <1>5 DEF Next

\* A dropped Receiver leaves no oneshot sender behind: WaiterReady is possible for
\* every Waiter there is.
THEOREM FreedCorrect == Spec => []WaitersFreed
<1>1. Init => DropInv
  BY DEF Init, DropInv
<1>2. ASSUME TypeOK, OrderInv, DropInv, NEW m \in Messages, SenderAlive(m)
      PROVE  /\ receiver = "closed" => m \in ToSet(received)
             /\ receiver # "dropped"
  <2>1. m # NoMessage
    BY MaxMessagesAssumption DEF Messages, NoMessage
  <2>2. ASSUME receiver # "open"  PROVE m = first_sender
    <3>1. ToSet(queue) = {}
      BY <1>2, <2>2 DEF DropInv, ToSet
    <3> QED BY <1>2, <3>1 DEF SenderAlive
  <2>3. ASSUME receiver = "closed"  PROVE m \in ToSet(received)
    <3>1. m = 1 /\ received = <<1>>
      BY <1>2, <2>1, <2>2, <2>3 DEF OrderInv
    <3> QED BY <3>1 DEF ToSet
  <2> QED BY <1>2, <2>1, <2>2, <2>3 DEF DropInv
<1>3. TypeOK /\ OrderInv /\ DropInv => WaitersFreed
  BY <1>2 DEF WaitersFreed
<1> QED BY <1>1, <1>3, DropStep, OrderInvariant, PTL DEF Spec

LEMMA NoneStep == TypeOK /\ OrderInv /\ NoneMeansOver /\ [Next]_vars => NoneMeansOver'
<1> SUFFICES ASSUME TypeOK, OrderInv, NoneMeansOver, [Next]_vars PROVE NoneMeansOver'
  OBVIOUS
<1> USE DEF NoneMeansOver
<1>1. ASSUME NEW c \in Cancelers, \/ DropCanceler(c) \/ Cancel(c)
                                  \/ \E d \in Cancelers : Clone(c, d)
      PROVE  NoneMeansOver'
  BY <1>1 DEF Clone, DropCanceler, Cancel
<1>2. CASE RecvNone
  <2>1. Len(queue) = 0 /\ receiver = "open" /\ first_sender = 0
    BY <1>2 DEF RecvNone, OrderInv, NoMessage
  <2>2. sent = 0
    BY <2>1 DEF OrderInv
  <2> QED BY <1>2, <2>2 DEF RecvNone
<1>3. CASE Recv \/ RecvSome \/ DropRecv \/ DropReceiver \/ DropFirstSender
  BY <1>3 DEF Recv, RecvSome, DropRecv, DropReceiver, DropFirstSender
<1>4. ASSUME NEW m \in Messages, WaiterReady(m) \/ DropWaiter(m)  PROVE NoneMeansOver'
  BY <1>4 DEF WaiterReady, DropWaiter
<1>5. CASE UNCHANGED vars
  BY <1>5 DEF vars
<1> QED BY <1>1, <1>2, <1>3, <1>4, <1>5 DEF Next

\* After recv() has returned None, before any message, none will ever be sent.
THEOREM NoneCorrect == Spec => []NoneMeansOver
<1>1. Init => NoneMeansOver
  BY DEF Init, NoneMeansOver
<1>2. TypeOK /\ OrderInv /\ NoneMeansOver /\ [Next]_vars => NoneMeansOver'
  BY NoneStep
<1> QED BY <1>1, <1>2, OrderInvariant, PTL DEF Spec

=============================================================================
