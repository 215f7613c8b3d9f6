------------------------------ MODULE CoopCancel ------------------------------
(***************************************************************************)
(* Cooperative cancellation, src/coop_cancel.rs: any number of Cancelers   *)
(* send messages to one Receiver through an unbounded channel.  With each  *)
(* message goes the sender of a oneshot channel nothing is ever sent on:   *)
(* its drop tells the Waiter at the other end that the Receiver is gone.   *)
(*                                                                         *)
(* The tokio channels are external.  A send either happens before the      *)
(* receiving end is dropped, and then the message is dropped with that end *)
(* at the latest, or it fails.                                             *)
(***************************************************************************)
EXTENDS Naturals, Sequences, SequencesExt

CONSTANTS
  Cancelers,     \* the handles there may be at one time
  MaxMessages    \* bound on the messages sent

ASSUME MaxMessagesAssumption == MaxMessages \in Nat

VARIABLES
  cancelers,     \* the Cancelers in use
  sent,          \* how many messages were sent; they are numbered from 1
  queue,         \* messages in the channel
  receiver,      \* "open", "closed" when its channel was dropped, "dropped"
  first_sender,  \* the message whose oneshot sender is cached, or NoMessage
  recv,          \* "pending" while a recv() future exists, else "idle"
  waiter,        \* the Waiter of each message
  received,      \* history: the messages recv() has returned
  gaveUp         \* history: recv() has returned None before any message

vars == <<cancelers, sent, queue, receiver, first_sender, recv, waiter, received, gaveUp>>

Messages  == 1 .. MaxMessages
NoMessage == 0

TypeOK ==
  /\ cancelers \subseteq Cancelers
  /\ sent \in 0 .. MaxMessages
  /\ queue \in Seq(1 .. sent)
  /\ receiver \in {"open", "closed", "dropped"}
  /\ first_sender \in 0 .. sent
  /\ recv \in {"idle", "pending"}
  /\ waiter \in [Messages -> {"none", "live", "resolved", "dropped"}]
  /\ received \in Seq(1 .. sent)
  /\ gaveUp \in BOOLEAN

\* The oneshot sender that belongs to m has not been dropped.
SenderAlive(m) == m \in ToSet(queue) \/ m = first_sender

-----------------------------------------------------------------------------

Clone(c, d) ==
  /\ c \in cancelers /\ d \notin cancelers
  /\ cancelers' = cancelers \cup {d}
  /\ UNCHANGED <<sent, queue, receiver, first_sender, recv, waiter, received, gaveUp>>

DropCanceler(c) ==
  /\ c \in cancelers
  /\ cancelers' = cancelers \ {c}
  /\ UNCHANGED <<sent, queue, receiver, first_sender, recv, waiter, received, gaveUp>>

\* CancelPayload::new: a oneshot whose two ends go to the payload and the Waiter.
NewPayload ==
  /\ sent < MaxMessages
  /\ sent' = sent + 1
  /\ waiter' = [waiter EXCEPT ![sent'] = "live"]

CancelUnheard(c) ==    \* mutant: a notice to who waits now, in place of a message
  /\ c \in cancelers
  /\ receiver = "open"
  /\ NewPayload
  /\ queue' = IF recv = "pending" THEN Append(queue, sent') ELSE queue
  /\ UNCHANGED <<cancelers, receiver, first_sender, recv, received, gaveUp>>

\* cancel(): Ok with a Waiter.  Once the channel of the receiver is closed it
\* returns Err with the message instead, and leaves nothing behind.
Cancel(c) ==
  /\ c \in cancelers
  /\ receiver = "open"
  /\ NewPayload
  /\ queue' = Append(queue, sent')
  /\ UNCHANGED <<cancelers, receiver, first_sender, recv, received, gaveUp>>

-----------------------------------------------------------------------------

RecvTwice ==    \* mutant: the check of first_sender is missing
  /\ receiver = "open" /\ recv = "idle"
  /\ recv' = "pending"
  /\ UNCHANGED <<cancelers, sent, queue, receiver, first_sender, waiter, received, gaveUp>>

\* recv() before any message was received.  Later it returns None at once.
Recv ==
  /\ receiver = "open" /\ recv = "idle"
  /\ first_sender = NoMessage
  /\ recv' = "pending"
  /\ UNCHANGED <<cancelers, sent, queue, receiver, first_sender, waiter, received, gaveUp>>

RecvSomeUncached ==    \* mutant: the oneshot sender goes with the payload
  /\ recv = "pending" /\ queue # <<>>
  /\ received' = Append(received, Head(queue))
  /\ queue' = Tail(queue)
  /\ recv' = "idle"
  /\ UNCHANGED <<cancelers, sent, receiver, first_sender, waiter, gaveUp>>

RecvSome ==
  /\ recv = "pending" /\ queue # <<>>
  /\ received' = Append(received, Head(queue))
  /\ first_sender' = Head(queue)
  /\ queue' = Tail(queue)
  /\ recv' = "idle"
  /\ UNCHANGED <<cancelers, sent, receiver, waiter, gaveUp>>

RecvNoneIfEmpty ==    \* mutant: None as soon as the channel is empty
  /\ recv = "pending" /\ queue = <<>>
  /\ gaveUp' = TRUE
  /\ recv' = "idle"
  /\ UNCHANGED <<cancelers, sent, queue, receiver, first_sender, waiter, received>>

RecvNone ==
  /\ recv = "pending" /\ queue = <<>> /\ cancelers = {}
  /\ gaveUp' = TRUE
  /\ recv' = "idle"
  /\ UNCHANGED <<cancelers, sent, queue, receiver, first_sender, waiter, received>>

\* The recv() future is dropped; no message goes with it.
DropRecv ==
  /\ recv = "pending"
  /\ recv' = "idle"
  /\ UNCHANGED <<cancelers, sent, queue, receiver, first_sender, waiter, received, gaveUp>>

CloseReceiver ==    \* mutant: closed, and not drained
  /\ receiver = "open" /\ recv = "idle"
  /\ receiver' = "closed"
  /\ UNCHANGED <<cancelers, sent, queue, first_sender, recv, waiter, received, gaveUp>>

\* The Receiver is dropped, its fields in their order: first the channel with
\* the messages in it, then the sender cached.
DropReceiver ==
  /\ receiver = "open" /\ recv = "idle"
  /\ receiver' = "closed"
  /\ queue' = <<>>
  /\ UNCHANGED <<cancelers, sent, first_sender, recv, waiter, received, gaveUp>>

DropFirstSender ==
  /\ receiver = "closed"
  /\ receiver' = "dropped"
  /\ first_sender' = NoMessage
  /\ UNCHANGED <<cancelers, sent, queue, recv, waiter, received, gaveUp>>

-----------------------------------------------------------------------------

\* Waiter::poll, once the oneshot receiver finds its sender dropped.
WaiterReady(m) ==
  /\ waiter[m] = "live"
  /\ ~SenderAlive(m)
  /\ waiter' = [waiter EXCEPT ![m] = "resolved"]
  /\ UNCHANGED <<cancelers, sent, queue, receiver, first_sender, recv, received, gaveUp>>

DropWaiter(m) ==
  /\ waiter[m] = "live"
  /\ waiter' = [waiter EXCEPT ![m] = "dropped"]
  /\ UNCHANGED <<cancelers, sent, queue, receiver, first_sender, recv, received, gaveUp>>

-----------------------------------------------------------------------------

\* new_pair().
Init ==
  /\ \E c \in Cancelers : cancelers = {c}
  /\ sent = 0
  /\ queue = <<>>
  /\ receiver = "open"
  /\ first_sender = NoMessage
  /\ recv = "idle"
  /\ waiter = [m \in Messages |-> "none"]
  /\ received = <<>>
  /\ gaveUp = FALSE

Next ==
  \/ \E c, d \in Cancelers : Clone(c, d)
  \/ \E c \in Cancelers : DropCanceler(c) \/ Cancel(c)
  \/ Recv \/ RecvSome \/ RecvNone \/ DropRecv
  \/ DropReceiver \/ DropFirstSender
  \/ \E m \in Messages : WaiterReady(m) \/ DropWaiter(m)

Spec == Init /\ [][Next]_vars

=============================================================================
