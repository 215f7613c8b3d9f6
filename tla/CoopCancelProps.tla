--------------------------- MODULE CoopCancelProps ---------------------------
(***************************************************************************)
(* The properties of CoopCancel.                                           *)
(***************************************************************************)
EXTENDS CoopCancel

\* "Only the first message ever sent via any Canceler is received by the
\* Receiver" (coop_cancel.rs:195), however often recv() is called, its futures
\* dropped, and whoever sends meanwhile.
OnlyFirstReceived == received \in {<<>>, <<1>>}

\* A Waiter does not resolve while there is a Receiver, and that of the message
\* received not before the last of the Receiver is dropped (coop_cancel.rs:192-193).
WaiterOutlivesReceiver ==
  \A m \in Messages : waiter[m] = "resolved" =>
    /\ receiver # "open"
    /\ m \in ToSet(received) => receiver = "dropped"

\* None from recv(), before any message, means that no Canceler is left and that
\* no message was ever sent (coop_cancel.rs:144-145): the task that waits for a
\* cancellation need not wait any longer.
NoneMeansOver == gaveUp => cancelers = {} /\ sent = 0

\* When the Receiver is gone, nothing is left that could keep a Waiter from resolving,
\* read or not; while it is being dropped, only that of the message received is kept.
WaitersFreed ==
  /\ receiver = "closed" => \A m \in Messages : SenderAlive(m) => m \in ToSet(received)
  /\ receiver = "dropped" => \A m \in Messages : ~SenderAlive(m)

-----------------------------------------------------------------------------
\* A drop that has begun ends, and whoever holds a Waiter awaits or drops it.  The task
\* with the Receiver goes on calling recv(), and its select! is fair: of the futures
\* that could return, one does, whichever were dropped before.
FairSpec ==
  /\ Spec
  /\ WF_vars(Recv) /\ SF_vars(RecvSome) /\ SF_vars(RecvNone)
  /\ WF_vars(DropFirstSender)
  /\ \A m \in Messages : WF_vars(WaiterReady(m))

\* After the Receiver was dropped every Waiter comes to its end, those of messages
\* that were never received too.
WaitersReleased ==
  \A m \in Messages : receiver # "open" /\ waiter[m] = "live" ~> waiter[m] # "live"

\* A cancellation is noticed though nobody waited for it when it was sent, and however
\* many recv() futures a select! drops (coop_cancel.rs:60-72); and so is the drop of the
\* last Canceler (coop_cancel.rs:145,158), unless the Receiver is dropped first.
CancelNoticed ==
  sent > 0 \/ cancelers = {} ~> received # <<>> \/ gaveUp \/ receiver # "open"

=============================================================================
