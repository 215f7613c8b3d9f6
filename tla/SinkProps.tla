------------------------------- MODULE SinkProps -------------------------------
(***************************************************************************)
(* The properties of SinkReserve.                                          *)
(***************************************************************************)
EXTENDS SinkReserve

\* A permit means "that Sink::poll_ready has completed and that the sink is now
\* ready to accept an item" (permit.rs:7-8), however long it is kept and whatever
\* became of the futures that were dropped before.  That of flush_reserve finds
\* the sink flushed (sink/mod.rs:101-105).
PermitMeansReady ==
  holder = "permit" =>
    /\ ready /\ Len(buffer) < Capacity
    /\ adapter = "flush_reserve" => buffer = <<>>

\* Whatever is dropped, the sink gets every item once and in order: whoever drops
\* a future knows if its item was sent, which send of futures_util leaves open
\* (sink/mod.rs:57-59).
ItemsSentOnce == delivered \o buffer = [i \in 1 .. next - 1 |-> i]

\* A future that has not issued its permit still has the sink, so that a select!
\* which skips futures that are terminated does not skip a reservation; and while
\* it flushes "sink must be Some" (flush_reserve.rs:43), or poll panics.
TerminatedMeansIssued ==
  /\ alive => (is_terminated <=> holder # "future")
  /\ state = "PollFlush" => ~is_terminated

\* Whenever the task sleeps on a reservation or on the flush of a permit, the sink
\* still holds it up and has its waker: no wakeup is lost between the flush and the
\* reservation (flush_reserve.rs:46-51), by a future that is dropped and made again,
\* or because of what the sink does while it is polled.
WakeupComing ==
  outcome = Running /\ pc = "asleep" /\ ~woken /\ holder \in {"future", "flush"} =>
    /\ sinkWaker /\ ~broken
    /\ IF holder = "flush" \/ state = "PollFlush" THEN buffer # <<>> ELSE ~ready

-----------------------------------------------------------------------------
\* A woken task polls what it awaits, a poll does not block, and the sink delivers
\* what it has and gets ready.
FairSpec ==
  /\ Spec
  /\ WF_vars(woken /\ (StartPoll \/ PollFlush))
  /\ WF_vars(Poll)
  /\ WF_vars(Deliver)
  /\ WF_vars(GetReady)

\* A reservation, and the flush of a permit, comes to its end unless it is dropped
\* or the sink fails.
ReservationEnds ==
  holder \in {"future", "flush"} ~> holder \notin {"future", "flush"} \/ outcome # Running

=============================================================================
