------------------------------ MODULE SinkReserve ------------------------------
(***************************************************************************)
(* A task that sends its items to a sink with the adapters of src/sink/:   *)
(* it reserves, with or without a flush, and sends an item with the permit *)
(* it gets.  It may drop any of the futures, and the permit, and start     *)
(* over.  Only one of them borrows the sink at a time, or the task itself. *)
(*                                                                         *)
(* The sink buffers up to Capacity items and delivers them on its own; it  *)
(* gets ready for the next item when it wants, and it may break.           *)
(***************************************************************************)
EXTENDS Task

CONSTANTS
  MaxItems,   \* bound on the number of items to send
  Capacity    \* of the sink

ASSUME SinkAssumption == MaxItems \in Nat /\ Capacity \in Nat \ {0}

VARIABLES
  next,        \* the number of the item to send next
  \* the sink
  buffer,      \* the items accepted and not delivered
  delivered,   \* the items delivered
  ready,       \* poll_ready would not return Pending
  broken,      \* all its methods return an error
  sinkWaker,   \* it has kept the waker of a poll
  \* the adapters
  holder,      \* who has the &mut to the sink: "task", "future", "permit" or "flush"
  adapter,     \* the future made last: "reserve" or "flush_reserve"
  alive,       \* and whether it still exists
  sink,        \* its Reserve's sink: "some" or "none"
  state        \* its FlushReserveState, "Reserve" for a mere Reserve

sinkVars    == <<buffer, delivered, ready, broken, sinkWaker>>
adapterVars == <<adapter, alive, sink, state>>
vars == <<next, sinkVars, holder, adapterVars, pc, woken, outcome>>

TypeOK ==
  /\ {buffer, delivered} \subseteq Seq(1 .. MaxItems)
  /\ next \in 1 .. MaxItems + 1
  /\ Len(buffer) <= Capacity
  /\ holder \in {"task", "future", "permit", "flush"}
  /\ adapter \in {"reserve", "flush_reserve"}
  /\ sink \in {"some", "none"}
  /\ state \in {"PollFlush", "Reserve"}
  /\ pc \in {"asleep", "poll_flush", "poll_ready"}
  /\ outcome \in {Running} \cup {Error(i) : i \in 1 .. MaxItems + 1}
  /\ {ready, broken, sinkWaker, alive, woken} \subseteq BOOLEAN

\* sink_pin_mut() or sink.as_mut() is Some.
HasSink == sink = "some"

\* `?` on an error of the sink: the task gives up.
Fail == outcome' = Error(next)

-----------------------------------------------------------------------------
(***************************************************************************)
(* reserve() and flush_reserve(), and the polls of their futures.          *)
(***************************************************************************)

\* Reserve::new.
NewReserve == sink' = "some"

Make(kind, first) ==
  /\ outcome = Running
  /\ holder = "task" /\ ~alive
  /\ next <= MaxItems
  /\ holder' = "future"
  /\ adapter' = kind
  /\ alive' = TRUE
  /\ NewReserve
  /\ state' = first
  /\ woken' = TRUE
  /\ UNCHANGED <<next, sinkVars, pc, outcome>>

reserve == Make("reserve", "Reserve")

flush_reserve == Make("flush_reserve", "PollFlush")

\* The task awaits a Flush by itself, a future also in a select!.
StartPoll ==
  /\ alive /\ holder # "flush"
  /\ Wake(IF state = "PollFlush" THEN "poll_flush" ELSE "poll_ready")
  /\ UNCHANGED <<next, sinkVars, holder, adapterVars>>

\* The poll ends.
Return == pc' = "asleep" /\ UNCHANGED <<next, buffer, delivered, ready, broken, woken>>

PollPendingTaken ==    \* mutant: sink.take() comes before the poll
  /\ HasSink /\ ~broken
  /\ \/ pc = "poll_flush" /\ buffer # <<>>
     \/ pc = "poll_ready" /\ ~ready
  /\ sinkWaker' = TRUE
  /\ sink' = "none"
  /\ Return
  /\ UNCHANGED <<holder, adapter, alive, state, outcome>>

\* ready! of poll_flush or poll_ready: the sink keeps the waker.
PollPending ==
  /\ HasSink /\ ~broken
  /\ \/ pc = "poll_flush" /\ buffer # <<>>
     \/ pc = "poll_ready" /\ ~ready
  /\ sinkWaker' = TRUE
  /\ Return
  /\ UNCHANGED <<holder, adapterVars, outcome>>

\* `?` of poll_flush or poll_ready.
PollErr ==
  /\ pc \in {"poll_flush", "poll_ready"}
  /\ HasSink /\ broken
  /\ Fail
  /\ Return
  /\ UNCHANGED <<sinkWaker, holder, adapterVars>>

FlushReadyPending ==    \* mutant: the reservation is left to the next poll
  /\ pc = "poll_flush"
  /\ HasSink /\ ~broken /\ buffer = <<>>
  /\ state' = "Reserve"
  /\ Return
  /\ UNCHANGED <<sinkWaker, holder, adapter, alive, sink, outcome>>

FlushReady ==
  /\ pc = "poll_flush"
  /\ HasSink /\ ~broken /\ buffer = <<>>
  /\ state' = "Reserve"
  /\ pc' = "poll_ready"
  /\ UNCHANGED <<next, sinkVars, holder, adapter, alive, sink, woken, outcome>>

ReserveReadyEarly ==    \* mutant: the permit does not wait for poll_ready
  /\ pc = "poll_ready"
  /\ HasSink /\ ~broken
  /\ sink' = "none"
  /\ holder' = "permit"
  /\ Return
  /\ UNCHANGED <<sinkWaker, adapter, alive, state, outcome>>

\* The sink goes from the Reserve into the Permit.
ReserveReady ==
  /\ pc = "poll_ready"
  /\ HasSink /\ ~broken /\ ready
  /\ sink' = "none"
  /\ holder' = "permit"
  /\ Return
  /\ UNCHANGED <<sinkWaker, adapter, alive, state, outcome>>

\* A future that has issued its permit is pending for ever.
is_terminated == sink = "none"

PollTerminated ==
  /\ pc = "poll_ready"
  /\ is_terminated
  /\ Return
  /\ UNCHANGED <<sinkWaker, holder, adapterVars, outcome>>

\* A select! took another branch.
DropFuture ==
  /\ alive /\ pc = "asleep"
  /\ alive' = FALSE
  /\ holder' = IF holder = "future" THEN "task" ELSE holder
  /\ UNCHANGED <<next, sinkVars, adapter, sink, state, pc, woken, outcome>>

-----------------------------------------------------------------------------
(***************************************************************************)
(* The permit, and the Flush future of futures_util it leads to.           *)
(***************************************************************************)

\* The sink accepts the item; whether it is ready for one more it decides.
start_send ==
  /\ ~broken
  /\ next' = next + 1
  /\ buffer' = Append(buffer, next)
  /\ ready' \in BOOLEAN
  /\ Len(buffer') = Capacity => ~ready'
  /\ UNCHANGED <<delivered, broken, sinkWaker>>

UsePermit ==
  /\ holder = "permit" /\ outcome = Running /\ pc = "asleep"
  /\ UNCHANGED <<adapterVars, pc>>

feed ==
  /\ UsePermit
  /\ start_send
  /\ holder' = "task"
  /\ UNCHANGED <<woken, outcome>>

send_lazy ==    \* mutant: start_send is left to the future
  /\ UsePermit
  /\ next' = next + 1
  /\ holder' = "flush"
  /\ woken' = TRUE
  /\ UNCHANGED <<sinkVars, outcome>>

send ==
  /\ UsePermit
  /\ start_send
  /\ holder' = "flush"
  /\ woken' = TRUE
  /\ UNCHANGED outcome

SendErr ==
  /\ UsePermit
  /\ broken
  /\ Fail
  /\ holder' = "task"
  /\ UNCHANGED <<next, sinkVars, woken>>

DropPermit ==
  /\ UsePermit
  /\ holder' = "task"
  /\ UNCHANGED <<next, sinkVars, woken, outcome>>

\* A poll of the Flush, which is poll_flush of the sink.
PollFlush ==
  /\ holder = "flush" /\ outcome = Running /\ pc = "asleep"
  /\ woken' = FALSE
  /\ \/ broken /\ Fail /\ UNCHANGED <<holder, sinkWaker>>
     \/ ~broken /\ buffer # <<>> /\ sinkWaker' = TRUE /\ UNCHANGED <<holder, outcome>>
     \/ ~broken /\ buffer = <<>> /\ holder' = "task" /\ UNCHANGED <<sinkWaker, outcome>>
  /\ UNCHANGED <<next, buffer, delivered, ready, broken, adapterVars, pc>>

DropFlush ==
  /\ holder = "flush"
  /\ holder' = "task"
  /\ UNCHANGED <<next, sinkVars, adapterVars, pc, woken, outcome>>

-----------------------------------------------------------------------------
(***************************************************************************)
(* The sink on its own, which wakes the task with the waker it has kept.   *)
(***************************************************************************)

Event ==
  /\ sinkWaker' = FALSE
  /\ woken' = (woken \/ sinkWaker)
  /\ UNCHANGED <<next, broken, holder, adapterVars, pc, outcome>>

Deliver ==
  /\ buffer # <<>>
  /\ delivered' = Append(delivered, Head(buffer))
  /\ buffer' = Tail(buffer)
  /\ UNCHANGED ready
  /\ Event

GetReady ==
  /\ ~ready /\ Len(buffer) < Capacity
  /\ ready' = TRUE
  /\ UNCHANGED <<buffer, delivered>>
  /\ Event

Break ==
  /\ broken' = TRUE
  /\ ~broken
  /\ sinkWaker' = FALSE
  /\ woken' = (woken \/ sinkWaker)
  /\ UNCHANGED <<next, buffer, delivered, ready, holder, adapterVars, pc, outcome>>

-----------------------------------------------------------------------------

Init ==
  /\ next = 1
  /\ buffer = <<>> /\ delivered = <<>>
  /\ ready \in BOOLEAN
  /\ broken = FALSE /\ sinkWaker = FALSE
  /\ holder = "task" /\ alive = FALSE
  /\ adapter = "reserve" /\ sink = "none" /\ state = "Reserve"
  /\ pc = "asleep"
  /\ woken = FALSE
  /\ outcome = Running

Poll == PollPending \/ PollErr \/ FlushReady \/ ReserveReady \/ PollTerminated

TaskStep ==
  \/ reserve \/ flush_reserve \/ DropFuture
  \/ feed \/ send \/ SendErr \/ DropPermit \/ DropFlush

SinkStep == Deliver \/ GetReady \/ Break

Next == StartPoll \/ Poll \/ PollFlush \/ TaskStep \/ SinkStep

Spec == Init /\ [][Next]_vars

=============================================================================
