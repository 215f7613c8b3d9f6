---------------------------- MODULE CollectThenTry ----------------------------
(***************************************************************************)
(* The future of collect_then_try, src/stream/collect_then_try.rs, on a    *)
(* stream that other threads make ready, between its polls and while it is *)
(* polled.                                                                 *)
(***************************************************************************)
EXTENDS Collecting

CONSTANT MaxElements    \* bound on the length of the stream

ASSUME MaxElementsAssumption == MaxElements \in Nat

VARIABLES
  elements,      \* the elements of the stream, Ok or Err each
  taken,         \* how many elements the stream has yielded
  streamReady,   \* the stream would not return Pending
  streamWaker    \* the stream has kept the waker of a poll

streamVars == <<elements, taken, streamReady, streamWaker>>
vars == <<collectVars, streamVars, pc, woken, outcome>>

Numbers == 1 .. MaxElements
Errors  == {Error(i) : i \in Numbers}

TypeOK ==
  /\ elements \in UNION {[1 .. n -> Results] : n \in 0 .. MaxElements}
  /\ taken \in 0 .. Len(elements)
  /\ items \in Seq(Numbers)
  /\ first_error \in Errors \cup {NoError}
  /\ pc \in {"asleep", "polling"}
  /\ outcome \in {Running, Dropped} \cup Errors \cup ({"ok"} \X Seq(Numbers))
  /\ {streamReady, streamWaker, woken} \subseteq BOOLEAN

StartPoll == Wake("polling") /\ UNCHANGED <<collectVars, streamVars>>

\* ready!: the stream returns Pending, with the waker kept.
StreamPending ==
  /\ pc = "polling" /\ ~streamReady
  /\ streamWaker' = TRUE
  /\ pc' = "asleep"
  /\ UNCHANGED <<collectVars, elements, taken, streamReady, woken, outcome>>

StreamElementErrPending ==    \* mutant: an error ends the poll, with no waker kept
  /\ pc = "polling" /\ streamReady
  /\ taken < Len(elements)
  /\ taken' = taken + 1
  /\ streamReady' \in BOOLEAN
  /\ Collect(taken', elements[taken'])
  /\ pc' = IF elements[taken'] = "err" THEN "asleep" ELSE pc
  /\ UNCHANGED <<elements, streamWaker, woken>>

\* The stream yields an element; it may or may not be ready to go on.
StreamElement ==
  /\ pc = "polling" /\ streamReady
  /\ taken < Len(elements)
  /\ taken' = taken + 1
  /\ streamReady' \in BOOLEAN
  /\ Collect(taken', elements[taken'])
  /\ UNCHANGED <<elements, streamWaker, pc, woken>>

StreamEnd ==
  /\ pc = "polling" /\ streamReady
  /\ taken = Len(elements)
  /\ Exhausted
  /\ pc' = "asleep"
  /\ UNCHANGED <<elements, taken, streamReady, streamWaker, woken>>

\* What the stream waits for happens; a waker is used once.
StreamNotify ==
  /\ outcome = Running
  /\ ~streamReady
  /\ streamReady' = TRUE
  /\ streamWaker' = FALSE
  /\ woken' = (woken \/ streamWaker)
  /\ UNCHANGED <<collectVars, elements, taken, pc, outcome>>

Drop == Abandon /\ UNCHANGED <<collectVars, streamVars>>

Init ==
  /\ elements \in UNION {[1 .. n -> Results] : n \in 0 .. MaxElements}
  /\ taken = 0
  /\ streamReady \in BOOLEAN
  /\ streamWaker = FALSE
  /\ New
  /\ pc = "asleep"
  /\ woken = TRUE
  /\ outcome = Running

Poll == StreamPending \/ StreamElement \/ StreamEnd

Next == StartPoll \/ Poll \/ StreamNotify \/ Drop

Spec == Init /\ [][Next]_vars

=============================================================================
