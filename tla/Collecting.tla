------------------------------- MODULE Collecting -------------------------------
(***************************************************************************)
(* What CollectThenTry::poll, src/stream/collect_then_try.rs, does with    *)
(* each answer of its stream.                                              *)
(***************************************************************************)
EXTENDS Task

VARIABLES
  items,         \* the collection: the elements that were Ok, by number
  first_error    \* the error cached, or NoError

collectVars == <<items, first_error>>

OkWith(collection) == <<"ok", collection>>

New == items = <<>> /\ first_error = NoError

CollectAhead(i, result) ==    \* mutant: a collection that is not extended at its end
  /\ IF result = "ok"
     THEN items' = <<i>> \o items /\ UNCHANGED first_error
     ELSE first_error' = (IF first_error = NoError THEN Error(i) ELSE first_error) /\ UNCHANGED items
  /\ UNCHANGED outcome
CollectKeepingLast(i, result) ==    \* mutant: a later error replaces the first
  /\ IF result = "ok"
     THEN items' = Append(items, i) /\ UNCHANGED first_error
     ELSE first_error' = Error(i) /\ UNCHANGED items
  /\ UNCHANGED outcome
CollectFailingFast(i, result) ==    \* mutant: as try_collect does
  IF result = "ok"
  THEN items' = Append(items, i) /\ UNCHANGED <<first_error, outcome>>
  ELSE outcome' = Error(i) /\ UNCHANGED collectVars

\* Some(OkWith(_)) is collected, of the Some(Err(_)) the first is kept.
Collect(i, result) ==
  /\ IF result = "ok"
     THEN items' = Append(items, i) /\ UNCHANGED first_error
     ELSE first_error' = (IF first_error = NoError THEN Error(i) ELSE first_error) /\ UNCHANGED items
  /\ UNCHANGED outcome

\* None: the future is ready.
Exhausted ==
  IF first_error = NoError
  THEN outcome' = OkWith(items) /\ items' = <<>> /\ UNCHANGED first_error
  ELSE outcome' = first_error /\ first_error' = NoError /\ UNCHANGED items

=============================================================================
