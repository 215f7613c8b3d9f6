----------------------- MODULE ForEachConcurrentThenTry -----------------------
(***************************************************************************)
(* The future of for_each_concurrent_then_try,                             *)
(* src/stream/for_each_concurrent_then_try.rs: one task polls a stream *)
(* and the futures made from its elements, at most limit of them at once.  *)
(*                                                                         *)
(* A poll is a loop of two steps, one for the stream and one for the       *)
(* FuturesUnordered; between them, and between polls, other threads make   *)
(* the stream or a future ready and wake whoever registered for it.  The   *)
(* executor polls a task that was woken; a select! or join! around it may  *)
(* also poll it for no reason.                                             *)
(***************************************************************************)
EXTENDS FuturesUnordered

CONSTANTS
  MaxItems,       \* bound on the length of the stream
  StreamResults,  \* what its elements may be: a subset of {"ok", "err"}
  Limits          \* the limit arguments: numbers, with 0 for no limit

ASSUME MaxItemsAssumption == MaxItems \in Nat
ASSUME StreamResultsAssumption == StreamResults \subseteq {"ok", "err"}
ASSUME LimitsAssumption == Limits \subseteq Nat

VARIABLES
  items,         \* the elements of the stream, Ok or Err each
  limit,         \* 0 is Option::None
  taken,         \* how many elements the stream has yielded
  stream,        \* "some", or "none" once it has ended and was dropped
  streamReady,   \* the stream would not return Pending
  streamWaker,   \* the stream has kept the waker of a poll
  first_error,   \* the error cached, or NoError
  errors,        \* history: all errors, in the order they were met
  made_progress_this_iter

streamVars  == <<items, taken, stream, streamReady, streamWaker>>
futuresVars == <<futures, futuresWaker>>
errorVars   == <<first_error, errors>>
vars == <<streamVars, futuresVars, errorVars, limit, made_progress_this_iter,
          pc, woken, outcome>>

Elements == 1 .. Len(items)

Errors == {Error(i) : i \in 1 .. MaxItems}
Ok     == <<"ok">>

TypeOK ==
  /\ items \in UNION {[1 .. n -> StreamResults] : n \in 0 .. MaxItems}
  /\ limit \in Limits
  /\ taken \in 0 .. Len(items)
  /\ stream \in {"some", "none"}
  /\ futures \in [Elements -> FutureStates]
  /\ first_error \in Errors \cup {NoError}
  /\ errors \in Seq(Errors)
  /\ pc \in {"asleep", "stream", "futures"}
  /\ outcome \in {Running, Ok, Dropped} \cup Errors
  /\ {streamReady, streamWaker, futuresWaker, made_progress_this_iter, woken} \subseteq BOOLEAN

-----------------------------------------------------------------------------
(***************************************************************************)
(* The stream step of a poll.                                              *)
(***************************************************************************)

HasRoomInclusive == limit = 0 \/ limit >= Cardinality(InFlight)    \* mutant

\* Room for one more future, in which case the stream is polled.
HasRoom == limit = 0 \/ limit > Cardinality(InFlight)

KeepLast(error) ==    \* mutant
  /\ first_error' = error
  /\ errors' = Append(errors, error)

KeepFirst(error) ==
  /\ first_error' = IF first_error = NoError THEN error ELSE first_error
  /\ errors' = Append(errors, error)

\* The executor takes the task from its queue, or polls it unasked.
StartPoll ==
  /\ Wake("stream")
  /\ UNCHANGED <<streamVars, futuresVars, errorVars, limit, made_progress_this_iter>>

StreamStepSticky(progress) ==    \* mutant: the flag is cleared once a poll, not once an iteration
  /\ pc = "stream"
  /\ pc' = "futures"
  /\ made_progress_this_iter' = (progress \/ made_progress_this_iter)
  /\ UNCHANGED <<items, limit, futuresWaker, woken, outcome>>

\* What all outcomes of the stream step have in common.
StreamStep(progress) ==
  /\ pc = "stream"
  /\ pc' = "futures"
  /\ made_progress_this_iter' = progress
  /\ UNCHANGED <<items, limit, futuresWaker, woken, outcome>>

SkipStream ==
  /\ ~HasRoom \/ stream = "none"
  /\ StreamStep(FALSE)
  /\ UNCHANGED <<taken, stream, streamReady, streamWaker, futures, errorVars>>

StreamPending ==
  /\ HasRoom /\ stream = "some" /\ ~streamReady
  /\ streamWaker' = TRUE
  /\ StreamStep(FALSE)
  /\ UNCHANGED <<taken, stream, streamReady, futures, errorVars>>

\* After an element the stream may or may not be ready to go on.
Yield(result) ==
  /\ HasRoom /\ stream = "some" /\ streamReady
  /\ taken < Len(items)
  /\ items[taken + 1] = result
  /\ taken' = taken + 1
  /\ streamReady' \in BOOLEAN
  /\ UNCHANGED <<stream, streamWaker>>

StreamElem ==
  /\ Yield("ok")
  /\ StreamStep(TRUE)
  /\ futures' = [futures EXCEPT ![taken + 1] = "fresh"]
  /\ UNCHANGED errorVars

StreamErr ==
  /\ Yield("err")
  /\ StreamStep(FALSE)
  /\ KeepFirst(Error(taken + 1))
  /\ UNCHANGED futures

StreamEndPending ==    \* mutant: Poll::Pending returned at the end of the stream
  /\ HasRoom /\ stream = "some" /\ streamReady
  /\ taken = Len(items)
  /\ stream' = "none"
  /\ pc = "stream"
  /\ pc' = "asleep"
  /\ UNCHANGED <<items, limit, futuresWaker, woken, outcome, made_progress_this_iter>>
  /\ UNCHANGED <<taken, streamReady, streamWaker, futures, errorVars>>

StreamEnd ==
  /\ HasRoom /\ stream = "some" /\ streamReady
  /\ taken = Len(items)
  /\ stream' = "none"
  /\ StreamStep(FALSE)
  /\ UNCHANGED <<taken, streamReady, streamWaker, futures, errorVars>>

-----------------------------------------------------------------------------
(***************************************************************************)
(* The step of the FuturesUnordered.                                       *)
(***************************************************************************)

FuturesItemFailsFast ==    \* mutant: as try_for_each_concurrent does
  /\ pc = "futures"
  /\ \E i \in Queued, result \in Results :
       /\ NextItem(i, result)
       /\ IF result = "err" THEN KeepFirst(Error(i)) ELSE UNCHANGED errorVars
       /\ outcome' = IF result = "err" THEN Error(i) ELSE outcome
  /\ made_progress_this_iter' = TRUE
  /\ pc' = "stream"
  /\ UNCHANGED <<streamVars, limit, woken>>
FuturesItemNoProgress ==    \* mutant: the flag is not set for an item
  /\ pc = "futures"
  /\ \E i \in Queued, result \in Results :
       /\ NextItem(i, result)
       /\ IF result = "err" THEN KeepFirst(Error(i)) ELSE UNCHANGED errorVars
  /\ pc' = IF made_progress_this_iter THEN "stream" ELSE "asleep"
  /\ UNCHANGED <<streamVars, limit, woken, outcome, made_progress_this_iter>>

\* Poll::Ready(Some(item)): progress, so the loop goes on.
FuturesItem ==
  /\ pc = "futures"
  /\ \E i \in Queued, result \in Results :
       /\ NextItem(i, result)
       /\ IF result = "err" THEN KeepFirst(Error(i)) ELSE UNCHANGED errorVars
  /\ made_progress_this_iter' = TRUE
  /\ pc' = "stream"
  /\ UNCHANGED <<streamVars, limit, woken, outcome>>

\* The end of the loop body without an item.
EndIteration ==
  /\ pc' = IF made_progress_this_iter THEN "stream" ELSE "asleep"
  /\ UNCHANGED <<streamVars, errorVars, limit, made_progress_this_iter, outcome>>

\* Poll::Pending.
FuturesPending ==
  /\ pc = "futures"
  /\ NextPending
  /\ EndIteration

\* Poll::Ready(None) while the stream goes on.
FuturesEmpty ==
  /\ pc = "futures"
  /\ NextNone
  /\ stream = "some"
  /\ UNCHANGED woken
  /\ EndIteration

\* Poll::Ready(None) after the end of the stream: the future is ready.
Return ==
  /\ pc = "futures"
  /\ NextNone
  /\ stream = "none"
  /\ outcome' = IF first_error = NoError THEN Ok ELSE first_error
  /\ first_error' = NoError
  /\ pc' = "asleep"
  /\ UNCHANGED <<streamVars, errors, limit, made_progress_this_iter, woken>>

-----------------------------------------------------------------------------
(***************************************************************************)
(* The other threads, and the owner of the future.                         *)
(***************************************************************************)

\* What the stream waits for happens; a waker is used once.
StreamNotify ==
  /\ ~streamReady
  /\ streamReady' = TRUE
  /\ streamWaker' = FALSE
  /\ woken' = (woken \/ streamWaker)
  /\ UNCHANGED <<items, taken, stream, futuresVars, errorVars, limit,
                 made_progress_this_iter, pc, outcome>>

FutureNotify(i) ==
  /\ NotifyQueued(i)
  /\ UNCHANGED <<streamVars, errorVars, limit, made_progress_this_iter, pc, outcome>>

\* The owner drops the future between two polls, and with it the stream and
\* the futures that were not finished.
Drop ==
  /\ Abandon
  /\ DropFutures
  /\ UNCHANGED <<streamVars, futuresWaker, errorVars, limit, made_progress_this_iter>>

-----------------------------------------------------------------------------

\* The adapter that new makes; the futures of all elements are to be born.
New ==
  /\ stream = "some"
  /\ limit \in Limits
  /\ futures = [i \in Elements |-> "unborn"]
  /\ futuresWaker = FALSE
  /\ first_error = NoError

\* for_each_concurrent_then_try on any stream, and the task that awaits it.
Init ==
  /\ items \in UNION {[1 .. n -> StreamResults] : n \in 0 .. MaxItems}
  /\ New
  /\ taken = 0
  /\ streamReady \in BOOLEAN
  /\ streamWaker = FALSE
  /\ errors = <<>>
  /\ made_progress_this_iter = FALSE
  /\ pc = "asleep"
  /\ woken = TRUE
  /\ outcome = Running

\* The steps of a poll that has started.
Poll ==
  \/ SkipStream \/ StreamPending \/ StreamElem \/ StreamErr \/ StreamEnd
  \/ FuturesItem \/ FuturesPending \/ FuturesEmpty \/ Return

Notify == outcome = Running /\ (StreamNotify \/ \E i \in Elements : FutureNotify(i))

Next == StartPoll \/ Poll \/ Notify \/ Drop

Spec == Init /\ [][Next]_vars

=============================================================================
