# A TLA+ model of cancel-safe-futures

The crate makes async Rust code survive cancellation and panics: a mutex that
poisons itself when an action on its data is cut short, adapters that run every
future to its end before they report an error, cooperative cancellation, and
sink adapters that separate waiting from sending. This directory holds
specifications of these parts, the configurations that TLC checks, and proofs
for TLAPS. Line numbers are those of the files under `src/` of the repository
(in `PROJECT.json` that directory is `src/src/`).

## Inventory

| Component | State | Operations | What is hard | What makes it correct |
|---|---|---|---|---|
| `RobustMutex`, `ActionPermit` (`sync/mutex.rs`) | a tokio mutex, a poison flag, the poisoner of a running action | `lock`, `blocking_lock`, `try_lock`, `Debug::fmt`, `perform`, `perform_async_boxed(_local)`, `get_mut`, `into_inner`, drops of every future and permit | actions cut short at any await by a panic or a drop; a lock future dropped after it was granted; threads that already unwind | the mutex is never lost; an `Ok` means that the data's invariants hold; poison stays |
| Poison flag (`sync/poison.rs`) | an `AtomicU8`, a `Guard` with the panicking bit | `borrow`, `guard_assuming_no_poison`, `done`, `get_flags`, `PoisonError::into_inner` | every access is `Relaxed`; nested panics | whoever holds the lock sees the newest flags |
| `for_each_concurrent_then_try` (`stream/`) | stream, futures in flight, limit, first error | `poll`, `is_terminated`, drop | wakeups while it is being polled; the limit; errors of the stream and of futures in any order | nothing is cut short, the first error is returned, no wakeup is lost |
| `collect_then_try` (`stream/`) | stream, collection, first error | `poll`, drop | going to sleep and on in the middle of the stream, errors in between | the collection is the stream, the error its first, no wakeup is lost |
| `join_then_try!` (`macros/`) | a tuple of `MaybeDone`, a rotating start | `poll`, drop | the wrap-around of the rotation; futures that use up the task's budget | each future is polled once per poll; the first error listed is returned after all are done; nobody starves |
| `join_all_then_try` (`future/`) | `Small` slice or `Big` ordered futures | construction, `poll`, drop | the switch at 30; outputs that arrive out of order | the two kinds return the same, and that is what `join_then_try!` returns |
| Cooperative cancellation (`coop_cancel.rs`) | an unbounded channel, a oneshot per message, the sender cached | `new_pair`, `clone`, `cancel`, `recv`, `Waiter`, drops | a cancel that races with the drop of the receiver; repeated `recv` | one message is received; a `Waiter` ends exactly when the receiver is gone |
| Sink adapters (`sink/`) | a borrowed sink, a state | `reserve`, `flush_reserve`, `Permit::feed`, `Permit::send` | dropping any future between ready and send | an item is handed over once and in order, and only to a ready sink; a reservation ends |
| Support, crate root, build script | none | helpers for the compiler, re-exports, the cfg flag `futures_no_atomic_cas` | nothing but the flag, which chooses the kind of `join_all_then_try` | both kinds return the same |

The parts are independent of each other but for `join_all_then_try`, whose
`Big` kind is a `CollectThenTry` over ordered futures, and `flush_reserve`,
which contains a `Reserve`. `RobustMutex` and its flag are one protocol and
share a module.

## Modules

| Module | Content |
|---|---|
| `RobustMutex` | the mutex, the permit, the flag and the users' threads |
| `PoisonLock` | abstract: what a robust mutex promises |
| `PoisonFlag` | the byte behind the flag, and what an error tells of it |
| `Task` | a task, its executor and its outcome, common to all adapters |
| `Futures` | the futures an adapter owns, and `MaybeDone` |
| `FuturesUnordered` | the collection of futures of `futures_util` |
| `ThenTry` | abstract: what every `then_try` adapter promises |
| `ForEachConcurrentThenTry` | the future of `for_each_concurrent_then_try` |
| `Collecting` | what `CollectThenTry` does with each answer of its stream |
| `CollectThenTry` | `Collecting` on any stream |
| `JoinAllThenTry` | both kinds of `join_all_then_try`; `Big` is `Collecting` on the `FuturesOrdered` |
| `JoinThenTry` | the future of `join_then_try!` |
| `CoopCancel` | `Canceler`, `Receiver`, `Waiter` |
| `SinkReserve` | `Reserve`, `FlushReserve`, `Permit`, and a sink |

For a component *X*, *X*`Props` has its properties, the refinement mapping and
the fairness, `MC`*X* the instance for TLC, *X*`.cfg` its constants, and
*X*`Proofs` the theorems.

Operators with the comment "mutant" are no part of the models: each replaces
the definition after it to show that a property notices the bug it stands for.

### RobustMutex

A *user* is one thread of control with one operation on the mutex at a time and
a panic count of its own. `pc[u]` says where it is:

| `pc[u]` | in the code |
|---|---|
| `waiting`, `blocked` | the await of `lock` (mutex.rs:251), `blocking_lock` (301) |
| `permit`, `error` | an `ActionPermit`, alone or inside a `PoisonError` |
| `pending` | a `perform_async_boxed` future that was not polled (no poisoner yet) |
| `sync`, `async` | the closure of `perform`, a polled `perform_async_boxed` future |
| `fmt` | `Debug::fmt` with the guard it took by `try_lock` |
| `unlock` | the poisoner is gone, the tokio guard about to be dropped |

*The tokio mutex* is external. It is a fair semaphore: releasing it assigns it
to the longest waiting user at once, so `owner` may be a user that has not
resumed. `CancelLock` drops a `lock` future in either situation.

*The flag.* A Relaxed load returns any value in the modification order that is
not older than one the thread knows already. The flag only gains bits, so the
set of flags a thread knows (`known[u]`) stands for a place in that order, and
`Loadable` for the values a load may return. Unlocking publishes what the
holder knows, locking acquires it; `is_poisoned` and its relatives read without
either. `Done` is one atomic `fetch_or`, which always reads the newest value.

*Actions.* An action breaks the invariants of the data at some moment
(`Mutate`) and restores them if it runs to its end and was given intact data.
It ends by returning, by a panic (`BodyPanics`) or by being dropped
(`FutureDropped`); each drops the poisoner first and the guard later, in a
second step, as the order of `_poisoner` and `self.guard` demands.

*Panics.* `panics[u]` counts the panics under way on a thread; a destructor that
runs while the thread unwinds may use the mutex, and may have an inner panic
caught. `Guard::panicking` is sampled by `StartBody`. `MaxPanics` bounds the
count.

`perform_async_boxed_local` is the same code as `perform_async_boxed`.
`is_panic_poisoned` and `is_cancel_poisoned` load the same flag as
`is_poisoned`. Left out: formatting, the accessors `get_ref` and `get_mut` of
the error types, the `parking_lot` constructor, and a user that holds several operations at once on
one thread, for instance two permits' futures in one `select!` (as two users
such a pair is covered except for the panic count that the two would share).

### PoisonFlag

`RobustMutex` takes the flag for a set. `PoisonFlag` has the `AtomicU8`: which
bit `Done` adds with `fetch_or`, what `borrow` makes an error of, and what
`is_panic`, `is_cancel`, the mutex's own three questions and `DebugFlags` read
off it. `causes` is the history they are compared with: what `done` was told, that is
the cancellations, and the actions that ended while their thread unwound and had
begun when it did not. The other panics, those of finding 1, are a question of
`RobustMutex` and not of the byte. The mutex is reduced to
its holder, who reads the newest value. That this is what `RobustMutex` does, the
flag being the byte, is its `ImplementsPoisonFlag`: `PoisonByte` maps a set of
flags to the byte, and the holder is who has a permit, an error, a future or a
running action; who is about to unlock has none of them any more. An action that
ends (`done`) may do so by a panic of its own, and then its thread unwinds.

### The `then_try` adapters

`Task` has the three variables every adapter shares: `pc` (the step of the poll
that is under way, or `"asleep"`), `woken` (the task is in its executor's run
queue) and `outcome`. A poll is cut where other threads can come in between:
their notifications make a stream or a future ready and wake the task, if its
waker is where they look. A task can be polled unasked, by a `select!` around
it; fairness never relies on that. `Abandon` drops the adapter between two
polls. The futures, the streams, `FuturesUnordered` and `FuturesOrdered` are
external; a future waits for one event at most and does not panic.

*No lost wakeup.* Each of these modules states as an invariant, `WakeupComing`,
what liveness needs: when the task sleeps and is not woken, everything it owns
has been driven as far as it goes and something that is still to happen has the
waker. It says more than "the adapter ends", which could be saved by chance by
another wakeup, and as an invariant it can be proved. `SinkReserve` has it too.

*ForEachConcurrentThenTry.* The poll loop (lines 78-140) is a step for the
stream (83-117) and one for the `FuturesUnordered` (119-134), which registers
the waker, polls queued futures in any order until one completes, and may give
way to other tasks. `limit` is a number, 0 being what `new` makes of `Some(0)`
and `None` alike. `errors` is the history of all errors met. `StepsLeft` counts
what a poll can still do at most, and `PollsEnd` says that each of its steps makes
it less: two for every element not yet taken and one for every future in flight,
twice, as an iteration may have found nothing, and the iteration that finds there
is no more to do.

*CollectThenTry.* One step for each answer of the stream. Of an element only its
number and whether it is `Ok` matter. `Exhausted` takes the collection or the
error out of the future.

*JoinAllThenTry.* `JoinAll` chooses the kind by the upper bound of `size_hint`,
which nothing forces to be right, and by the flag of the build script
(`futures_no_atomic_cas`, a function of its `TARGET`). `Small` polls one
`MaybeDone` per step (184-189); when all have ended it takes the outputs in their
order, one per step, until one is an error (193-199). `Big` is `Collecting` on a `FuturesOrdered`,
which keeps an output until all that are listed before it have been yielded.

*JoinThenTry.* A step is one pass through the body that the macro repeats for
each branch: skipped, polled, or the `break` before it. `branch`, `skip`,
`to_run`, `is_pending` and `skip_next_time` are the code's variables; `polls` is
a history. `hungry` are branches that may use up the task's budget in a poll,
and then every branch polled later that has not ended returns `Pending` at once
(and wakes the task): this is what the rotation is for. When none was pending the
outputs are taken, one per step and from the first branch listed on, whichever was
polled first (174-188); the `expect` at 183 is the outcome `Panicked`, which no
property allows and the proofs exclude. `Place(i)` is the number of
branches that the poll under way polls before branch `i`; `BudgetGoesRound` says
that it goes down to 0 from poll to poll, and that a branch at 0 has the budget.

### SinkReserve

The task borrows the sink in turn for a future of `reserve` or `flush_reserve`,
for the permit it yields, and for the `Flush` that `send` returns; `holder` says
for which. `Reserve::sink` being taken is `sink = "none"`; `FlushReserve` is
`state` and the same `sink`. Any future and permit can be dropped at any time,
and a future also kept, and polled, after it has issued its permit. The sink
buffers up to `Capacity` items, delivers them on its own, gets ready when it
wants and may break, in which case the task gives up. It keeps the promise of
the `Sink` trait that one that is ready stays so until an item is sent. After an
error `is_terminated` stays false, as the future still has the sink.

### CoopCancel

Messages are numbered in the order they are sent; message `m` stands for its
oneshot pair too, whose sender is alive while `m` is in the channel or cached
as `first_sender`. `DropReceiver` and `DropFirstSender` are the two fields of
the `Receiver` dropped in the order they are declared. The tokio channels are
external, and a send is taken to be atomic with regard to the drop of the
receiving end: a message accepted is in the channel when that is drained. That
is an assumption about tokio; `WaitersReleased` depends on it.

## Runs

| Run | Instance | Distinct states | Question |
|---|---|---|---|
| `RobustMutex` | 3 users, 1 panic each at a time, fair | 276,080 | hand-over, flags, poisoning, the refinement of `PoisonLock`, `BlockedServed` |
| `RobustMutexPanickingAction` | 2 users, 2 nested panics | - | finding: a panicking closure that does not poison |
| `RobustMutexCancelledFuture` | 2 users, no panics | - | finding: a cancelled future that does not poison |
| `RobustMutexPanickedHolder` | 2 users, 1 panic | - | finding: a holder that panics without poison |
| `PoisonFlag` | 2 users | 136 | the bits tell the causes and nothing else |
| `ForEach` | up to 3 elements `Ok` or `Err`, limits none, 1, 2, fair | 15,838 | limit, first error, termination, wakeups, refinement of `ThenTry`, the end of every poll, and of all if the stream does not fail |
| `ForEachStreamError` | up to 2 elements, fair | - | finding: a stream error loses the wakeup |
| `Collect` | up to 4 elements | 1,450 | order, first error, wakeups, refinement of `ThenTry` |
| `JoinAll` | up to 4 futures, `SMALL` = 3, no hint and hints 2 to 4, 3 targets | 8,044 | the same result of both kinds, wakeups, refinement of `ThenTry` |
| `Join` | up to 3 branches, any of them hungry, fair | 18,084 | the rotation, the error listed first, wakeups, refinement of `ThenTry`, the budget goes round, nobody starves |
| `CoopCancel` | 3 cancelers, 3 messages, fair | 1,516 | one message, no early `Waiter`, no early `None`, a receiver that is gone keeps no `Waiter`, every `Waiter` is released, a cancellation is noticed |
| `Sink` | 4 items, capacity 2, fair | 1,562 | permits, items sent once, termination, wakeups, reservations end |

Type invariants are in no run: `TypeOK` is proved in every `Proofs` module.

Deadlock is not checked where the system may stop: when the adapter has
returned, when the receiver is gone, when all items are sent or the sink is
broken, and in the runs of findings, which are about something else.
`RobustMutex` and `PoisonFlag` do check it: there a thread can always go on.

*Bounds.* Three users are a holder, a granted waiter and one more in the queue,
or a holder, a waiter that is cancelled and one behind it; every property
speaks of at most two of them and a history. One panic at a time on each thread
already has destructors that use the mutex while unwinding; a second one leads
to the first finding, and the properties that are then false
(`CleanMeansIntact`, `ImplementsPoisonLock`) are proved for any number of panics
but for the step that finding 1 is about. For the streams, three elements with
limit 2 have a push below, at and after the limit, and errors before and after
one another. Four futures are one more than `SMALL`, whose value in the code is
30. Three branches are the fewest with one in the middle, and the rotation
starts at each of them. Three messages are the first, one that waits behind it,
and one sent late. Four items fill the sink of two, drain it, and fill it
again. The safety properties are proved without these bounds, see below.

*Fairness.* `RobustMutex`: a user gets on with what it holds and an action that
was started ends somehow. The crate cannot promise that of its users, but
nobody is served if one of them keeps the mutex for ever. Nobody has to ask for
it, and no future has to be cancelled. `ForEach` and `Join`: the executor polls
a woken task (not one that was not woken), a poll ends, and the events the
stream and the futures wait for happen. A hungry branch may be hungry for ever,
and `NobodyStarves` is not about it. `CoopCancel`: a drop that began ends, and a
`Waiter` that is kept is polled when it was woken. The task with the receiver calls
`recv()` again after it dropped a `recv()` future, as the loop of coop_cancel.rs:60-72
does, and the fairness on what `recv()` returns is strong: any number of futures may be
dropped before they were polled, but `select!` picks the branch to poll first at random,
and so the future is polled, and returns, one day. `Sink`: the task polls what it
awaits when it is woken, a poll ends, and the sink delivers and gets ready; it
may break, which ends the wait too. Dropping is never fair.

## Findings

1. *A panicking closure without poison.* mutex.rs:592: "If `action` panics, the
   mutex is marked poisoned." Flag::done (poison.rs:200) sets nothing if the
   thread was already panicking when `perform` began; a closure that panics in a
   destructor, with the panic caught there, leaves its half-done work behind an
   unpoisoned mutex.
2. *A cancelled future without poison.* mutex.rs:631-634 promises poison when
   the future of `perform_async_boxed` "is cancelled before being driven to
   completion"; before its first poll there is no poisoner (673-678). The data
   was not touched, so only the wording is wrong.
3. *A holder that panics without poison.* mutex.rs:229-230 (and 263-264, 311):
   "If another user of this mutex panicked while holding the mutex, then this
   call will return an error". Only a panic inside `perform` does that, as
   mutex.rs:79-80 says.
4. *A stream error loses the wakeup.* for_each_concurrent_then_try.rs:96-101
   does not count an `Err` of the stream as progress. With no future in flight,
   poll then returns `Pending` (137) without a waker registered anywhere, and a
   task that nothing else wakes sleeps for ever; try_stream.rs:10-11 promises to
   run the stream to completion.

## Proofs

Every safety property that the runs check, and every refinement, is proved for
all values of the constants: any sets of users and cancelers, streams, lists of
futures and of branches of any length, any limit and any capacity, and any
`SMALL`. The proofs assume the named assumptions of the modules, which TLC
evaluates. `CleanAccessIntact` and `ImplementsAbstractLock` are about the
behaviours without `NestedPanic`, the step of finding 1: a closure that was called
while its thread unwound panics in its turn. That this one step is all that has to
be left out is the point of the two theorems; `OnePanicAtATime` shows that it
cannot happen if `MaxPanics <= 1`, which is what the run has. Each proof is by an
inductive invariant: `TypeOK` and one or more named formulas, whose step lemmas
have one step per action.

`RobustMutexProofs` has five parts; each step lemma uses only the parts before
its own.

- `TypeOK`.
- `LockInv`: `LockAccounted`, and no user is in the queue twice. Without the
  latter, removing a cancelled waiter could leave it in the queue. The three
  lemmas on `Tail`, `Append` and `RemoveAt` say what becomes of such a queue.
- `FlagInv`: nobody knows more than the newest value of the flag, the holder
  knows that value, and while there is no holder it is the one published. The
  last part carries the argument of poison.rs:162-169: between two holders
  nobody can set a flag, so the next one finds in what was published a lower
  bound that is also the newest value.
- `PanicInv`: a closure whose poisoner was made during a panic is still inside
  that panic, and one whose poisoner was not, and now panics, began to panic
  while it held the mutex.
- `DataInv`: damaged data has a flag up or an action under way; a permit from an
  `Ok` that is not used yet has seen that no flag is up; a consumed mutex has no
  users left. This is where `~NestedPanic` is needed, and `PanicInv` is not.

A property of steps follows from these: `FirstPanicPoisons` needs `PanicInv` at the
one place where the thread does not unwind but the poisoner was made when it did: a
closure cannot outlive that unwinding, and a future that was first polled in it sets
the flag for its cancellation.

`AbstractStep` maps an acquisition to `Acquire`, the steps of an action to
`Work`, the unlock to `Release`, `get_mut` to `Repair`, and everything else to a
stutter.

`ByteStep` maps an acquisition to `Borrow` of `PoisonFlag` (`BorrowsFlag`, where the
holder reads the newest flags by `FlagInv`), the end of an action to `done`
(`EndsWithDone`), the start of one to `guard_assuming_no_poison`, and every panic
and catch to `Panic`. `Byte` and `DoneByte` say that `fetch_or` of a bit is the union
with a flag; `View` and `SameView` what of a mutex and its users can be seen there.
`ImplementsFlag` has no bound on panics: `PoisonFlag` says which panics count.

`PoisonFlagProofs`: `HolderInv` says that a permit, an error and an action are
somebody's. The byte is one of four, and its bits are what `fetch_or`
makes of the causes; the lemmas on `HasBit` and `Or` go through the four.

`ForEachProofs`: `ExitInv` says when the loop may stop (the stream is gone, no
future is in flight) and that nothing is dropped before. `WakeInv` is about the
moment between the two steps of an iteration: if the stream made no progress, it
has the waker (`StreamWatched`), unless the task was woken since, or there is no
room; a poll that goes to sleep adds `FuturesWatched`. It needs `~StreamFailed`
exactly at `StreamErr`, which is finding 4. For `PollsEnd`, `WorkStep` says that no
step adds to the work and that taking an element or ending a future takes from it
(an element becomes one future at most, `ItemShrinks` is about the set of those in
flight), and `LastStepsValue` pays for the iterations that find nothing.

`CollectProofs`: `CollectInv` says that the collection lists what was taken, and
that an error is cached once there was one.

`JoinProofs`: `Turn(i, start, count)` is the turn in which a poll that starts
after `start` branches gets to branch `i`. `LoopInv` says that `branch` is the
one whose turn is next and that those polled are those whose turn has passed;
the lemma `NextTurn` is the wrap-around, and `PolledOnce` follows at `to_run = 0`.
`DriveInv` says that what was polled has ended or waits, or the task is woken, and
that when outputs are taken all are there and those before `branch` were `Ok`: from
this it follows that the error met first is that of the first listed.
`BudgetInv` says that a poll begins with the whole budget, and `PlaceMoves` that the
next poll moves every branch up by one and the first to the end.

`JoinAllProofs`: `PollInv` for the small kind (what was passed as done has
ended), `YieldInv` for the big one (what was collected is what the
`FuturesOrdered` has yielded, or the error listed first among that), `TakeInv` what
the small one has taken so far, and both kinds lead to the one `SameResult`. `WakeInv` is as in `JoinProofs`.

`CoopCancelProofs`: `OrderInv` says that the channel holds the messages from the
first not received up to the last sent, hence that the message received first is
number 1; `WaiterInv` that a message not sent has no `Waiter`; and `DropInv`, for
`WaitersFreed`, that a channel that was dropped stays empty, as nothing is sent into
it any more.

`SinkProofs`: `ReserveInv` says who has the sink and what that means: a permit
stands for a ready sink, and a `flush_reserve` past its flush for an empty one.
`ItemsCorrect` needs two lemmas on sequences, that the head moved to the other
side leaves a concatenation as it was, and that appending `n` counts on. `WakeInv`
adds to `WakeupComing` that a poll is never of a `Flush`.

For the adapters, `AbstractStep` maps every step of a poll and of the other
threads to `Run`, which may also leave all as it is, the return to `Exit`, and
the drop to `Drop`.

Only model-checked: liveness, which is out of this prover's reach. Of each of these
properties a safety half is proved, which leaves to fairness what only fairness
gives:

| Model-checked | Proved |
|---|---|
| `BlockedServed` | `LockAccounted`: who waits is in the queue, and the mutex is somebody's who is there |
| `RunsToCompletionWithoutErr` | `WakeupComing`, `PollsEnd`: a wakeup is coming, and each poll ends |
| `NobodyStarves` | `WakeupComing`, `BudgetGoesRound`: a branch gets its turn at the budget |
| `WaitersReleased` | `WaitersFreed`: nothing is left that keeps a `Waiter` |
| `CancelNoticed` | `OnlyFirstReceived`, `NoneMeansOver`: what `recv()` returns is the first message, or nothing will come |
| `ReservationEnds` | `WakeupComing`, for the sink |

## Not modelled

- `support.rs`: helpers for the compiler without state.
- `lib.rs`, `prelude.rs` and the module files: re-exports and documentation.
- The build script but for the flag it sets; its other lines are for cargo.
- The empty arm of `join_then_try!`, which is the constant `Ok(())`.
- The layout and wording of `Debug` and `Display`, and the accessors of the
  error types, which return what they were given.
- What is external is modelled from its use: the tokio mutex and channels,
  tokio's budget, the combinators of `futures_util`, streams, futures and sinks.
  A stream or future that panics is not; only `RobustMutex` is about panics.
