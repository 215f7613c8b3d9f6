----------------------------- MODULE RobustMutex -----------------------------
(***************************************************************************)
(* RobustMutex<T> of src/sync/mutex.rs with its poison flag,           *)
(* src/sync/poison.rs: a tokio mutex whose guard can only be used by   *)
(* consuming an ActionPermit, and which is poisoned when the closure or    *)
(* the future that consumed the permit panics or is dropped half-way.      *)
(*                                                                         *)
(* A user is one thread of control: it runs one operation on the mutex at  *)
(* a time and has a panic count of its own (std::thread::panicking() is a  *)
(* positive count).  While it unwinds, its destructors may use the mutex.  *)
(*                                                                         *)
(* The flag is an AtomicU8 that is always accessed with Ordering::Relaxed, *)
(* so a load may return any value in the modification order that is not    *)
(* older than what the loading thread already knows.  "known" is that      *)
(* knowledge, "published" the knowledge passed on by unlocking.  The flag  *)
(* only gains bits, so a set of flags stands for a place in that order.    *)
(***************************************************************************)
EXTENDS Integers, Sequences, SequencesExt

CONSTANTS
  Users,      \* the threads of control that share the mutex
  NoUser,     \* "the tokio mutex is free"
  MaxPanics   \* bound on the panics nested on one thread

ASSUME NoUserAssumption == NoUser \notin Users
ASSUME MaxPanicsAssumption == MaxPanics \in Nat

VARIABLES
  owner,          \* the user the tokio mutex is assigned to, or NoUser
  queue,          \* users waiting for the tokio mutex, in request order
  published,      \* flags known to every user that has unlocked the mutex
  failed,         \* Flag::failed, the newest value in its modification order
  written,        \* the values in the modification order of Flag::failed
  known,          \* known[u]: the newest of them that u has read or written
  pc,             \* what u is doing with the mutex
  clean,          \* clean[u]: u's permit came in an Ok, not in a PoisonError
  guardPanicking, \* Guard::panicking of u's Poisoner or AsyncPoisoner
  panics,         \* the panic count of u's thread
  intact,         \* the invariants of the guarded data hold
  inner,          \* "shared", or the result of into_inner: "ok" or "poisoned"
  unwound         \* history: some panic began in a user that held the mutex

tokioVars == <<owner, queue>>
flagVars  == <<published, failed, written, known>>
userVars  == <<pc, clean, guardPanicking, panics>>
vars == <<tokioVars, flagVars, userVars, intact, inner, unwound>>

PANIC_POISON  == "panic"
CANCEL_POISON == "cancel"
NO_POISON     == {}
Flags == {PANIC_POISON, CANCEL_POISON}

(***************************************************************************)
(* "waiting" is a lock() future in the queue, "blocked" a blocking_lock(). *)
(* "permit" and "error" hold an ActionPermit, the latter inside a          *)
(* PoisonError.  "pending" is a perform_async_boxed future that was never  *)
(* polled, "sync" and "async" are a running closure and a polled future,   *)
(* "fmt" is Debug::fmt, and "unlock" is about to drop the tokio guard.     *)
(***************************************************************************)
PCs == {"idle", "waiting", "blocked", "permit", "error", "pending", "sync",
        "async", "fmt", "unlock"}

InQueue(u)  == pc[u] \in {"waiting", "blocked"}
Acquired(u) == pc[u] \notin {"idle", "waiting", "blocked"}
InBody(u)   == pc[u] \in {"sync", "async"}
Panicking(u) == panics[u] > 0

\* States in which u's own code, not the mutex or a closure of perform, runs.
Outside(u) ==
  pc[u] \in {"idle", "waiting", "permit", "error", "pending", "async", "fmt"}

TypeOK ==
  /\ owner \in Users \cup {NoUser}
  /\ queue \in Seq(Users)
  /\ published \in SUBSET Flags
  /\ failed \in SUBSET Flags
  /\ written \in SUBSET (SUBSET Flags)
  /\ known \in [Users -> SUBSET Flags]
  /\ pc \in [Users -> PCs]
  /\ clean \in [Users -> BOOLEAN]
  /\ guardPanicking \in [Users -> BOOLEAN]
  /\ panics \in [Users -> 0 .. MaxPanics]
  /\ intact \in BOOLEAN
  /\ inner \in {"shared", "ok", "poisoned"}
  /\ unwound \in BOOLEAN

-----------------------------------------------------------------------------
(***************************************************************************)
(* The flag.                                                               *)
(***************************************************************************)

\* Flag::get_flags by a thread that knows k: a Relaxed load.
Loadable(k) == {flags \in written : k \subseteq flags}

NewFlagsIgnoringGuard(atGuard, now, cancel_poison) ==    \* mutant
  (IF now THEN {PANIC_POISON} ELSE {})
    \cup (IF cancel_poison THEN {CANCEL_POISON} ELSE {})
NewFlagsWithoutCancel(atGuard, now, cancel_poison) ==    \* mutant
  IF ~atGuard /\ now THEN {PANIC_POISON} ELSE {}

\* The bits Flag::done adds.
NewFlags(atGuard, now, cancel_poison) ==
  (IF ~atGuard /\ now THEN {PANIC_POISON} ELSE {})
    \cup (IF cancel_poison THEN {CANCEL_POISON} ELSE {})

DoneByStore(u, panicking, cancel_poison) ==    \* mutant: store, not fetch_or
  /\ failed' = NewFlags(guardPanicking[u], panicking, cancel_poison)
  /\ written' = written \cup {failed'}
  /\ known' = [known EXCEPT ![u] = failed']
  /\ UNCHANGED published

\* Flag::done, a fetch_or: it reads the newest value whatever u knows.
Done(u, panicking, cancel_poison) ==
  /\ failed' = failed \cup NewFlags(guardPanicking[u], panicking, cancel_poison)
  /\ written' = written \cup {failed'}
  /\ known' = [known EXCEPT ![u] = failed']
  /\ UNCHANGED published

-----------------------------------------------------------------------------
(***************************************************************************)
(* The tokio mutex: a fair semaphore of one permit.  Releasing assigns it  *)
(* to the longest waiting user at once, so nobody can barge in.            *)
(***************************************************************************)

PassOn ==
  IF queue = <<>>
  THEN owner' = NoUser /\ UNCHANGED queue
  ELSE owner' = Head(queue) /\ queue' = Tail(queue)

\* Dropping the tokio guard, and what u learned with it.
Unlock(u) ==
  /\ pc[u] = "unlock"
  /\ PassOn
  /\ published' = published \cup known[u]
  /\ pc' = [pc EXCEPT ![u] = "idle"]
  /\ clean' = [clean EXCEPT ![u] = FALSE]
  /\ UNCHANGED <<failed, written, known, guardPanicking, panics, intact, inner, unwound>>

-----------------------------------------------------------------------------
(***************************************************************************)
(* Acquiring.  lock() and blocking_lock() on a free mutex and try_lock()   *)
(* take the same step; try_lock() on a locked one returns WouldBlock and   *)
(* changes nothing.                                                        *)
(***************************************************************************)

BorrowBeforeLock(u, ok, err) ==    \* mutant: the flags read before the await
  /\ \E flags \in Loadable(known[u]) :
       /\ known' = [known EXCEPT ![u] = flags]
       /\ clean' = [clean EXCEPT ![u] = (flags = NO_POISON)]
       /\ pc' = [pc EXCEPT ![u] = IF flags = NO_POISON THEN ok ELSE err]
  /\ UNCHANGED <<published, failed, written, guardPanicking, panics, intact, inner, unwound>>

\* ActionPermit::new: Flag::borrow under the lock, after the tokio mutex made
\* what earlier holders published visible to u.
Borrow(u, ok, err) ==
  /\ \E flags \in Loadable(known[u] \cup published) :
       /\ known' = [known EXCEPT ![u] = flags]
       /\ clean' = [clean EXCEPT ![u] = (flags = NO_POISON)]
       /\ pc' = [pc EXCEPT ![u] = IF flags = NO_POISON THEN ok ELSE err]
  /\ UNCHANGED <<published, failed, written, guardPanicking, panics, intact, inner, unwound>>

TakeFree(u) ==
  /\ inner = "shared"
  /\ pc[u] = "idle"
  /\ owner = NoUser
  /\ owner' = u
  /\ UNCHANGED queue

TryLock(u) == TakeFree(u) /\ Borrow(u, "permit", "error")

\* Debug::fmt of the mutex: try_lock(), the guard kept while T is formatted.
\* A poisoned mutex is shown as "<locked>", also with the guard held.
DebugFmt(u) == TakeFree(u) /\ Borrow(u, "fmt", "fmt")

Enqueue(u, how) ==
  /\ inner = "shared"
  /\ pc[u] = "idle"
  /\ owner # NoUser
  /\ queue' = Append(queue, u)
  /\ pc' = [pc EXCEPT ![u] = how]
  /\ UNCHANGED <<owner, flagVars, clean, guardPanicking, panics, intact, inner, unwound>>

LockWait(u)     == Enqueue(u, "waiting")
BlockingWait(u) == Enqueue(u, "blocked")

\* The tokio mutex was assigned to u: lock() or blocking_lock() resumes.
Resume(u) ==
  /\ InQueue(u)
  /\ owner = u
  /\ UNCHANGED tokioVars
  /\ Borrow(u, "permit", "error")

CancelLockKeeping(u) ==    \* mutant: a mutex already assigned is not passed on
  /\ pc[u] = "waiting"
  /\ \/ owner = u /\ UNCHANGED tokioVars
     \/ /\ owner # u
        /\ \E i \in DOMAIN queue : queue[i] = u /\ queue' = RemoveAt(queue, i)
        /\ UNCHANGED owner
  /\ pc' = [pc EXCEPT ![u] = "idle"]
  /\ UNCHANGED <<flagVars, clean, guardPanicking, panics, intact, inner, unwound>>

\* Dropping a lock() future: it leaves the queue, or passes on the mutex if
\* that was already assigned to it.
CancelLock(u) ==
  /\ pc[u] = "waiting"
  /\ \/ owner = u /\ PassOn
     \/ /\ owner # u
        /\ \E i \in DOMAIN queue : queue[i] = u /\ queue' = RemoveAt(queue, i)
        /\ UNCHANGED owner
  /\ pc' = [pc EXCEPT ![u] = "idle"]
  /\ UNCHANGED <<flagVars, clean, guardPanicking, panics, intact, inner, unwound>>

\* PoisonError::into_inner: the permit, despite the poison.
ErrorIntoInner(u) ==
  /\ pc[u] = "error"
  /\ pc' = [pc EXCEPT ![u] = "permit"]
  /\ UNCHANGED <<tokioVars, flagVars, clean, guardPanicking, panics, intact, inner, unwound>>

-----------------------------------------------------------------------------
(***************************************************************************)
(* Using the permit.                                                       *)
(***************************************************************************)

\* An ActionPermit, a PoisonError or a Debug::fmt guard is dropped, or a
\* perform_async_boxed future that was never polled: there is no poisoner,
\* so only the tokio guard goes.
DropUnused(u) ==
  /\ pc[u] \in {"permit", "error", "fmt", "pending"}
  /\ pc' = [pc EXCEPT ![u] = "unlock"]
  /\ UNCHANGED <<tokioVars, flagVars, clean, guardPanicking, panics, intact, inner, unwound>>

\* Calling perform_async_boxed runs none of it: it returns the future.
PerformAsync(u) ==
  /\ pc[u] = "permit"
  /\ pc' = [pc EXCEPT ![u] = "pending"]
  /\ UNCHANGED <<tokioVars, flagVars, clean, guardPanicking, panics, intact, inner, unwound>>

\* Flag::guard_assuming_no_poison and the construction of the poisoner.
StartBody(u, from, to) ==
  /\ pc[u] = from
  /\ pc' = [pc EXCEPT ![u] = to]
  /\ guardPanicking' = [guardPanicking EXCEPT ![u] = Panicking(u)]
  /\ UNCHANGED <<tokioVars, flagVars, clean, panics, intact, inner, unwound>>

Perform(u)   == StartBody(u, "permit", "sync")
FirstPoll(u) == StartBody(u, "pending", "async")

\* The body breaks the invariants of the data on its way.
Mutate(u) ==
  /\ InBody(u)
  /\ intact
  /\ intact' = FALSE
  /\ UNCHANGED <<tokioVars, flagVars, userVars, inner, unwound>>

\* The poisoner is dropped before the tokio guard: _poisoner is a local,
\* the guard a field of the parameter self.
DropPoisoner(u, panicking, cancel_poison) ==
  /\ Done(u, panicking, cancel_poison)
  /\ pc' = [pc EXCEPT ![u] = "unlock"]
  /\ guardPanicking' = [guardPanicking EXCEPT ![u] = FALSE]
  /\ UNCHANGED <<tokioVars, clean, inner>>

\* The body runs to its end.  It restores the invariants it was given; from
\* poisoned data it may or may not repair them.
BodyReturns(u) ==
  /\ InBody(u)
  /\ DropPoisoner(u, Panicking(u), FALSE)
  /\ intact' \in IF clean[u] THEN {TRUE} ELSE BOOLEAN
  /\ UNCHANGED <<panics, unwound>>

\* The body panics, and the unwinding drops the poisoner.  A future that
\* panics has not terminated.
BodyPanics(u) ==
  /\ InBody(u)
  /\ panics[u] < MaxPanics
  /\ panics' = [panics EXCEPT ![u] = @ + 1]
  /\ DropPoisoner(u, TRUE, pc[u] = "async")
  /\ unwound' = TRUE
  /\ UNCHANGED intact

FutureDroppedTerminated(u) ==    \* mutant: terminated set before the await
  /\ pc[u] = "async"
  /\ DropPoisoner(u, Panicking(u), FALSE)
  /\ UNCHANGED <<panics, intact, unwound>>

\* A polled perform_async_boxed future is dropped at an await point.
FutureDropped(u) ==
  /\ pc[u] = "async"
  /\ DropPoisoner(u, Panicking(u), TRUE)
  /\ UNCHANGED <<panics, intact, unwound>>

-----------------------------------------------------------------------------
(***************************************************************************)
(* The user's own code and the operations that need no lock.               *)
(***************************************************************************)

\* A panic outside every action; what u holds is dropped by its unwinding
\* (DropUnused, FutureDropped, CancelLock) or is kept outside of it.
UserPanics(u) ==
  /\ Outside(u)
  /\ panics[u] < MaxPanics
  /\ panics' = [panics EXCEPT ![u] = @ + 1]
  /\ unwound' = (unwound \/ Acquired(u))
  /\ UNCHANGED <<tokioVars, flagVars, pc, clean, guardPanicking, intact, inner>>

CatchUnwind(u) ==
  /\ Outside(u)
  /\ Panicking(u)
  /\ panics' = [panics EXCEPT ![u] = @ - 1]
  /\ UNCHANGED <<tokioVars, flagVars, pc, clean, guardPanicking, intact, inner, unwound>>

\* is_poisoned, is_panic_poisoned and is_cancel_poisoned, with no lock held:
\* the flags read may be old.
IsPoisoned(u) ==
  /\ inner = "shared"
  /\ Outside(u)
  /\ \E flags \in Loadable(known[u]) : known' = [known EXCEPT ![u] = flags]
  /\ UNCHANGED <<tokioVars, published, failed, written, userVars, intact, inner, unwound>>

\* &mut self or self: no other reference is left, and handing over the last
\* one made everything its earlier holders knew visible.
Exclusive == inner = "shared" /\ \A u \in Users : pc[u] = "idle"

\* get_mut hands out the data whatever the flags say, and leaves them: its
\* caller may repair the data, and then it is still poisoned.
GetMut ==
  /\ Exclusive
  /\ intact' \in {intact, TRUE}
  /\ UNCHANGED <<tokioVars, flagVars, userVars, inner, unwound>>

IntoInner ==
  /\ Exclusive
  /\ \E flags \in Loadable(published \cup UNION {known[u] : u \in Users}) :
       inner' = IF flags = NO_POISON THEN "ok" ELSE "poisoned"
  /\ UNCHANGED <<tokioVars, flagVars, userVars, intact, unwound>>

-----------------------------------------------------------------------------

\* RobustMutex::new.
Init ==
  /\ owner = NoUser
  /\ queue = <<>>
  /\ published = NO_POISON
  /\ failed = NO_POISON
  /\ written = {NO_POISON}
  /\ known = [u \in Users |-> NO_POISON]
  /\ pc = [u \in Users |-> "idle"]
  /\ clean = [u \in Users |-> FALSE]
  /\ guardPanicking = [u \in Users |-> FALSE]
  /\ panics = [u \in Users |-> 0]
  /\ intact = TRUE
  /\ inner = "shared"
  /\ unwound = FALSE

\* What u has to do so that its hold on the mutex ends.
Finish(u) ==
  \/ Resume(u)
  \/ ErrorIntoInner(u)
  \/ DropUnused(u)
  \/ PerformAsync(u)
  \/ Perform(u)
  \/ FirstPoll(u)
  \/ BodyReturns(u)
  \/ BodyPanics(u)
  \/ FutureDropped(u)
  \/ Unlock(u)

UserNext(u) ==
  \/ Finish(u)
  \/ TryLock(u)
  \/ DebugFmt(u)
  \/ LockWait(u)
  \/ BlockingWait(u)
  \/ CancelLock(u)
  \/ Mutate(u)
  \/ UserPanics(u)
  \/ CatchUnwind(u)
  \/ IsPoisoned(u)

Next == (\E u \in Users : UserNext(u)) \/ GetMut \/ IntoInner

Spec == Init /\ [][Next]_vars

=============================================================================
