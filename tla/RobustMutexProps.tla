--------------------------- MODULE RobustMutexProps ---------------------------
(***************************************************************************)
(* The properties of RobustMutex.                                          *)
(***************************************************************************)
EXTENDS RobustMutex

\* Who holds the mutex is never in doubt, and it is never lost: the holder is
\* the user it is assigned to, that user is still there to release or pass it
\* on, and those waiting are exactly the ones in the queue of a locked mutex.
\* At stake: a lock() future dropped after it was handed the mutex (mutex.rs:251),
\* and every way of dropping a permit.
LockAccounted ==
  /\ \A u \in Users : Acquired(u) => owner = u
  /\ owner # NoUser => pc[owner] # "idle"
  /\ ToSet(queue) = {u \in Users : InQueue(u) /\ owner # u}
  /\ queue # <<>> => owner # NoUser

\* Whoever holds the mutex sees the newest flags, although every access to
\* them is Relaxed: the argument of the comment at poison.rs:162-169.
HolderSeesFlags == \A u \in Users : Acquired(u) => known[u] = failed

\* A permit or a value that came in an Ok, and is not yet used, gives access to
\* data whose invariants hold: an action cut short by a panic or a cancellation
\* is never found by someone who was told the mutex is not poisoned.
CleanMeansIntact ==
  /\ \A u \in Users : clean[u] /\ pc[u] \in {"permit", "pending", "fmt"} => intact
  /\ inner = "ok" => intact

\* "Once a lock is poisoned then all future acquisitions will return this error"
\* (poison.rs:11-12): no flag is ever taken down, and no step hands out an Ok
\* after one was set.
NoCleanGrantAfterPoison ==
  [][ /\ failed \subseteq failed'
      /\ failed # NO_POISON =>
           /\ \A u \in Users : ~clean[u] => ~clean'[u]
           /\ inner' # "ok" \/ inner = "ok" ]_vars

\* What is true of "If `action` panics, the mutex is marked poisoned" (mutex.rs:592)
\* and of the same promise of perform_async_boxed (mutex.rs:631-632): it is so unless
\* the thread was already unwinding from another panic.
FirstPanicPoisons ==
  [][ \A u \in Users : BodyPanics(u) /\ ~Panicking(u) => failed' # NO_POISON ]_vars

\* The panic flag says that a user panicked while it held the mutex: using the
\* mutex from a destructor that runs because of an earlier panic does not set it
\* (Guard::panicking, poison.rs:193 and 200).
PanicFlagMeansPanic == PANIC_POISON \in failed => unwound

\* The one way to cut an action short unnoticed: a closure that was called while its
\* thread unwound panics in its turn (poison.rs:200).
NestedPanic == \E u \in Users : BodyPanics(u) /\ pc[u] = "sync" /\ guardPanicking[u]

-----------------------------------------------------------------------------
\* The mutex implements the abstract lock: whoever the tokio mutex is assigned
\* to and has resumed is the holder.
Holder == IF owner # NoUser /\ Acquired(owner) THEN owner ELSE NoUser

Access ==
  IF Holder = NoUser THEN "none" ELSE IF clean[Holder] THEN "clean" ELSE "poisoned"

Abstract == INSTANCE PoisonLock WITH holder <- Holder, access <- Access,
                                     poison <- failed
\* Every step of the mutex is a step of PoisonLock or none of it can be seen
\* there: among others, damaged data is never released without a flag.
ImplementsPoisonLock == Abstract!Spec

-----------------------------------------------------------------------------
\* The mutex implements PoisonFlag: the flags are the bits of a byte, which is with
\* the holder until its permit is dropped or its action ends.
PoisonByte(s) ==
  (IF PANIC_POISON \in s THEN 1 ELSE 0) + (IF CANCEL_POISON \in s THEN 2 ELSE 0)

\* u has a permit, an error, a future or an action that is running.
HasFlag(u) == Acquired(u) /\ pc[u] # "unlock"

Stage(u) ==
  IF InBody(u) THEN "body"
  ELSE IF pc[u] = "error" \/ (pc[u] = "fmt" /\ ~clean[u]) THEN "error"
  ELSE "ok"

FlagHolder    == IF owner # NoUser /\ HasFlag(owner) THEN owner ELSE NoUser
FlagPC        == IF FlagHolder = NoUser THEN "free" ELSE Stage(FlagHolder)
FlagFlags     == IF FlagPC = "error" THEN PoisonByte(failed) ELSE 0
FlagGuard     == FlagPC = "body" /\ guardPanicking[FlagHolder]
FlagPanicking == {u \in Users : Panicking(u)}

Flag == INSTANCE PoisonFlag WITH failed <- PoisonByte(failed), holder <- FlagHolder,
                                 pc <- FlagPC, flags <- FlagFlags, guard <- FlagGuard,
                                 panicking <- FlagPanicking, causes <- failed

\* What PoisonFlag shows of the byte and of the errors made of it holds for the mutex
\* with its queue, its futures and nested panics.
ImplementsPoisonFlag == Flag!Spec

-----------------------------------------------------------------------------
\* Users get on with what they hold, and an action they started ends in one way
\* or another; nobody has to ask for the mutex.
FairSpec == Spec /\ \A u \in Users : WF_vars(Finish(u))

\* A thread blocked in blocking_lock() gets its turn, however many lock()
\* futures before it are cancelled and however the holders' actions end.
BlockedServed ==
  \A u \in Users : pc[u] = "blocked" ~> pc[u] \in {"permit", "error"}

-----------------------------------------------------------------------------
(***************************************************************************)
(* What the documentation says and the code does not do.                   *)
(***************************************************************************)

\* "If `action` panics, the mutex is marked poisoned." (mutex.rs:592)
PanickingActionPoisons ==
  [][ \A u \in Users : BodyPanics(u) => failed' # NO_POISON ]_vars

\* The mutex is marked poisoned if "The future returned by this async function
\* is cancelled before being driven to completion." (mutex.rs:631-634)
CancelledFuturePoisons ==
  [][ \A u \in Users :
        pc[u] \in {"pending", "async"} /\ (DropUnused(u) \/ FutureDropped(u))
          => failed' # NO_POISON ]_vars

\* "If another user of this mutex panicked while holding the mutex, then this
\* call will return an error once the mutex is acquired." (mutex.rs:229-230)
PanickedHolderPoisons ==
  [][ \A u \in Users : Resume(u) /\ unwound => ~clean'[u] ]_vars

=============================================================================
