------------------------------- MODULE PoisonFlag -------------------------------
(***************************************************************************)
(* The byte behind a RobustMutex's poison, src/sync/poison.rs: what        *)
(* RobustMutex takes for a set of flags is an AtomicU8, and what its users *)
(* learn of it are bits of that byte, read off the mutex or off the        *)
(* PoisonError they got.  The mutex is here only who has it; that its      *)
(* holder reads the newest value is RobustMutex's HolderSeesFlags, and     *)
(* RobustMutex implements this module (its ImplementsPoisonFlag).          *)
(***************************************************************************)
EXTENDS Naturals

CONSTANTS
  Users,   \* the threads that share the mutex
  NoUser   \* "the mutex is free"

ASSUME NoUserAssumption == NoUser \notin Users

VARIABLES
  failed,     \* Flag::failed, a byte
  holder,     \* who has the mutex, or NoUser
  pc,         \* what the holder has of it: "ok", "error" or "body"
  flags,      \* PoisonError::flags of the holder, while it is at "error"
  guard,      \* Guard::panicking of the holder, while it is in "body"
  panicking,  \* the threads that unwind
  causes      \* history: "panic" if an action that began on a thread which did not
              \* unwind ended while it did, "cancel" if an action was cancelled

vars == <<failed, holder, pc, flags, guard, panicking, causes>>

NO_POISON     == 0
PANIC_POISON  == 1
CANCEL_POISON == 2

\* a & bit # 0 and a | bit of bytes, for a bit that is a power of two.
HasBit(a, bit) == (a \div bit) % 2 = 1
Or(a, bit)     == IF HasBit(a, bit) THEN a ELSE a + bit

\* PoisonError::is_panic and is_cancel, and RobustMutex's three questions.
is_panic(a)  == HasBit(a, PANIC_POISON)
is_cancel(a) == HasBit(a, CANCEL_POISON)
is_poisoned        == failed # NO_POISON
is_panic_poisoned  == is_panic(failed)
is_cancel_poisoned == is_cancel(failed)

\* DebugFlags: what a message says of a byte.
DebugFlags(a) ==
  IF a = NO_POISON THEN {"not poisoned"}
  ELSE (IF is_panic(a) THEN {"panic"} ELSE {}) \cup (IF is_cancel(a) THEN {"cancel"} ELSE {})

TypeOK ==
  /\ {failed, flags} \subseteq NO_POISON .. PANIC_POISON + CANCEL_POISON
  /\ holder \in Users \cup {NoUser}
  /\ pc \in {"free", "ok", "error", "body"}
  /\ guard \in BOOLEAN
  /\ panicking \subseteq Users
  /\ causes \subseteq {"panic", "cancel"}

-----------------------------------------------------------------------------

\* Flag::borrow: the flags of an Err, or NO_POISON for an Ok.
borrow == IF failed > NO_POISON THEN failed ELSE NO_POISON

\* ActionPermit::new: the permit is mapped into the Ok, or into the Err with its flags.
Borrow(u) ==
  /\ holder = NoUser
  /\ holder' = u
  /\ pc' = IF borrow = NO_POISON THEN "ok" ELSE "error"
  /\ flags' = borrow
  /\ UNCHANGED <<failed, guard, panicking, causes>>

\* PoisonError::into_inner: the permit without the flags.
into_inner ==
  /\ pc = "error"
  /\ pc' = "ok"
  /\ flags' = NO_POISON
  /\ UNCHANGED <<failed, holder, guard, panicking, causes>>

\* The permit or the error is dropped.
Release ==
  /\ pc \in {"ok", "error"}
  /\ pc' = "free"
  /\ holder' = NoUser
  /\ flags' = NO_POISON
  /\ UNCHANGED <<failed, guard, panicking, causes>>

guard_assuming_no_poison ==
  /\ pc = "ok"
  /\ pc' = "body"
  /\ guard' = (holder \in panicking)
  /\ UNCHANGED <<failed, holder, flags, panicking, causes>>

DoneByAdd(panics, cancel_poison) ==    \* mutant: fetch_add for fetch_or
  LET panic == ~guard /\ (panics \/ holder \in panicking)
  IN  /\ pc = "body"
      /\ failed' = failed + (IF panic THEN PANIC_POISON ELSE 0)
                          + (IF cancel_poison THEN CANCEL_POISON ELSE 0)
      /\ causes' = causes \cup (IF panic THEN {"panic"} ELSE {})
                          \cup (IF cancel_poison THEN {"cancel"} ELSE {})
      /\ pc' = "free"
      /\ holder' = NoUser
      /\ guard' = FALSE
      /\ panicking' = IF panics THEN panicking \cup {holder} ELSE panicking
      /\ UNCHANGED flags

\* Flag::done when the action ends, by a panic of its own or not, and the mutex is
\* unlocked.
done(panics, cancel_poison) ==
  LET panic == ~guard /\ (panics \/ holder \in panicking)
      one   == IF panic THEN Or(failed, PANIC_POISON) ELSE failed
  IN  /\ pc = "body"
      /\ failed' = IF cancel_poison THEN Or(one, CANCEL_POISON) ELSE one
      /\ causes' = causes \cup (IF panic THEN {"panic"} ELSE {})
                          \cup (IF cancel_poison THEN {"cancel"} ELSE {})
      /\ pc' = "free"
      /\ holder' = NoUser
      /\ guard' = FALSE
      /\ panicking' = IF panics THEN panicking \cup {holder} ELSE panicking
      /\ UNCHANGED flags

\* A thread begins to unwind, or has caught its panic.
Panic(u) ==
  /\ panicking' \in {panicking \cup {u}, panicking \ {u}}
  /\ UNCHANGED <<failed, holder, pc, flags, guard, causes>>

-----------------------------------------------------------------------------

\* Flag::new.
Init ==
  /\ failed = NO_POISON
  /\ holder = NoUser
  /\ pc = "free"
  /\ flags = NO_POISON
  /\ guard = FALSE
  /\ panicking = {}
  /\ causes = {}

Next ==
  \/ \E u \in Users : Borrow(u) \/ Panic(u)
  \/ into_inner \/ Release \/ guard_assuming_no_poison
  \/ \E panics, cancel_poison \in BOOLEAN : done(panics, cancel_poison)

Spec == Init /\ [][Next]_vars

=============================================================================
