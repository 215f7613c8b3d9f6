---------------------------- MODULE PoisonFlagProofs ----------------------------
(***************************************************************************)
(* Proofs about PoisonFlag, for any set of users.                          *)
(***************************************************************************)
EXTENDS PoisonFlagProps, TLAPS

\* The bytes that can be in the flag.
Bytes == NO_POISON .. PANIC_POISON + CANCEL_POISON

\* What their bits are, and what setting one does: all there are, case by case.
LEMMA Bits ==
  /\ Bytes = {0, 1, 2, 3}
  /\ \A a \in Bytes : /\ is_panic(a) <=> a \in {1, 3}
                      /\ is_cancel(a) <=> a \in {2, 3}
                      /\ Or(a, PANIC_POISON) = IF a \in {1, 3} THEN a ELSE a + 1
                      /\ Or(a, CANCEL_POISON) = IF a \in {2, 3} THEN a ELSE a + 2
<1>1. Bytes = {0, 1, 2, 3}
  BY DEF Bytes, NO_POISON, PANIC_POISON, CANCEL_POISON
<1>2. \A a \in {0, 1, 2, 3} : a \div 1 = a
  OBVIOUS
<1>3. 0 \div 2 = 0 /\ 1 \div 2 = 0 /\ 2 \div 2 = 1 /\ 3 \div 2 = 1
  OBVIOUS
<1>4. 0 % 2 = 0 /\ 1 % 2 = 1 /\ 2 % 2 = 0 /\ 3 % 2 = 1
  OBVIOUS
<1>5. \A a \in {0, 1, 2, 3} : /\ HasBit(a, 1) <=> a \in {1, 3}
                              /\ HasBit(a, 2) <=> a \in {2, 3}
  BY <1>2, <1>3, <1>4 DEF HasBit
<1> QED BY <1>1, <1>5 DEF is_panic, is_cancel, Or, PANIC_POISON, CANCEL_POISON

\* A permit and an action are somebody's.
HolderInv == pc # "free" => holder \in Users

LEMMA InitInv == Init => TypeOK /\ HolderInv /\ CausesTold
<1> SUFFICES ASSUME Init PROVE TypeOK /\ HolderInv /\ CausesTold
  OBVIOUS
<1>1. TypeOK
  <2>1. failed = 0 /\ flags = 0 /\ 0 \in NO_POISON .. PANIC_POISON + CANCEL_POISON
    BY DEF Init, NO_POISON, PANIC_POISON, CANCEL_POISON
  <2>2. {failed, flags} \subseteq NO_POISON .. PANIC_POISON + CANCEL_POISON
    BY <2>1
  <2> QED BY <2>2 DEF Init, TypeOK
<1>2. failed \in Bytes /\ ~is_panic(failed) /\ ~is_cancel(failed)
  <2>1. failed = 0
    BY DEF Init, NO_POISON
  <2>2. failed \in Bytes
    BY <2>1, Bits
  <2> QED BY <2>1, <2>2, Bits
<1>3. CausesTold
  BY <1>2 DEF Init, CausesTold, is_panic_poisoned, is_cancel_poisoned, is_poisoned
<1>4. HolderInv
  BY DEF Init, HolderInv
<1> QED BY <1>1, <1>3, <1>4

\* The end of an action sets the bits of what has happened to it.
LEMMA DoneStep ==
  ASSUME TypeOK, HolderInv, CausesTold, NEW panics \in BOOLEAN, NEW cancel_poison \in BOOLEAN,
         done(panics, cancel_poison)
  PROVE  TypeOK' /\ HolderInv' /\ CausesTold'
<1> DEFINE panic == ~guard /\ (panics \/ holder \in panicking)
           one   == IF panic THEN Or(failed, PANIC_POISON) ELSE failed
           both  == IF cancel_poison THEN Or(one, CANCEL_POISON) ELSE one
<1>1. /\ failed' = both
      /\ causes' = causes \cup (IF panic THEN {"panic"} ELSE {})
                          \cup (IF cancel_poison THEN {"cancel"} ELSE {})
      /\ pc' = "free" /\ holder' = NoUser
      /\ guard' = FALSE /\ flags' = flags
      /\ panicking' = IF panics THEN panicking \cup {holder} ELSE panicking
  BY DEF done
<1>2. failed \in Bytes /\ flags \in Bytes
  BY DEF TypeOK, Bytes
<1>3. /\ one \in Bytes
      /\ is_panic(one) <=> is_panic(failed) \/ panic
      /\ is_cancel(one) <=> is_cancel(failed)
  BY <1>2, Bits
<1>4. /\ both \in Bytes
      /\ is_panic(both) <=> is_panic(one)
      /\ is_cancel(both) <=> is_cancel(one) \/ cancel_poison
  <2> HIDE DEF one
  <2> QED BY <1>3, Bits
<1>5. failed' \in Bytes
      /\ (is_panic(failed') <=> is_panic(failed) \/ panic)
      /\ (is_cancel(failed') <=> is_cancel(failed) \/ cancel_poison)
  <2> HIDE DEF one, both
  <2> QED BY <1>1, <1>3, <1>4
<1>6. failed' # NO_POISON <=> is_panic(failed') \/ is_cancel(failed')
  BY <1>5, Bits DEF NO_POISON
<1>7. TypeOK'
  <2> HIDE DEF panic, one, both
  <2>1. {failed', flags'} \subseteq NO_POISON .. PANIC_POISON + CANCEL_POISON
    BY <1>1, <1>2, <1>5 DEF Bytes
  <2>2. guard' \in BOOLEAN /\ causes' \subseteq {"panic", "cancel"}
    BY <1>1, Zenon DEF TypeOK
  <2>3. panicking' \subseteq Users
    <3>1. holder \in Users
      BY DEF HolderInv, done
    <3> QED BY <1>1, <3>1 DEF TypeOK
  <2> QED BY <1>1, <2>1, <2>2, <2>3 DEF TypeOK
<1>8. /\ "panic" \in causes' <=> "panic" \in causes \/ panic
      /\ "cancel" \in causes' <=> "cancel" \in causes \/ cancel_poison
  <2> HIDE DEF panic, one, both
  <2> QED BY <1>1
<1>9. CausesTold'
  <2> HIDE DEF panic, one, both
  <2> QED BY <1>1, <1>5, <1>6, <1>8
          DEF CausesTold, is_panic_poisoned, is_cancel_poisoned, is_poisoned
<1>10. HolderInv'
  BY <1>1 DEF HolderInv
<1> QED BY <1>7, <1>9, <1>10

\* Whoever takes the mutex gets the byte, if there is a bit in it.
LEMMA BorrowStep ==
  ASSUME TypeOK, HolderInv, CausesTold, NEW u \in Users, Borrow(u)
  PROVE  TypeOK' /\ HolderInv' /\ CausesTold'
<1>1. failed \in Bytes
  BY DEF TypeOK, Bytes
<1>2. borrow = failed
  BY <1>1, Bits DEF borrow, NO_POISON
<1>3. /\ flags' = failed /\ holder' = u
      /\ pc' = IF failed = NO_POISON THEN "ok" ELSE "error"
      /\ UNCHANGED <<failed, guard, panicking, causes>>
  BY <1>2 DEF Borrow
<1>4. TypeOK'
  BY <1>3 DEF TypeOK
<1>5. is_panic_poisoned' = is_panic_poisoned /\ is_cancel_poisoned' = is_cancel_poisoned
      /\ is_poisoned' = is_poisoned
  BY <1>3 DEF is_panic_poisoned, is_cancel_poisoned, is_poisoned
<1>6. ASSUME pc' = "error"
      PROVE  /\ is_panic(failed) <=> "panic" \in causes
             /\ is_cancel(failed) <=> "cancel" \in causes
             /\ DebugFlags(failed) = causes /\ causes # {}
  <2>1. failed # NO_POISON
    BY <1>3, <1>6
  <2>2. /\ is_panic(failed) <=> "panic" \in causes
        /\ is_cancel(failed) <=> "cancel" \in causes
        /\ causes \subseteq {"panic", "cancel"}
    BY DEF CausesTold, is_panic_poisoned, is_cancel_poisoned, TypeOK
  <2>3. is_panic(failed) \/ is_cancel(failed)
    BY <1>1, <2>1, Bits DEF NO_POISON
  <2> QED BY <2>1, <2>2, <2>3 DEF DebugFlags
<1>7. CausesTold'
  BY <1>3, <1>5, <1>6 DEF CausesTold
<1>8. HolderInv'
  BY <1>3 DEF HolderInv
<1> QED BY <1>4, <1>7, <1>8

LEMMA Step ==
  TypeOK /\ HolderInv /\ CausesTold /\ [Next]_vars => TypeOK' /\ HolderInv' /\ CausesTold'
<1> SUFFICES ASSUME TypeOK, HolderInv, CausesTold, [Next]_vars
             PROVE  TypeOK' /\ HolderInv' /\ CausesTold'
  OBVIOUS
<1>1. ASSUME UNCHANGED <<failed, causes>>, pc' = "error" => pc = "error" /\ flags' = flags
      PROVE  CausesTold'
  BY <1>1 DEF CausesTold, is_panic_poisoned, is_cancel_poisoned, is_poisoned
<1>2. ASSUME NEW u \in Users, Panic(u)  PROVE TypeOK' /\ HolderInv' /\ CausesTold'
  BY <1>1, <1>2 DEF Panic, TypeOK, HolderInv
<1>3. CASE into_inner \/ Release
  <2>1. /\ flags' = 0 /\ pc' \in {"ok", "free"} /\ holder' \in {holder, NoUser}
        /\ UNCHANGED <<failed, guard, panicking, causes>>
    BY <1>3 DEF into_inner, Release, NO_POISON
  <2>2. {failed', flags'} \subseteq NO_POISON .. PANIC_POISON + CANCEL_POISON
    BY <2>1 DEF TypeOK, NO_POISON, PANIC_POISON, CANCEL_POISON
  <2>3. TypeOK'
    <3>1. pc' \in {"free", "ok", "error", "body"} /\ holder' \in Users \cup {NoUser}
      BY <2>1 DEF TypeOK
    <3> QED BY <2>1, <2>2, <3>1 DEF TypeOK
  <2>4. HolderInv'
    BY <1>3 DEF into_inner, Release, HolderInv
  <2> QED BY <1>1, <2>1, <2>3, <2>4
<1>4. CASE guard_assuming_no_poison
  <2>1. /\ pc' = "body" /\ pc = "ok" /\ guard' \in BOOLEAN
        /\ UNCHANGED <<failed, holder, flags, panicking, causes>>
    BY <1>4 DEF guard_assuming_no_poison
  <2> QED BY <1>1, <2>1 DEF TypeOK, HolderInv
<1>5. CASE UNCHANGED vars
  BY <1>1, <1>5 DEF vars, TypeOK, HolderInv
<1> QED BY <1>2, <1>3, <1>4, <1>5, BorrowStep, DoneStep DEF Next

\* The byte never has a bit that no flag has, and neither has a PoisonError's.
THEOREM TypeCorrect == Spec => []TypeOK
<1>1. Init => TypeOK /\ HolderInv /\ CausesTold
  BY InitInv
<1>2. TypeOK /\ HolderInv /\ CausesTold /\ [Next]_vars => TypeOK' /\ HolderInv' /\ CausesTold'
  BY Step
<1> QED BY <1>1, <1>2, PTL DEF Spec

\* However often the flag is set, its byte, and the errors made of it, tell what
\* has happened.
THEOREM CausesToldCorrect == Spec => []CausesTold
<1>1. Init => TypeOK /\ HolderInv /\ CausesTold
  BY InitInv
<1>2. TypeOK /\ HolderInv /\ CausesTold /\ [Next]_vars => TypeOK' /\ HolderInv' /\ CausesTold'
  BY Step
<1> QED BY <1>1, <1>2, PTL DEF Spec

=============================================================================
