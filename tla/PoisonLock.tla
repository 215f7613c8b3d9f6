------------------------------ MODULE PoisonLock ------------------------------
(***************************************************************************)
(* What a RobustMutex promises, without its wait queue, its futures, its   *)
(* poisoners and the memory order of its flag: one holder at a time, clean *)
(* access exactly while nothing was poisoned, flags that stay, and no way  *)
(* to let go of damaged data without a flag being up.                      *)
(***************************************************************************)
CONSTANTS
  Users,   \* who may hold the lock
  NoUser,  \* nobody holds it
  Flags    \* the ways of being poisoned

VARIABLES
  holder,  \* the user that has access to the data, or NoUser
  access,  \* "clean" or "poisoned" as it was acquired, "none" without holder
  poison,  \* the flags that are up
  intact   \* the invariants of the data hold

vars == <<holder, access, poison, intact>>

Init ==
  /\ holder = NoUser
  /\ access = "none"
  /\ poison = {}
  /\ intact = TRUE

Acquire(u) ==
  /\ holder = NoUser
  /\ holder' = u
  /\ access' = IF poison = {} THEN "clean" ELSE "poisoned"
  /\ UNCHANGED <<poison, intact>>

\* The holder uses the data, and may put flags up.
Work ==
  /\ holder # NoUser
  /\ poison' \in {poison \cup f : f \in SUBSET Flags}
  /\ intact' \in BOOLEAN
  /\ UNCHANGED <<holder, access>>

Release ==
  /\ holder # NoUser
  /\ intact \/ poison # {}
  /\ holder' = NoUser
  /\ access' = "none"
  /\ UNCHANGED <<poison, intact>>

\* Exclusive access by ownership may repair the data; the flags stay up.
Repair ==
  /\ holder = NoUser
  /\ intact' = TRUE
  /\ UNCHANGED <<holder, access, poison>>

Next == (\E u \in Users : Acquire(u)) \/ Work \/ Release \/ Repair

Spec == Init /\ [][Next]_vars

=============================================================================
