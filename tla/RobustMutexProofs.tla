-------------------------- MODULE RobustMutexProofs --------------------------
(***************************************************************************)
(* Proofs about RobustMutex, for any set of users and, but for             *)
(* OnePanicAtATime, any depth of nested panics.                            *)
(***************************************************************************)
EXTENDS RobustMutexProps, TLAPS, SequenceTheorems

-----------------------------------------------------------------------------
(***************************************************************************)
(* The inductive invariant is TypeOK with the four below; each part needs  *)
(* only the ones before it.                                                *)
(***************************************************************************)

\* Who holds the mutex, and that nobody waits for it twice.
LockInv == LockAccounted /\ IsInjective(queue)

\* What users know of the flags.
FlagInv ==
  /\ failed \in written
  /\ \A flags \in written : flags \subseteq failed
  /\ published \subseteq failed
  /\ \A u \in Users : known[u] \subseteq failed
  /\ HolderSeesFlags
  /\ (\A u \in Users : ~Acquired(u)) => published = failed

\* Panics and the flag for them.  A poisoner made while its thread unwinds
\* belongs to a closure that cannot end before the unwinding does.
PanicInv ==
  /\ \A u \in Users : pc[u] = "sync" /\ guardPanicking[u] => Panicking(u)
  /\ \A u \in Users : InBody(u) /\ ~guardPanicking[u] /\ Panicking(u) => unwound
  /\ PanicFlagMeansPanic

\* The data and the flags.
DataInv ==
  /\ \A u \in Users : Acquired(u) /\ ~clean[u] => failed # NO_POISON
  /\ \A u \in Users : pc[u] = "error" => ~clean[u]
  /\ \A u \in Users : clean[u] /\ pc[u] \in {"permit", "pending", "fmt"} => failed = NO_POISON
  /\ ~intact => failed # NO_POISON \/ \E u \in Users : InBody(u)
  /\ inner # "shared" => \A u \in Users : pc[u] = "idle"
  /\ inner = "ok" => intact

\* A new mutex: nobody holds it, and no flag is up.
LEMMA InitInv == Init => TypeOK /\ LockInv /\ FlagInv /\ PanicInv /\ DataInv
<1> SUFFICES ASSUME Init PROVE TypeOK /\ LockInv /\ FlagInv /\ PanicInv /\ DataInv
  OBVIOUS
<1>1. queue \in Seq(Users) /\ panics \in [Users -> 0 .. MaxPanics]
  BY EmptySeq, MaxPanicsAssumption DEF Init
<1>2. TypeOK
  BY <1>1 DEF Init, TypeOK, NO_POISON, PCs
<1>3. IsInjective(queue) /\ ToSet(queue) = {}
  BY DEF Init, IsInjective, ToSet
<1>4. \A u \in Users : pc[u] = "idle" /\ ~Acquired(u) /\ ~InQueue(u) /\ ~InBody(u)
  BY DEF Init, Acquired, InQueue, InBody
<1>5. LockInv
  BY <1>3, <1>4 DEF Init, LockInv, LockAccounted
<1>6. FlagInv
  BY <1>4 DEF Init, FlagInv, HolderSeesFlags
<1>7. PanicInv
  BY <1>4 DEF Init, PanicInv, PanicFlagMeansPanic, NO_POISON
<1>8. DataInv
  BY <1>4 DEF Init, DataInv
<1> QED BY <1>2, <1>5, <1>6, <1>7, <1>8

-----------------------------------------------------------------------------
(***************************************************************************)
(* The wait queue: a sequence without repetitions.                         *)
(***************************************************************************)

\* Removing the head of a queue without repetitions removes that user only.
LEMMA TailOfQueue ==
  ASSUME NEW S, NEW s \in Seq(S), s # <<>>, IsInjective(s)
  PROVE  /\ Head(s) \in S /\ Head(s) \in ToSet(s)
         /\ Tail(s) \in Seq(S)
         /\ IsInjective(Tail(s))
         /\ ToSet(Tail(s)) = ToSet(s) \ {Head(s)}
<1>1. /\ Head(s) \in S
      /\ Tail(s) \in Seq(S)
      /\ Len(Tail(s)) = Len(s) - 1
      /\ \A i \in 1 .. Len(Tail(s)) : Tail(s)[i] = s[i + 1]
  BY HeadTailProperties
<1>2. Len(s) \in Nat \ {0} /\ DOMAIN s = 1 .. Len(s)
  BY EmptySeq, LenProperties
<1>3. DOMAIN Tail(s) = 1 .. Len(s) - 1
  BY <1>1, LenProperties
<1>4. Head(s) = s[1]
  BY <1>2
<1>5. IsInjective(Tail(s))
  BY <1>1, <1>2, <1>3 DEF IsInjective
<1>6. ToSet(Tail(s)) \subseteq ToSet(s) \ {Head(s)}
  BY <1>1, <1>2, <1>3, <1>4 DEF IsInjective, ToSet
<1>7. ASSUME NEW x \in ToSet(s) \ {Head(s)}  PROVE x \in ToSet(Tail(s))
  <2>1. PICK i \in 1 .. Len(s) : s[i] = x
    BY <1>2 DEF ToSet
  <2>2. i - 1 \in DOMAIN Tail(s) /\ Tail(s)[i - 1] = x
    BY <2>1, <1>1, <1>2, <1>3, <1>4
  <2> QED BY <2>2 DEF ToSet
<1>8. Head(s) \in ToSet(s)
  BY <1>2, <1>4 DEF ToSet
<1> QED BY <1>1, <1>5, <1>6, <1>7, <1>8

\* Appending a user that is not in the queue.
LEMMA AppendToQueue ==
  ASSUME NEW S, NEW s \in Seq(S), IsInjective(s), NEW x \in S, x \notin ToSet(s)
  PROVE  /\ Append(s, x) \in Seq(S)
         /\ IsInjective(Append(s, x))
         /\ ToSet(Append(s, x)) = ToSet(s) \cup {x}
<1>1. /\ Append(s, x) \in Seq(S)
      /\ Len(Append(s, x)) = Len(s) + 1
      /\ \A i \in 1 .. Len(s) : Append(s, x)[i] = s[i]
      /\ Append(s, x)[Len(s) + 1] = x
  BY AppendProperties
<1>2. Len(s) \in Nat /\ DOMAIN s = 1 .. Len(s) /\ DOMAIN Append(s, x) = 1 .. Len(s) + 1
  BY <1>1, LenProperties
<1>3. IsInjective(Append(s, x))
  BY <1>1, <1>2 DEF IsInjective, ToSet
<1>4. ToSet(Append(s, x)) \subseteq ToSet(s) \cup {x}
  BY <1>1, <1>2 DEF ToSet
<1>5. ToSet(s) \cup {x} \subseteq ToSet(Append(s, x))
  BY <1>1, <1>2 DEF ToSet
<1> QED BY <1>1, <1>3, <1>4, <1>5

\* Removing the user at position i removes that user only.
LEMMA RemoveFromQueue ==
  ASSUME NEW S, NEW s \in Seq(S), IsInjective(s), NEW i \in DOMAIN s
  PROVE  /\ RemoveAt(s, i) \in Seq(S)
         /\ IsInjective(RemoveAt(s, i))
         /\ ToSet(RemoveAt(s, i)) = ToSet(s) \ {s[i]}
<1> DEFINE front == SubSeq(s, 1, i - 1)
           back  == SubSeq(s, i + 1, Len(s))
           rest  == front \o back
<1>1. Len(s) \in Nat /\ DOMAIN s = 1 .. Len(s) /\ i \in 1 .. Len(s)
      /\ \A j \in 1 .. Len(s) : s[j] \in S
  BY LenProperties, ElementOfSeq
<1>2. /\ front \in Seq(S) /\ Len(front) = i - 1
      /\ \A j \in 1 .. i - 1 : front[j] = s[j]
  <2>1. \A j \in 1 .. i - 1 : s[j] \in S
    BY <1>1
  <2>2. /\ SubSeq(s, 1, i - 1) \in Seq(S)
        /\ Len(SubSeq(s, 1, i - 1)) = IF 1 <= i - 1 THEN i - 1 - 1 + 1 ELSE 0
        /\ \A j \in 1 .. i - 1 - 1 + 1 : SubSeq(s, 1, i - 1)[j] = s[1 + j - 1]
    BY <2>1, <1>1, SubSeqProperties
  <2> QED BY <2>2, <1>1
<1>3. /\ back \in Seq(S) /\ Len(back) = Len(s) - i
      /\ \A j \in 1 .. Len(s) - i : back[j] = s[i + j]
  <2>1. \A j \in i + 1 .. Len(s) : s[j] \in S
    BY <1>1
  <2>2. /\ SubSeq(s, i + 1, Len(s)) \in Seq(S)
        /\ Len(SubSeq(s, i + 1, Len(s))) =
             IF i + 1 <= Len(s) THEN Len(s) - (i + 1) + 1 ELSE 0
        /\ \A j \in 1 .. Len(s) - (i + 1) + 1 :
             SubSeq(s, i + 1, Len(s))[j] = s[i + 1 + j - 1]
    BY <2>1, <1>1, SubSeqProperties
  <2> QED BY <2>2, <1>1
<1>4. /\ rest \in Seq(S) /\ Len(rest) = Len(s) - 1
      /\ \A j \in 1 .. Len(s) - 1 : rest[j] = IF j < i THEN s[j] ELSE s[j + 1]
  <2> HIDE DEF front, back
  <2>1. /\ rest \in Seq(S) /\ Len(rest) = Len(front) + Len(back)
        /\ \A j \in 1 .. Len(front) + Len(back) :
             rest[j] = IF j <= Len(front) THEN front[j] ELSE back[j - Len(front)]
    BY <1>2, <1>3, ConcatProperties
  <2> HIDE DEF rest
  <2>2. Len(rest) = Len(s) - 1
    BY <2>1, <1>1, <1>2, <1>3
  <2>3. ASSUME NEW j \in 1 .. Len(s) - 1
        PROVE  rest[j] = IF j < i THEN s[j] ELSE s[j + 1]
    <3>1. rest[j] = IF j <= i - 1 THEN front[j] ELSE back[j - (i - 1)]
      BY <2>1, <1>1, <1>2, <1>3
    <3>2. CASE j < i
      BY <3>1, <3>2, <1>1, <1>2
    <3>3. CASE j >= i
      <4>1. j - (i - 1) \in 1 .. Len(s) - i /\ i + (j - (i - 1)) = j + 1
        BY <3>3, <1>1
      <4> QED BY <4>1, <3>1, <3>3, <1>1, <1>3
    <3> QED BY <3>2, <3>3, <1>1
  <2> QED BY <2>1, <2>2, <2>3
<1> HIDE DEF rest
<1>5. DOMAIN rest = 1 .. Len(s) - 1
  BY <1>4, LenProperties
<1>6. IsInjective(rest)
  BY <1>1, <1>4, <1>5 DEF IsInjective
<1>7. ToSet(rest) \subseteq ToSet(s) \ {s[i]}
  BY <1>1, <1>4, <1>5 DEF IsInjective, ToSet
<1>8. ASSUME NEW x \in ToSet(s) \ {s[i]}  PROVE x \in ToSet(rest)
  <2>1. PICK j \in 1 .. Len(s) : s[j] = x
    BY <1>1 DEF ToSet
  <2>2. CASE j < i
    <3>1. j \in DOMAIN rest /\ rest[j] = x
      BY <2>1, <2>2, <1>1, <1>4, <1>5
    <3> QED BY <3>1 DEF ToSet
  <2>3. CASE j > i
    <3>1. j - 1 \in DOMAIN rest /\ rest[j - 1] = x
      BY <2>1, <2>3, <1>1, <1>4, <1>5
    <3> QED BY <3>1 DEF ToSet
  <2> QED BY <2>1, <2>2, <2>3, <1>1
<1>9. RemoveAt(s, i) = rest
  BY DEF RemoveAt, rest
<1> QED BY <1>4, <1>6, <1>7, <1>8, <1>9

-----------------------------------------------------------------------------
(***************************************************************************)
(* Type correctness.                                                       *)
(***************************************************************************)

\* Passing the mutex on keeps owner and queue what they are.
LEMMA PassOnType ==
  ASSUME TypeOK, PassOn
  PROVE  owner' \in Users \cup {NoUser} /\ queue' \in Seq(Users)
<1>1. CASE queue = <<>>
  BY <1>1 DEF TypeOK, PassOn
<1>2. CASE queue # <<>>
  <2>1. Head(queue) \in Users /\ Tail(queue) \in Seq(Users)
    BY <1>2, HeadTailProperties DEF TypeOK
  <2> QED BY <1>2, <2>1 DEF PassOn
<1> QED BY <1>1, <1>2

\* A load of the flags returns a set of flags.
LEMMA BorrowType ==
  ASSUME TypeOK, NEW u \in Users, NEW ok \in PCs, NEW err \in PCs,
         Borrow(u, ok, err), owner' \in Users \cup {NoUser}, queue' \in Seq(Users)
  PROVE  TypeOK'
<1>1. PICK flags \in Loadable(known[u] \cup published) :
         /\ known' = [known EXCEPT ![u] = flags]
         /\ clean' = [clean EXCEPT ![u] = (flags = NO_POISON)]
         /\ pc' = [pc EXCEPT ![u] = IF flags = NO_POISON THEN ok ELSE err]
  BY DEF Borrow
<1>2. flags \in SUBSET Flags
  BY DEF TypeOK, Loadable
<1>3. known' \in [Users -> SUBSET Flags] /\ pc' \in [Users -> PCs]
  BY <1>1, <1>2 DEF TypeOK
<1>4. clean' \in [Users -> BOOLEAN]
  BY <1>1 DEF TypeOK
<1>5. UNCHANGED <<published, failed, written, guardPanicking, panics, intact, inner, unwound>>
  BY DEF Borrow
<1> QED BY <1>3, <1>4, <1>5 DEF TypeOK

\* The end of an action keeps the types; it only adds flags that exist.
LEMMA DropPoisonerType ==
  ASSUME TypeOK, NEW u \in Users, NEW panicking, NEW cancel,
         DropPoisoner(u, panicking, cancel),
         panics' \in [Users -> 0 .. MaxPanics], intact' \in BOOLEAN, unwound' \in BOOLEAN
  PROVE  TypeOK'
<1>1. NewFlags(guardPanicking[u], panicking, cancel) \in SUBSET Flags
  BY DEF NewFlags, Flags
<1>2. /\ failed' \in SUBSET Flags
      /\ written' \in SUBSET (SUBSET Flags)
      /\ known' \in [Users -> SUBSET Flags]
      /\ published' \in SUBSET Flags
  BY <1>1 DEF TypeOK, DropPoisoner, Done
<1>3. pc' \in [Users -> PCs] /\ guardPanicking' \in [Users -> BOOLEAN]
  BY DEF TypeOK, DropPoisoner, PCs
<1>4. UNCHANGED <<owner, queue, clean, inner>>
  BY DEF DropPoisoner, tokioVars
<1> QED BY <1>2, <1>3, <1>4 DEF TypeOK

\* Every step keeps the types.
LEMMA TypeStep ==
  ASSUME TypeOK, [Next]_vars
  PROVE  TypeOK'
<1> USE DEF PCs
<1>1. ASSUME NEW u \in Users, Finish(u)  PROVE TypeOK'
  <2>1. CASE Resume(u)
    BY <2>1, BorrowType DEF Resume, TypeOK, tokioVars
  <2>2. CASE ErrorIntoInner(u)
    BY <2>2 DEF ErrorIntoInner, TypeOK, tokioVars, flagVars
  <2>3. CASE DropUnused(u)
    BY <2>3 DEF DropUnused, TypeOK, tokioVars, flagVars
  <2>4. CASE PerformAsync(u)
    BY <2>4 DEF PerformAsync, TypeOK, tokioVars, flagVars
  <2>5. CASE Perform(u) \/ FirstPoll(u)
    <3>1. Panicking(u) \in BOOLEAN
      BY DEF Panicking
    <3> QED BY <2>5, <3>1 DEF Perform, FirstPoll, StartBody, TypeOK, tokioVars, flagVars
  <2>6. CASE BodyReturns(u)
    BY <2>6, DropPoisonerType DEF BodyReturns, TypeOK
  <2>7. CASE BodyPanics(u)
    <3>1. panics' \in [Users -> 0 .. MaxPanics]
      BY <2>7, MaxPanicsAssumption DEF BodyPanics, TypeOK
    <3> QED BY <2>7, <3>1, DropPoisonerType DEF BodyPanics, TypeOK
  <2>8. CASE FutureDropped(u)
    BY <2>8, DropPoisonerType DEF FutureDropped, TypeOK
  <2>9. CASE Unlock(u)
    BY <2>9, PassOnType DEF Unlock, TypeOK
  <2> QED BY <1>1, <2>1, <2>2, <2>3, <2>4, <2>5, <2>6, <2>7, <2>8, <2>9 DEF Finish
<1>2. ASSUME NEW u \in Users, TryLock(u) \/ DebugFmt(u)  PROVE TypeOK'
  BY <1>2, BorrowType DEF TryLock, DebugFmt, TakeFree, TypeOK
<1>3. ASSUME NEW u \in Users, LockWait(u) \/ BlockingWait(u)  PROVE TypeOK'
  <2>1. PICK how \in {"waiting", "blocked"} : Enqueue(u, how)
    BY <1>3 DEF LockWait, BlockingWait
  <2>2. queue' \in Seq(Users)
    BY <2>1, AppendProperties DEF Enqueue, TypeOK
  <2> QED BY <2>1, <2>2 DEF Enqueue, TypeOK, flagVars
<1>4. ASSUME NEW u \in Users, CancelLock(u)  PROVE TypeOK'
  <2>1. CASE owner = u
    BY <1>4, <2>1, PassOnType DEF CancelLock, TypeOK, flagVars
  <2>2. CASE owner # u
    <3>1. PICK i \in DOMAIN queue : queue' = RemoveAt(queue, i)
      BY <1>4, <2>2 DEF CancelLock
    <3>2. /\ SubSeq(queue, 1, i - 1) \in Seq(Users)
          /\ SubSeq(queue, i + 1, Len(queue)) \in Seq(Users)
      <4>1. Len(queue) \in Nat /\ i \in 1 .. Len(queue)
            /\ \A j \in 1 .. Len(queue) : queue[j] \in Users
        BY LenProperties, ElementOfSeq DEF TypeOK
      <4>2. \A j \in 1 .. i - 1 : queue[j] \in Users
        BY <4>1
      <4>3. \A j \in i + 1 .. Len(queue) : queue[j] \in Users
        BY <4>1
      <4>4. i - 1 \in Int /\ i + 1 \in Int /\ 1 \in Int /\ Len(queue) \in Int
        BY <4>1
      <4>5. SubSeq(queue, 1, i - 1) \in Seq(Users)
        BY <4>2, <4>4, SubSeqProperties
      <4>6. SubSeq(queue, i + 1, Len(queue)) \in Seq(Users)
        BY <4>3, <4>4, SubSeqProperties
      <4> QED BY <4>5, <4>6
    <3>3. queue' \in Seq(Users)
      BY <3>1, <3>2, ConcatProperties DEF RemoveAt
    <3> QED BY <1>4, <2>2, <3>3 DEF CancelLock, TypeOK, flagVars
  <2> QED BY <2>1, <2>2
<1>5. ASSUME NEW u \in Users, Mutate(u)  PROVE TypeOK'
  BY <1>5 DEF Mutate, TypeOK, tokioVars, flagVars, userVars
<1>6. ASSUME NEW u \in Users, UserPanics(u)  PROVE TypeOK'
  BY <1>6, MaxPanicsAssumption DEF UserPanics, TypeOK, Acquired, tokioVars, flagVars
<1>7. ASSUME NEW u \in Users, CatchUnwind(u)  PROVE TypeOK'
  BY <1>7, MaxPanicsAssumption DEF CatchUnwind, Panicking, TypeOK, tokioVars, flagVars
<1>8. ASSUME NEW u \in Users, IsPoisoned(u)  PROVE TypeOK'
  BY <1>8 DEF IsPoisoned, Loadable, TypeOK, tokioVars, userVars
<1>9. CASE GetMut \/ IntoInner
  BY <1>9 DEF GetMut, IntoInner, TypeOK, tokioVars, flagVars, userVars
<1>10. CASE UNCHANGED vars
  BY <1>10 DEF vars, tokioVars, flagVars, userVars, TypeOK
<1> QED BY <1>1, <1>2, <1>3, <1>4, <1>5, <1>6, <1>7, <1>8, <1>9, <1>10 DEF Next, UserNext

\* Every variable keeps its type.
THEOREM TypeCorrect == Spec => []TypeOK
BY InitInv, TypeStep, PTL DEF Spec

-----------------------------------------------------------------------------
(***************************************************************************)
(* Who holds the tokio mutex.  LockAccounted is inductive once the queue   *)
(* is known to hold no user twice.                                         *)
(***************************************************************************)

\* A user that the mutex is assigned to is the only one that can hold it.
LEMMA OneHolder ==
  ASSUME LockInv, NEW u \in Users, owner = u \/ owner = NoUser
  PROVE  \A v \in Users : v # u => ~Acquired(v)
BY NoUserAssumption DEF LockInv, LockAccounted

\* When it is passed on, the next in the queue gets it.
LEMMA PassOnInv ==
  ASSUME TypeOK, LockInv, NEW u \in Users, owner = u, PassOn,
         pc' = [pc EXCEPT ![u] = "idle"]
  PROVE  LockInv'
<1>1. u \notin ToSet(queue) /\ \A v \in Users : v # u => ~Acquired(v)
  BY OneHolder DEF LockInv, LockAccounted
<1>2. pc \in [Users -> PCs] /\ ~Acquired(u)' /\ ~InQueue(u)'
  BY DEF TypeOK, Acquired, InQueue
<1>3. \A v \in Users : v # u => (InQueue(v)' <=> InQueue(v)) /\ ~Acquired(v)'
  BY <1>1, <1>2 DEF Acquired, InQueue
<1>4. CASE queue = <<>>
  <2>1. owner' = NoUser /\ queue' = queue
    BY <1>4 DEF PassOn
  <2>2. ToSet(queue)' = {}
    BY <1>4, <2>1 DEF ToSet
  <2>3. ~ \E v \in Users : InQueue(v)'
    <3>1. ToSet(queue) = {}
      BY <1>4 DEF ToSet
    <3> QED BY <3>1, <1>2, <1>3 DEF LockInv, LockAccounted
  <2> QED BY <2>1, <2>2, <2>3, <1>2, <1>3, <1>4 DEF LockInv, LockAccounted
<1>5. CASE queue # <<>>
  <2>0. Head(queue) \in Users
    BY <1>5, HeadTailProperties DEF TypeOK
  <2> PICK w \in Users : w = Head(queue)
    BY <2>0
  <2>1. owner' = w /\ queue' = Tail(queue)
    BY <1>5 DEF PassOn
  <2>2. /\ w \in Users /\ w \in ToSet(queue)
        /\ IsInjective(queue')
        /\ ToSet(queue') = ToSet(queue) \ {w}
    BY <1>5, <2>1, TailOfQueue DEF TypeOK, LockInv
  <2>3. w # u /\ InQueue(w)'
    BY <1>1, <1>3, <2>2 DEF LockInv, LockAccounted
  <2>4. pc'[w] # "idle" /\ w # NoUser
    BY <2>2, <2>3, NoUserAssumption DEF InQueue
  <2>5. ToSet(queue)' = {v \in Users : InQueue(v)' /\ owner' # v}
    BY <1>1, <1>2, <1>3, <2>1, <2>2 DEF LockInv, LockAccounted
  <2> QED BY <2>1, <2>2, <2>4, <2>5, <1>2, <1>3 DEF LockInv, LockAccounted
<1> QED BY <1>4, <1>5

\* The user it is assigned to resumes, or does something with what it got.
LEMMA HolderMoves ==
  ASSUME TypeOK, LockInv, NEW u \in Users, owner = u \/ (owner = NoUser /\ pc[u] = "idle"),
         NEW p \in PCs \ {"idle", "waiting", "blocked"},
         pc' = [pc EXCEPT ![u] = p], owner' = u, queue' = queue
  PROVE  LockInv'
<1>1. \A v \in Users : v # u => ~Acquired(v) /\ pc'[v] = pc[v]
  BY OneHolder DEF TypeOK
<1>2. pc'[u] = p /\ Acquired(u)' /\ ~InQueue(u)' /\ u # NoUser
  BY NoUserAssumption DEF TypeOK, Acquired, InQueue
<1>3. \A v \in Users : v # u => (InQueue(v)' <=> InQueue(v)) /\ ~Acquired(v)'
  BY <1>1 DEF Acquired, InQueue
<1>4. CASE owner = u
  BY <1>2, <1>3, <1>4 DEF LockInv, LockAccounted, InQueue, ToSet
<1>5. CASE owner = NoUser /\ pc[u] = "idle"
  <2>1. ~InQueue(u) /\ u \notin ToSet(queue)
    BY <1>5 DEF InQueue, LockInv, LockAccounted
  <2>2. ToSet(queue)' = {v \in Users : InQueue(v)' /\ owner' # v}
    <3>1. ToSet(queue)' = ToSet(queue)
      BY DEF ToSet
    <3>2. \A v \in Users : owner # v
      BY <1>5, NoUserAssumption
    <3> QED BY <3>1, <3>2, <2>1, <1>2, <1>3 DEF LockInv, LockAccounted
  <2> QED BY <2>2, <1>2, <1>3 DEF LockInv, LockAccounted
<1> QED BY <1>4, <1>5

\* Every step keeps LockInv.
LEMMA LockStep ==
  ASSUME TypeOK, LockInv, [Next]_vars
  PROVE  LockInv'
<1>1. ASSUME NEW u \in Users, Finish(u)  PROVE LockInv'
  <2>1. CASE Resume(u)
    <3>1. PICK p \in {"permit", "error"} : pc' = [pc EXCEPT ![u] = p]
      BY <2>1 DEF Resume, Borrow
    <3> QED BY <2>1, <3>1, HolderMoves DEF Resume, tokioVars, PCs
  <2>2. CASE ErrorIntoInner(u) \/ DropUnused(u) \/ PerformAsync(u) \/ Perform(u)
             \/ FirstPoll(u) \/ BodyReturns(u) \/ BodyPanics(u) \/ FutureDropped(u)
    <3>1. Acquired(u) /\ UNCHANGED tokioVars
      BY <2>2 DEF ErrorIntoInner, DropUnused, PerformAsync, Perform, FirstPoll, StartBody,
                  BodyReturns, BodyPanics, FutureDropped, DropPoisoner, InBody, Acquired
    <3>2. owner = u
      BY <3>1 DEF LockInv, LockAccounted
    <3>3. PICK p \in {"permit", "unlock", "pending", "sync", "async"} :
             pc' = [pc EXCEPT ![u] = p]
      BY <2>2 DEF ErrorIntoInner, DropUnused, PerformAsync, Perform, FirstPoll, StartBody,
                  BodyReturns, BodyPanics, FutureDropped, DropPoisoner
    <3> QED BY <3>1, <3>2, <3>3, HolderMoves DEF tokioVars, PCs
  <2>3. CASE Unlock(u)
    <3>1. owner = u
      BY <2>3 DEF Unlock, LockInv, LockAccounted, Acquired
    <3> QED BY <2>3, <3>1, PassOnInv DEF Unlock
  <2> QED BY <1>1, <2>1, <2>2, <2>3 DEF Finish
<1>2. ASSUME NEW u \in Users, TryLock(u) \/ DebugFmt(u)  PROVE LockInv'
  <2>1. TakeFree(u)
    BY <1>2 DEF TryLock, DebugFmt
  <2>2. PICK p \in {"permit", "error", "fmt"} : pc' = [pc EXCEPT ![u] = p]
    BY <1>2 DEF TryLock, DebugFmt, Borrow
  <2> QED BY <2>1, <2>2, HolderMoves DEF TakeFree, PCs
<1>3. ASSUME NEW u \in Users, LockWait(u) \/ BlockingWait(u)  PROVE LockInv'
  <2>1. PICK how \in {"waiting", "blocked"} : Enqueue(u, how)
    BY <1>3 DEF LockWait, BlockingWait
  <2>2. pc[u] = "idle" /\ owner # NoUser /\ queue' = Append(queue, u) /\ owner' = owner
        /\ pc' = [pc EXCEPT ![u] = how]
    BY <2>1 DEF Enqueue
  <2>3. owner # u /\ u \notin ToSet(queue)
    BY <2>2 DEF LockInv, LockAccounted, InQueue
  <2>4. IsInjective(queue') /\ ToSet(queue') = ToSet(queue) \cup {u}
    BY <2>2, <2>3, AppendToQueue DEF TypeOK, LockInv
  <2>5. ~Acquired(u)' /\ InQueue(u)' /\ owner' # u
        /\ \A v \in Users : v # u => pc'[v] = pc[v]
    BY <2>2, <2>3 DEF TypeOK, Acquired, InQueue
  <2>6. \A v \in Users : v # u => (InQueue(v)' <=> InQueue(v)) /\ (Acquired(v)' <=> Acquired(v))
    BY <2>5 DEF Acquired, InQueue
  <2>7. owner \in Users
    BY <2>2 DEF TypeOK
  <2>8. ToSet(queue)' = {v \in Users : InQueue(v)' /\ owner' # v}
    BY <2>2, <2>4, <2>5, <2>6 DEF LockInv, LockAccounted
  <2> QED BY <2>2, <2>3, <2>4, <2>5, <2>6, <2>7, <2>8 DEF LockInv, LockAccounted
<1>4. ASSUME NEW u \in Users, CancelLock(u)  PROVE LockInv'
  <2>1. CASE owner = u
    BY <1>4, <2>1, PassOnInv DEF CancelLock
  <2>2. CASE owner # u
    <3>1. PICK i \in DOMAIN queue : queue[i] = u /\ queue' = RemoveAt(queue, i)
      BY <1>4, <2>2 DEF CancelLock
    <3>2. pc[u] = "waiting" /\ pc' = [pc EXCEPT ![u] = "idle"] /\ owner' = owner
      BY <1>4, <2>2 DEF CancelLock
    <3>3. IsInjective(queue') /\ ToSet(queue') = ToSet(queue) \ {u}
      BY <3>1, RemoveFromQueue DEF TypeOK, LockInv
    <3>4. ~Acquired(u)' /\ ~InQueue(u)' /\ \A v \in Users : v # u => pc'[v] = pc[v]
      BY <3>2 DEF TypeOK, Acquired, InQueue
    <3>5. \A v \in Users : v # u => (InQueue(v)' <=> InQueue(v)) /\ (Acquired(v)' <=> Acquired(v))
      BY <3>4 DEF Acquired, InQueue
    <3>6. owner # NoUser
      BY <3>1 DEF LockInv, LockAccounted
    <3>7. ToSet(queue)' = {v \in Users : InQueue(v)' /\ owner' # v}
      BY <3>2, <3>3, <3>4, <3>5 DEF LockInv, LockAccounted
    <3>8. owner' \in Users /\ pc'[owner'] # "idle"
      BY <3>2, <3>4, <3>6, <2>2 DEF LockInv, LockAccounted, TypeOK
    <3> QED BY <3>2, <3>3, <3>4, <3>5, <3>6, <3>7, <3>8 DEF LockInv, LockAccounted
  <2> QED BY <2>1, <2>2
<1>5. CASE UNCHANGED <<owner, queue, pc>>
  BY <1>5 DEF LockInv, LockAccounted, Acquired, InQueue, ToSet
<1>6. ASSUME NEW u \in Users, Mutate(u) \/ UserPanics(u) \/ CatchUnwind(u) \/ IsPoisoned(u)
      PROVE  UNCHANGED <<owner, queue, pc>>
  BY <1>6 DEF Mutate, UserPanics, CatchUnwind, IsPoisoned, tokioVars, userVars
<1>7. ASSUME GetMut \/ IntoInner  PROVE UNCHANGED <<owner, queue, pc>>
  BY <1>7 DEF GetMut, IntoInner, tokioVars, userVars
<1>8. ASSUME UNCHANGED vars  PROVE UNCHANGED <<owner, queue, pc>>
  BY <1>8 DEF vars, tokioVars, userVars
<1> QED BY <1>1, <1>2, <1>3, <1>4, <1>5, <1>6, <1>7, <1>8 DEF Next, UserNext

\* The mutex is never lost, held twice or passed to somebody who is gone,
\* whatever futures are dropped (mutex.rs:250-253, the fields at 568-571).
THEOREM MutexAccounted == Spec => []LockAccounted
<1>1. LockInv => LockAccounted
  BY DEF LockInv
<1> QED BY <1>1, InitInv, TypeStep, LockStep, PTL DEF Spec

-----------------------------------------------------------------------------
(***************************************************************************)
(* What the holder knows of the flags.  Users that do not hold the mutex   *)
(* may have read old values; what an unlock publishes is the newest one,   *)
(* and nobody can set a flag before the next holder has loaded it.         *)
(***************************************************************************)

\* While nobody holds the mutex, the next holder can only read the newest flags.
LEMMA BorrowReadsNewest ==
  ASSUME TypeOK, FlagInv, NEW u \in Users, NEW ok, NEW err, Borrow(u, ok, err),
         \A v \in Users : ~Acquired(v)
  PROVE  /\ known' = [known EXCEPT ![u] = failed]
         /\ clean' = [clean EXCEPT ![u] = (failed = NO_POISON)]
         /\ pc' = [pc EXCEPT ![u] = IF failed = NO_POISON THEN ok ELSE err]
         /\ UNCHANGED <<published, failed, written, guardPanicking, panics, intact, inner, unwound>>
<1>1. PICK flags \in Loadable(known[u] \cup published) :
         /\ known' = [known EXCEPT ![u] = flags]
         /\ clean' = [clean EXCEPT ![u] = (flags = NO_POISON)]
         /\ pc' = [pc EXCEPT ![u] = IF flags = NO_POISON THEN ok ELSE err]
  BY DEF Borrow
<1>2. flags = failed
  BY DEF Loadable, FlagInv
<1> QED BY <1>1, <1>2 DEF Borrow

\* When the mutex is taken or handed over, nobody holds it.
LEMMA AcquireNewest ==
  ASSUME TypeOK, LockInv, FlagInv, NEW u \in Users,
         Resume(u) \/ TryLock(u) \/ DebugFmt(u)
  PROVE  /\ \A v \in Users : ~Acquired(v)
         /\ \E ok, err \in {"permit", "error", "fmt"} :
              /\ known' = [known EXCEPT ![u] = failed]
              /\ clean' = [clean EXCEPT ![u] = (failed = NO_POISON)]
              /\ pc' = [pc EXCEPT ![u] = IF failed = NO_POISON THEN ok ELSE err]
              /\ <<ok, err>> \in {<<"permit", "error">>, <<"fmt", "fmt">>}
         /\ UNCHANGED <<published, failed, written, guardPanicking, panics, intact, inner, unwound>>
         /\ owner' = u /\ pc[u] \in {"idle", "waiting", "blocked"}
         /\ inner # "shared" => pc[u] # "idle"
<1>1. /\ owner \in {u, NoUser} /\ ~Acquired(u) /\ owner' = u
      /\ pc[u] \in {"idle", "waiting", "blocked"} /\ (inner # "shared" => pc[u] # "idle")
  BY DEF Resume, TryLock, DebugFmt, TakeFree, InQueue, Acquired, tokioVars
<1>2. \A v \in Users : ~Acquired(v)
  BY <1>1, OneHolder
<1>3. Borrow(u, "permit", "error") \/ Borrow(u, "fmt", "fmt")
  BY DEF Resume, TryLock, DebugFmt
<1>4. CASE Borrow(u, "permit", "error")
  BY <1>1, <1>2, <1>4, BorrowReadsNewest
<1>5. CASE Borrow(u, "fmt", "fmt")
  BY <1>1, <1>2, <1>5, BorrowReadsNewest
<1> QED BY <1>3, <1>4, <1>5

\* The end of an action adds flags for its holder to know.
LEMMA DoneKeepsFlagInv ==
  ASSUME TypeOK, LockInv, FlagInv, NEW u \in Users, InBody(u), NEW panicking, NEW cancel,
         DropPoisoner(u, panicking, cancel)
  PROVE  FlagInv' /\ failed \subseteq failed'
<1>1. /\ failed' = failed \cup NewFlags(guardPanicking[u], panicking, cancel)
      /\ written' = written \cup {failed'}
      /\ known' = [known EXCEPT ![u] = failed']
      /\ published' = published
      /\ pc' = [pc EXCEPT ![u] = "unlock"]
  BY DEF DropPoisoner, Done
<1>2. failed \subseteq failed'
  BY <1>1
<1>3. Acquired(u) /\ owner = u
  BY DEF InBody, Acquired, LockInv, LockAccounted
<1>4. \A v \in Users : v # u => ~Acquired(v)
  BY <1>3, OneHolder
<1>5. Acquired(u)' /\ \A v \in Users : v # u => ~Acquired(v)'
  BY <1>1, <1>4 DEF TypeOK, Acquired
<1>6. known'[u] = failed' /\ \A v \in Users : v # u => known'[v] = known[v]
  BY <1>1 DEF TypeOK
<1>7. HolderSeesFlags'
  BY <1>5, <1>6 DEF HolderSeesFlags
<1>8. failed' \in written' /\ \A flags \in written' : flags \subseteq failed'
  BY <1>1, <1>2 DEF FlagInv
<1>9. published' \subseteq failed' /\ \A v \in Users : known'[v] \subseteq failed'
  BY <1>1, <1>2, <1>6 DEF FlagInv
<1> QED BY <1>2, <1>5, <1>7, <1>8, <1>9 DEF FlagInv

\* The steps that end an action.
LEMMA BodyEnds ==
  ASSUME NEW u \in Users, BodyReturns(u) \/ BodyPanics(u) \/ FutureDropped(u)
  PROVE  InBody(u) /\ \E panicking, cancel : DropPoisoner(u, panicking, cancel)
BY DEF BodyReturns, BodyPanics, FutureDropped, InBody

\* The steps of u that leave the flags alone, and the mutex with who has it.
Bystander(u) ==
  \/ ErrorIntoInner(u) \/ DropUnused(u) \/ PerformAsync(u) \/ Perform(u) \/ FirstPoll(u)
  \/ LockWait(u) \/ BlockingWait(u) \/ CancelLock(u)
  \/ Mutate(u) \/ UserPanics(u) \/ CatchUnwind(u)

LEMMA BystanderSteps ==
  ASSUME TypeOK, NEW u \in Users, Bystander(u)
  PROVE  /\ UNCHANGED flagVars
         /\ \A v \in Users : Acquired(v)' <=> Acquired(v)
<1>1. UNCHANGED flagVars
  BY DEF Bystander, ErrorIntoInner, DropUnused, PerformAsync, Perform, FirstPoll, StartBody,
         LockWait, BlockingWait, Enqueue, CancelLock, Mutate, UserPanics, CatchUnwind
<1>2. CASE ErrorIntoInner(u) \/ DropUnused(u) \/ PerformAsync(u) \/ Perform(u) \/ FirstPoll(u)
  BY <1>2 DEF ErrorIntoInner, DropUnused, PerformAsync, Perform, FirstPoll, StartBody,
              Acquired, TypeOK
<1>3. CASE LockWait(u) \/ BlockingWait(u) \/ CancelLock(u)
  BY <1>3 DEF LockWait, BlockingWait, Enqueue, CancelLock, Acquired, TypeOK
<1>4. CASE Mutate(u) \/ UserPanics(u) \/ CatchUnwind(u)
  BY <1>4 DEF Mutate, UserPanics, CatchUnwind, Acquired, userVars
<1> QED BY <1>1, <1>2, <1>3, <1>4 DEF Bystander

\* Every step keeps FlagInv.
LEMMA FlagStep ==
  ASSUME TypeOK, LockInv, FlagInv, [Next]_vars
  PROVE  FlagInv'
<1>1. ASSUME NEW u \in Users, Resume(u) \/ TryLock(u) \/ DebugFmt(u)  PROVE FlagInv'
  <2>1. /\ known' = [known EXCEPT ![u] = failed]
        /\ \E p \in {"permit", "error", "fmt"} : pc' = [pc EXCEPT ![u] = p]
        /\ UNCHANGED <<published, failed, written>>
        /\ \A v \in Users : ~Acquired(v)
    BY <1>1, AcquireNewest
  <2>2. Acquired(u)' /\ \A v \in Users : v # u => ~Acquired(v)'
    BY <2>1 DEF TypeOK, Acquired
  <2>3. known'[u] = failed' /\ \A v \in Users : v # u => known'[v] = known[v]
    BY <2>1 DEF TypeOK
  <2> QED BY <2>1, <2>2, <2>3 DEF FlagInv, HolderSeesFlags
<1>2. ASSUME NEW u \in Users, BodyReturns(u) \/ BodyPanics(u) \/ FutureDropped(u)
      PROVE  FlagInv'
  BY <1>2, BodyEnds, DoneKeepsFlagInv
<1>3. ASSUME NEW u \in Users, Unlock(u)  PROVE FlagInv'
  <2>1. /\ Acquired(u) /\ owner = u /\ known[u] = failed
        /\ pc' = [pc EXCEPT ![u] = "idle"] /\ published' = published \cup known[u]
        /\ UNCHANGED <<failed, written, known>>
    BY <1>3 DEF Unlock, Acquired, LockInv, LockAccounted, FlagInv, HolderSeesFlags
  <2>2. published' = failed
    BY <2>1 DEF FlagInv
  <2>3. \A v \in Users : ~Acquired(v)'
    BY <2>1, OneHolder DEF TypeOK, Acquired
  <2> QED BY <2>1, <2>2, <2>3 DEF FlagInv, HolderSeesFlags
<1>4. ASSUME NEW u \in Users, IsPoisoned(u)  PROVE FlagInv'
  <2>1. PICK flags \in Loadable(known[u]) : known' = [known EXCEPT ![u] = flags]
    BY <1>4 DEF IsPoisoned
  <2>2. UNCHANGED <<published, failed, written, pc>>
    BY <1>4 DEF IsPoisoned, userVars
  <2>3. flags \subseteq failed /\ (Acquired(u) => flags = failed)
    BY DEF Loadable, FlagInv, HolderSeesFlags
  <2>4. known'[u] = flags /\ \A v \in Users : v # u => known'[v] = known[v]
    BY <2>1 DEF TypeOK
  <2>5. \A v \in Users : Acquired(v)' <=> Acquired(v)
    BY <2>2 DEF Acquired
  <2> QED BY <2>2, <2>3, <2>4, <2>5 DEF FlagInv, HolderSeesFlags
<1>5. CASE UNCHANGED flagVars /\ \A v \in Users : Acquired(v)' <=> Acquired(v)
  BY <1>5 DEF FlagInv, HolderSeesFlags, flagVars
<1>6. ASSUME NEW u \in Users, Bystander(u)  PROVE FlagInv'
  BY <1>5, <1>6, BystanderSteps
<1>7. CASE GetMut \/ IntoInner \/ UNCHANGED vars
  <2>1. UNCHANGED flagVars /\ UNCHANGED pc
    BY <1>7 DEF GetMut, IntoInner, vars, userVars
  <2> QED BY <2>1, <1>5 DEF Acquired
<1> QED BY <1>1, <1>2, <1>3, <1>4, <1>6, <1>7 DEF Next, UserNext, Finish, Bystander

\* The holder sees the newest flags under Relaxed ordering (poison.rs:162-169).
THEOREM NewestFlagsSeen == Spec => []HolderSeesFlags
<1>1. Spec => []FlagInv
  BY InitInv, TypeStep, LockStep, FlagStep, PTL DEF Spec
<1>2. FlagInv => HolderSeesFlags
  BY DEF FlagInv
<1> QED BY <1>1, <1>2, PTL

-----------------------------------------------------------------------------
(***************************************************************************)
(* Panics.                                                                 *)
(***************************************************************************)

\* Every step keeps PanicInv.
LEMMA PanicStep ==
  ASSUME TypeOK, LockInv, FlagInv, PanicInv, [Next]_vars
  PROVE  PanicInv'
<1> USE DEF PanicInv, PanicFlagMeansPanic, InBody, Panicking
<1>1. ASSUME NEW u \in Users, Resume(u) \/ TryLock(u) \/ DebugFmt(u)  PROVE PanicInv'
  <2>1. /\ \E p \in {"permit", "error", "fmt"} : pc' = [pc EXCEPT ![u] = p]
        /\ UNCHANGED <<failed, guardPanicking, panics, unwound>>
    BY <1>1, AcquireNewest
  <2> QED BY <2>1 DEF TypeOK
<1>2. ASSUME NEW u \in Users, BodyReturns(u) \/ BodyPanics(u) \/ FutureDropped(u)
      PROVE  PanicInv'
  <2>1. /\ InBody(u) /\ pc' = [pc EXCEPT ![u] = "unlock"]
        /\ guardPanicking' = [guardPanicking EXCEPT ![u] = FALSE]
        /\ \A v \in Users : v # u => panics'[v] = panics[v]
        /\ unwound => unwound'
    BY <1>2 DEF BodyReturns, BodyPanics, FutureDropped, DropPoisoner, TypeOK
  <2>2. PANIC_POISON \in failed' => unwound'
    <3>1. CASE BodyPanics(u)
      BY <3>1 DEF BodyPanics
    <3>2. ASSUME NEW cancel \in BOOLEAN, DropPoisoner(u, Panicking(u), cancel),
                 PANIC_POISON \in failed'
          PROVE  unwound
      <4>1. failed' = failed \cup NewFlags(guardPanicking[u], Panicking(u), cancel)
        BY <3>2 DEF DropPoisoner, Done
      <4>2. CASE PANIC_POISON \in failed
        BY <4>2
      <4>3. CASE ~guardPanicking[u] /\ Panicking(u)
        BY <4>3, <2>1
      <4> QED BY <4>1, <4>2, <4>3, <3>2 DEF NewFlags, PANIC_POISON, CANCEL_POISON
    <3>3. CASE BodyReturns(u)
      BY <3>2, <3>3 DEF BodyReturns
    <3>4. CASE FutureDropped(u)
      BY <3>2, <3>4 DEF FutureDropped
    <3> QED BY <1>2, <3>1, <3>3, <3>4
  <2> QED BY <2>1, <2>2 DEF TypeOK
<1>3. ASSUME NEW u \in Users, Perform(u) \/ FirstPoll(u)  PROVE PanicInv'
  <2>1. /\ guardPanicking' = [guardPanicking EXCEPT ![u] = Panicking(u)]
        /\ UNCHANGED <<failed, panics, unwound>>
        /\ \A v \in Users : v # u => pc'[v] = pc[v]
    BY <1>3 DEF Perform, FirstPoll, StartBody, flagVars, TypeOK
  <2> QED BY <2>1 DEF TypeOK
<1>4. ASSUME NEW u \in Users, UserPanics(u)  PROVE PanicInv'
  <2>1. /\ panics' = [panics EXCEPT ![u] = @ + 1]
        /\ unwound' = (unwound \/ Acquired(u)) /\ pc[u] # "sync"
        /\ UNCHANGED <<failed, guardPanicking, pc>>
    BY <1>4 DEF UserPanics, Outside, flagVars
  <2> QED BY <2>1 DEF TypeOK, Acquired
<1>5. ASSUME NEW u \in Users, CatchUnwind(u)  PROVE PanicInv'
  <2>1. /\ panics' = [panics EXCEPT ![u] = @ - 1] /\ panics[u] > 0 /\ pc[u] # "sync"
        /\ UNCHANGED <<failed, guardPanicking, pc, unwound>>
    BY <1>5 DEF CatchUnwind, Outside, flagVars
  <2> QED BY <2>1 DEF TypeOK
<1>6. ASSUME NEW u \in Users,
             ErrorIntoInner(u) \/ DropUnused(u) \/ PerformAsync(u) \/ LockWait(u)
               \/ BlockingWait(u) \/ CancelLock(u) \/ Unlock(u)
      PROVE  PanicInv'
  <2>1. /\ \E p \in PCs \ {"sync", "async"} : pc' = [pc EXCEPT ![u] = p]
        /\ UNCHANGED <<failed, guardPanicking, panics, unwound>>
    BY <1>6 DEF ErrorIntoInner, DropUnused, PerformAsync, LockWait, BlockingWait, Enqueue,
                CancelLock, Unlock, flagVars, PCs
  <2> QED BY <2>1 DEF TypeOK
<1>7. ASSUME \/ GetMut \/ IntoInner \/ UNCHANGED vars
             \/ \E u \in Users : Mutate(u) \/ IsPoisoned(u)
      PROVE  PanicInv'
  <2>1. UNCHANGED <<failed, guardPanicking, panics, unwound, pc>>
    BY <1>7 DEF GetMut, IntoInner, Mutate, IsPoisoned, vars, flagVars, userVars
  <2> QED BY <2>1
<1> QED BY <1>1, <1>2, <1>3, <1>4, <1>5, <1>6, <1>7 DEF Next, UserNext, Finish

\* Using the mutex from a destructor that runs because of an earlier panic does
\* not set the panic flag (Guard::panicking, poison.rs:193 and 200).
THEOREM PanicFlagSound == Spec => []PanicFlagMeansPanic
<1>1. Spec => []PanicInv
  BY InitInv, TypeStep, LockStep, FlagStep, PanicStep, PTL DEF Spec
<1>2. PanicInv => PanicFlagMeansPanic
  BY DEF PanicInv
<1> QED BY <1>1, <1>2, PTL

\* An action that panics on a thread that was not unwinding poisons the mutex: if
\* the poisoner saw no panic when it was made, with the panic flag; if it did, and
\* the panic was caught since, the action is a future, and the cancel flag is set.
THEOREM FirstPanicCaught == Spec => FirstPanicPoisons
<1>1. ASSUME TypeOK, PanicInv, NEW u \in Users, BodyPanics(u), ~Panicking(u)
      PROVE  failed' # NO_POISON
  <2>1. failed' = failed \cup NewFlags(guardPanicking[u], TRUE, pc[u] = "async")
    BY <1>1 DEF BodyPanics, DropPoisoner, Done
  <2>2. CASE pc[u] = "async"
    BY <2>1, <2>2 DEF NewFlags, NO_POISON
  <2>3. CASE pc[u] = "sync"
    <3>1. ~guardPanicking[u]
      BY <1>1, <2>3 DEF PanicInv
    <3> QED BY <2>1, <3>1 DEF NewFlags, NO_POISON
  <2> QED BY <1>1, <2>2, <2>3 DEF BodyPanics, InBody
<1>2. ASSUME TypeOK, PanicInv, [Next]_vars
      PROVE  [\A u \in Users : BodyPanics(u) /\ ~Panicking(u) => failed' # NO_POISON]_vars
  BY <1>1, <1>2
<1>3. Spec => [](TypeOK /\ PanicInv)
  BY InitInv, TypeStep, LockStep, FlagStep, PanicStep, PTL DEF Spec
<1> QED BY <1>2, <1>3, PTL DEF Spec, FirstPanicPoisons

-----------------------------------------------------------------------------
(***************************************************************************)
(* Poison is for good.                                                     *)
(***************************************************************************)

\* An into_inner finds the newest flags too: nobody holds the mutex.
LEMMA IntoInnerReadsNewest ==
  ASSUME TypeOK, FlagInv, IntoInner
  PROVE  inner' = (IF failed = NO_POISON THEN "ok" ELSE "poisoned") /\ ~ \E u \in Users : InBody(u)
<1>1. \A u \in Users : pc[u] = "idle"
  BY DEF IntoInner, Exclusive
<1>2. published = failed /\ ~ \E u \in Users : InBody(u)
  BY <1>1 DEF FlagInv, Acquired, InBody
<1>3. PICK flags \in Loadable(published \cup UNION {known[u] : u \in Users}) :
         inner' = IF flags = NO_POISON THEN "ok" ELSE "poisoned"
  BY DEF IntoInner
<1>4. flags = failed
  BY <1>2 DEF Loadable, FlagInv
<1> QED BY <1>2, <1>3, <1>4

\* No step lets a user in with an Ok once a flag is up, or takes a flag down.
LEMMA PoisonStep ==
  ASSUME TypeOK, LockInv, FlagInv, [Next]_vars
  PROVE  /\ failed \subseteq failed'
         /\ failed # NO_POISON =>
              /\ \A u \in Users : ~clean[u] => ~clean'[u]
              /\ inner' # "ok" \/ inner = "ok"
<1> DEFINE Goal == /\ failed \subseteq failed'
                   /\ failed # NO_POISON =>
                        /\ \A u \in Users : ~clean[u] => ~clean'[u]
                        /\ inner' # "ok" \/ inner = "ok"
<1>1. ASSUME NEW u \in Users, Resume(u) \/ TryLock(u) \/ DebugFmt(u)  PROVE Goal
  <2>1. /\ clean' = [clean EXCEPT ![u] = (failed = NO_POISON)] /\ UNCHANGED <<failed, inner>>
    BY <1>1, AcquireNewest
  <2> QED BY <2>1 DEF TypeOK
<1>2. ASSUME NEW u \in Users, BodyReturns(u) \/ BodyPanics(u) \/ FutureDropped(u)  PROVE Goal
  <2>1. failed \subseteq failed'
    BY <1>2, BodyEnds, DoneKeepsFlagInv
  <2>2. UNCHANGED <<clean, inner>>
    BY <1>2 DEF BodyReturns, BodyPanics, FutureDropped, DropPoisoner
  <2> QED BY <2>1, <2>2
<1>3. ASSUME NEW u \in Users, Unlock(u)  PROVE Goal
  BY <1>3 DEF Unlock, TypeOK
<1>4. ASSUME NEW u \in Users, Bystander(u) \/ IsPoisoned(u)  PROVE Goal
  <2>1. UNCHANGED <<failed, clean, inner>>
    BY <1>4 DEF Bystander, ErrorIntoInner, DropUnused, PerformAsync, Perform, FirstPoll, StartBody,
         LockWait, BlockingWait, Enqueue, CancelLock, Mutate, UserPanics, CatchUnwind, IsPoisoned,
         flagVars, userVars
  <2> QED BY <2>1
<1>5. CASE GetMut \/ UNCHANGED vars
  BY <1>5 DEF GetMut, vars, flagVars, userVars
<1>6. CASE IntoInner
  <2>1. UNCHANGED <<failed, clean>>
    BY <1>6 DEF IntoInner, flagVars, userVars
  <2> QED BY <1>6, <2>1, IntoInnerReadsNewest
<1> QED BY <1>1, <1>2, <1>3, <1>4, <1>5, <1>6 DEF Next, UserNext, Finish, Bystander

\* "Once a lock is poisoned then all future acquisitions will return this error"
\* (poison.rs:11-12), by lock, blocking_lock, try_lock and into_inner alike.
THEOREM PoisonIsForGood == Spec => NoCleanGrantAfterPoison
<1>1. TypeOK /\ LockInv /\ FlagInv /\ [Next]_vars =>
        [ /\ failed \subseteq failed'
          /\ failed # NO_POISON =>
               /\ \A u \in Users : ~clean[u] => ~clean'[u]
               /\ inner' # "ok" \/ inner = "ok" ]_vars
  BY PoisonStep
<1>2. Spec => [](TypeOK /\ LockInv /\ FlagInv)
  BY InitInv, TypeStep, LockStep, FlagStep, PTL DEF Spec
<1> QED BY <1>1, <1>2, PTL DEF Spec, NoCleanGrantAfterPoison

-----------------------------------------------------------------------------
(***************************************************************************)
(* The data.  With more than one panic at a time on a thread, a closure    *)
(* that panics while its thread already unwinds leaves no flag (poison.rs: *)
(* 200), so what follows needs MaxPanics <= 1.                             *)
(***************************************************************************)

\* An action that does not run to its end puts a flag up.
LEMMA CutShortPoisons ==
  ASSUME TypeOK, ~NestedPanic, NEW u \in Users, BodyPanics(u) \/ FutureDropped(u)
  PROVE  failed' # NO_POISON
<1>1. CASE BodyPanics(u) /\ pc[u] = "sync"
  <2>1. guardPanicking[u] = FALSE
    BY <1>1 DEF NestedPanic, TypeOK
  <2>2. \E cancel : failed' = failed \cup NewFlags(FALSE, TRUE, cancel)
    BY <1>1, <2>1 DEF BodyPanics, DropPoisoner, Done
  <2> QED BY <2>2 DEF NewFlags, NO_POISON
<1>2. CASE BodyPanics(u) /\ pc[u] = "async"
  <2>1. failed' = failed \cup NewFlags(guardPanicking[u], TRUE, TRUE)
    BY <1>2 DEF BodyPanics, DropPoisoner, Done
  <2> QED BY <2>1 DEF NewFlags, NO_POISON
<1>3. CASE FutureDropped(u)
  <2>1. failed' = failed \cup NewFlags(guardPanicking[u], Panicking(u), TRUE)
    BY <1>3 DEF FutureDropped, DropPoisoner, Done
  <2> QED BY <2>1 DEF NewFlags, NO_POISON
<1> QED BY <1>1, <1>2, <1>3 DEF BodyPanics, InBody

\* Every step keeps DataInv.
LEMMA DataStep ==
  ASSUME TypeOK, LockInv, FlagInv, DataInv, [Next]_vars, [~NestedPanic]_vars
  PROVE  DataInv'
<1>1. ASSUME NEW u \in Users, Resume(u) \/ TryLock(u) \/ DebugFmt(u)  PROVE DataInv'
  <2>1. /\ \A v \in Users : ~Acquired(v)
        /\ \E ok, err \in {"permit", "error", "fmt"} :
              /\ clean' = [clean EXCEPT ![u] = (failed = NO_POISON)]
              /\ pc' = [pc EXCEPT ![u] = IF failed = NO_POISON THEN ok ELSE err]
              /\ <<ok, err>> \in {<<"permit", "error">>, <<"fmt", "fmt">>}
        /\ UNCHANGED <<failed, intact, inner>>
        /\ inner # "shared" => pc[u] # "idle"
    BY <1>1, AcquireNewest
  <2>2. inner = "shared"
    BY <2>1 DEF DataInv
  <2>3. ~ \E v \in Users : InBody(v)
    BY <2>1 DEF InBody, Acquired
  <2>4. /\ clean'[u] = (failed = NO_POISON)
        /\ pc'[u] = "error" => failed # NO_POISON
        /\ \A v \in Users : v # u => pc'[v] = pc[v] /\ clean'[v] = clean[v]
    BY <2>1 DEF TypeOK
  <2>5. \A v \in Users : v # u => ~Acquired(v)'
    BY <2>1, <2>4 DEF Acquired
  <2>6. \A v \in Users : v # u => pc'[v] \in {"idle", "waiting", "blocked"}
    BY <2>5 DEF Acquired
  <2> QED BY <2>1, <2>2, <2>3, <2>4, <2>5, <2>6 DEF DataInv
<1>2. ASSUME NEW u \in Users, BodyReturns(u) \/ BodyPanics(u) \/ FutureDropped(u)
      PROVE  DataInv'
  <2>1. InBody(u) /\ failed \subseteq failed' /\ pc' = [pc EXCEPT ![u] = "unlock"]
        /\ UNCHANGED <<clean, inner>>
    BY <1>2, BodyEnds, DoneKeepsFlagInv
       DEF BodyReturns, BodyPanics, FutureDropped, DropPoisoner
  <2>2. Acquired(u) /\ owner = u
    BY <2>1 DEF InBody, Acquired, LockInv, LockAccounted
  <2>3. \A v \in Users : v # u => ~Acquired(v) /\ pc'[v] = pc[v]
    BY <2>1, <2>2, OneHolder DEF TypeOK
  <2>4. pc'[u] = "unlock" /\ inner = "shared"
    BY <2>1 DEF TypeOK, DataInv, InBody
  <2>5. \A v \in Users : pc'[v] \in {"unlock", "idle", "waiting", "blocked"}
                         /\ (Acquired(v)' => v = u)
    BY <2>3, <2>4 DEF Acquired
  <2>6. ~clean[u] => failed' # NO_POISON
    BY <2>1, <2>2 DEF DataInv, NO_POISON
  <2>7. ~intact' => failed' # NO_POISON
    <3>1. CASE BodyReturns(u)
      BY <3>1, <2>6 DEF BodyReturns, TypeOK
    <3>2. CASE BodyPanics(u) \/ FutureDropped(u)
      <4>1. vars' # vars
        BY <2>1 DEF vars, userVars, InBody, TypeOK
      <4> QED BY <3>2, <4>1, CutShortPoisons
    <3> QED BY <1>2, <3>1, <3>2
  <2> QED BY <2>1, <2>4, <2>5, <2>6, <2>7 DEF DataInv
<1>3. ASSUME NEW u \in Users,
             ErrorIntoInner(u) \/ DropUnused(u) \/ PerformAsync(u) \/ Perform(u) \/ FirstPoll(u)
      PROVE  DataInv'
  <2>1. /\ Acquired(u) /\ UNCHANGED <<failed, clean, intact, inner>>
        /\ \E p \in PCs : pc' = [pc EXCEPT ![u] = p] /\ p \notin {"error", "fmt"}
        /\ pc'[u] \in {"permit", "pending"} => pc[u] \in {"error", "permit"}
        /\ pc[u] \notin {"sync", "async"}
    BY <1>3 DEF ErrorIntoInner, DropUnused, PerformAsync, Perform, FirstPoll, StartBody,
                Acquired, flagVars, PCs, TypeOK
  <2>2. pc'[u] \notin {"error", "fmt"} /\ \A v \in Users : v # u => pc'[v] = pc[v]
    BY <2>1 DEF TypeOK
  <2>3. inner = "shared"
    BY <2>1 DEF DataInv, Acquired
  <2>4. \A v \in Users : Acquired(v)' => v = u \/ Acquired(v)
    BY <2>2 DEF Acquired
  <2>5. \A v \in Users : InBody(v) => InBody(v)'
    BY <2>1, <2>2 DEF InBody
  <2> QED BY <2>1, <2>2, <2>3, <2>4, <2>5 DEF DataInv
<1>4. ASSUME NEW u \in Users, Unlock(u)  PROVE DataInv'
  <2>1. /\ pc[u] = "unlock" /\ UNCHANGED <<failed, intact, inner>>
        /\ pc'[u] = "idle" /\ clean'[u] = FALSE
        /\ \A v \in Users : v # u => pc'[v] = pc[v] /\ clean'[v] = clean[v]
    BY <1>4 DEF Unlock, TypeOK
  <2>2. inner = "shared"
    BY <2>1 DEF DataInv
  <2>3. \A v \in Users : (Acquired(v)' => Acquired(v) /\ v # u) /\ (InBody(v) => InBody(v)')
    BY <2>1 DEF Acquired, InBody
  <2> QED BY <2>1, <2>2, <2>3 DEF DataInv
<1>5. ASSUME NEW u \in Users, LockWait(u) \/ BlockingWait(u) \/ CancelLock(u)  PROVE DataInv'
  <2>1. /\ UNCHANGED <<failed, clean, intact, inner>> /\ ~Acquired(u) /\ ~InBody(u)
        /\ \E p \in {"idle", "waiting", "blocked"} : pc' = [pc EXCEPT ![u] = p]
        /\ inner = "shared" \/ pc[u] # "idle"
    BY <1>5 DEF LockWait, BlockingWait, Enqueue, CancelLock, Acquired, InBody, flagVars
  <2>2. /\ pc'[u] \in {"idle", "waiting", "blocked"}
        /\ \A v \in Users : v # u => pc'[v] = pc[v]
    BY <2>1 DEF TypeOK
  <2>3. inner = "shared"
    BY <2>1 DEF DataInv
  <2>4. \A v \in Users : (Acquired(v)' => Acquired(v)) /\ (InBody(v) => InBody(v)')
    BY <2>1, <2>2 DEF Acquired, InBody
  <2> QED BY <2>1, <2>2, <2>3, <2>4 DEF DataInv
<1>6. ASSUME NEW u \in Users, Mutate(u)  PROVE DataInv'
  <2>1. InBody(u) /\ UNCHANGED <<failed, clean, pc, inner>>
    BY <1>6 DEF Mutate, flagVars, userVars
  <2>2. inner # "ok"
    BY <2>1 DEF DataInv, InBody
  <2> QED BY <2>1, <2>2 DEF DataInv, Acquired, InBody
<1>7. CASE UNCHANGED <<failed, clean, pc, intact, inner>>
  BY <1>7 DEF DataInv, Acquired, InBody
<1>8. ASSUME NEW u \in Users, UserPanics(u) \/ CatchUnwind(u) \/ IsPoisoned(u)
      PROVE  UNCHANGED <<failed, clean, pc, intact, inner>>
  BY <1>8 DEF UserPanics, CatchUnwind, IsPoisoned, flagVars, userVars
<1>9. ASSUME UNCHANGED vars
      PROVE  UNCHANGED <<failed, clean, pc, intact, inner>>
  BY <1>9 DEF vars, flagVars, userVars
<1>10. CASE GetMut
  <2>1. UNCHANGED <<failed, clean, pc, inner>> /\ intact' \in {intact, TRUE}
    BY <1>10 DEF GetMut, flagVars, userVars
  <2> QED BY <2>1 DEF DataInv, Acquired, InBody
<1>11. CASE IntoInner
  <2>1. UNCHANGED <<failed, clean, pc, intact>> /\ \A v \in Users : pc[v] = "idle"
    BY <1>11 DEF IntoInner, Exclusive, flagVars, userVars
  <2>2. inner' = "ok" => intact
    BY <1>11, <2>1, IntoInnerReadsNewest DEF DataInv
  <2> QED BY <2>1, <2>2 DEF DataInv, Acquired, InBody
<1> QED BY <1>1, <1>2, <1>3, <1>4, <1>5, <1>6, <1>7, <1>8, <1>9, <1>10, <1>11
        DEF Next, UserNext, Finish

\* An Ok from lock, try_lock or into_inner comes with data whose invariants
\* hold: no action that was cut short is behind it (poison.rs:198-207), unless it was a
\* closure that panicked on a thread that unwound already when it was called.
THEOREM CleanAccessIntact ==
  Spec /\ [][~NestedPanic]_vars => []CleanMeansIntact
<1> DEFINE IInv == TypeOK /\ LockInv /\ FlagInv /\ DataInv
<1>1. Init => IInv
  BY InitInv
<1>2. IInv /\ [Next]_vars /\ [~NestedPanic]_vars => IInv'
  BY TypeStep, LockStep, FlagStep, DataStep
<1>3. IInv => CleanMeansIntact
  <2> SUFFICES ASSUME IInv  PROVE CleanMeansIntact
    OBVIOUS
  <2>1. ASSUME NEW u \in Users, clean[u], pc[u] \in {"permit", "pending", "fmt"}  PROVE intact
    <3>1. Acquired(u) /\ owner = u /\ ~InBody(u)
      BY <2>1 DEF Acquired, InBody, LockInv, LockAccounted
    <3>2. \A v \in Users : ~InBody(v)
      BY <3>1, OneHolder DEF InBody, Acquired
    <3> QED BY <2>1, <3>2 DEF DataInv
  <2> QED BY <2>1 DEF CleanMeansIntact, DataInv
<1> QED BY <1>1, <1>2, <1>3, PTL DEF Spec

-----------------------------------------------------------------------------
(***************************************************************************)
(* The mutex implements PoisonLock.                                        *)
(***************************************************************************)

\* The holder in PoisonLock is the user that has acquired the mutex.
LEMMA HolderIs ==
  ASSUME LockInv, NEW u \in Users, Acquired(u)
  PROVE  Holder = u /\ Access = IF clean[u] THEN "clean" ELSE "poisoned"
BY NoUserAssumption DEF LockInv, LockAccounted, Holder, Access

LEMMA HolderIsNobody ==
  ASSUME TypeOK, \A u \in Users : ~Acquired(u)
  PROVE  Holder = NoUser /\ Access = "none"
BY DEF TypeOK, Holder, Access

\* The same after a step.
LEMMA HolderIsNext ==
  ASSUME LockInv', NEW u \in Users, Acquired(u)'
  PROVE  Holder' = u /\ Access' = IF clean'[u] THEN "clean" ELSE "poisoned"
BY NoUserAssumption DEF LockInv, LockAccounted, Holder, Access, Acquired

LEMMA HolderIsNobodyNext ==
  ASSUME TypeOK', \A u \in Users : ~Acquired(u)'
  PROVE  Holder' = NoUser /\ Access' = "none"
BY DEF TypeOK, Holder, Access, Acquired

\* If no acquisition begins or ends and the view of the holder stays, so does
\* what PoisonLock sees of it.
LEMMA SameHolder ==
  ASSUME TypeOK, LockInv, TypeOK', LockInv', UNCHANGED clean,
         \A u \in Users : Acquired(u)' <=> Acquired(u)
  PROVE  UNCHANGED <<Holder, Access>>
<1>1. CASE \E u \in Users : Acquired(u)
  <2>1. PICK u \in Users : Acquired(u)
    BY <1>1
  <2> QED BY <2>1, HolderIs, HolderIsNext
<1>2. CASE \A u \in Users : ~Acquired(u)
  BY <1>2, HolderIsNobody, HolderIsNobodyNext
<1> QED BY <1>1, <1>2

\* Every step is a step of PoisonLock or leaves all it sees unchanged.
LEMMA AbstractStep ==
  ASSUME TypeOK, LockInv, FlagInv, DataInv, TypeOK', LockInv', [Next]_vars
  PROVE  [Abstract!Next]_(Abstract!vars)
<1> USE DEF Abstract!Next, Abstract!vars
<1>1. ASSUME NEW u \in Users, Resume(u) \/ TryLock(u) \/ DebugFmt(u)  PROVE Abstract!Next
  <2>1. /\ \A v \in Users : ~Acquired(v)
        /\ clean' = [clean EXCEPT ![u] = (failed = NO_POISON)]
        /\ \E p \in {"permit", "error", "fmt"} : pc' = [pc EXCEPT ![u] = p]
        /\ UNCHANGED <<failed, intact>>
    BY <1>1, AcquireNewest
  <2>2. Acquired(u)' /\ clean'[u] = (failed = NO_POISON)
    BY <2>1 DEF Acquired, TypeOK
  <2>3. Holder = NoUser /\ Holder' = u
        /\ Access' = IF failed = NO_POISON THEN "clean" ELSE "poisoned"
    BY <2>1, <2>2, HolderIsNobody, HolderIsNext
  <2>4. Abstract!Acquire(u)
    BY <2>1, <2>3 DEF Abstract!Acquire, NO_POISON
  <2> QED BY <2>4
<1>2. ASSUME NEW u \in Users, BodyReturns(u) \/ BodyPanics(u) \/ FutureDropped(u)
      PROVE  Abstract!Next
  <2>1. InBody(u) /\ Acquired(u) /\ UNCHANGED clean /\ pc' = [pc EXCEPT ![u] = "unlock"]
    BY <1>2, BodyEnds DEF InBody, Acquired, DropPoisoner
  <2>2. Acquired(u)'
    BY <2>1 DEF Acquired, TypeOK
  <2>3. UNCHANGED <<Holder, Access>> /\ Holder = u
    BY <2>1, <2>2, HolderIs, HolderIsNext
  <2>4. \E f \in SUBSET Flags : failed' = failed \cup f
    <3>1. PICK panicking, cancel : DropPoisoner(u, panicking, cancel)
      BY <1>2, BodyEnds
    <3>2. NewFlags(guardPanicking[u], panicking, cancel) \in SUBSET Flags
      BY DEF NewFlags, Flags
    <3> QED BY <3>1, <3>2 DEF DropPoisoner, Done
  <2>5. intact' \in BOOLEAN
    BY DEF TypeOK
  <2>6. Abstract!Work
    BY <2>3, <2>4, <2>5, NoUserAssumption DEF Abstract!Work
  <2> QED BY <2>6
<1>3. ASSUME NEW u \in Users, Unlock(u)  PROVE Abstract!Next
  <2>1. /\ Acquired(u) /\ owner = u /\ ~InBody(u)
        /\ pc' = [pc EXCEPT ![u] = "idle"] /\ UNCHANGED <<failed, intact>>
    BY <1>3 DEF Unlock, Acquired, InBody, LockInv, LockAccounted
  <2>2. \A v \in Users : v # u => ~Acquired(v)
    BY <2>1, OneHolder
  <2>3. (\A v \in Users : ~Acquired(v)') /\ \A v \in Users : ~InBody(v)
    BY <2>1, <2>2 DEF Acquired, InBody, TypeOK
  <2>4. intact \/ failed # NO_POISON
    BY <2>3 DEF DataInv
  <2>5. Holder = u /\ Holder' = NoUser /\ Access' = "none"
    BY <2>1, <2>3, HolderIs, HolderIsNobodyNext
  <2>6. Abstract!Release
    BY <2>1, <2>4, <2>5, NoUserAssumption DEF Abstract!Release, NO_POISON
  <2> QED BY <2>6
<1>4. ASSUME NEW u \in Users, Mutate(u)  PROVE Abstract!Next
  <2>1. /\ Acquired(u) /\ UNCHANGED <<failed, clean, pc>>
    BY <1>4 DEF Mutate, InBody, Acquired, flagVars, userVars
  <2>2. Acquired(u)'
    BY <2>1 DEF Acquired
  <2>3. UNCHANGED <<Holder, Access>> /\ Holder = u
    BY <2>1, <2>2, HolderIs, HolderIsNext
  <2>4. failed' = failed \cup {} /\ {} \in SUBSET Flags /\ intact' \in BOOLEAN
    BY <2>1 DEF TypeOK
  <2>5. Abstract!Work
    BY <2>3, <2>4, NoUserAssumption DEF Abstract!Work
  <2> QED BY <2>5
<1>5. ASSUME NEW u \in Users, Bystander(u), ~Mutate(u)  PROVE UNCHANGED Abstract!vars
  <2>1. UNCHANGED <<failed, clean, intact>>
    BY <1>5 DEF Bystander, ErrorIntoInner, DropUnused, PerformAsync, Perform, FirstPoll, StartBody,
         LockWait, BlockingWait, Enqueue, CancelLock, UserPanics, CatchUnwind, flagVars
  <2> QED BY <1>5, <2>1, BystanderSteps, SameHolder
<1>6. ASSUME \/ IntoInner \/ UNCHANGED vars
             \/ \E u \in Users : IsPoisoned(u)
      PROVE  UNCHANGED Abstract!vars
  <2>1. UNCHANGED <<failed, clean, pc, intact>>
    BY <1>6 DEF IntoInner, vars, IsPoisoned, flagVars, userVars
  <2>2. \A u \in Users : Acquired(u)' <=> Acquired(u)
    BY <2>1 DEF Acquired
  <2> QED BY <2>1, <2>2, SameHolder
<1>7. CASE GetMut
  <2>1. UNCHANGED <<failed, clean, pc>> /\ intact' \in {intact, TRUE}
        /\ \A u \in Users : ~Acquired(u)
    BY <1>7 DEF GetMut, Exclusive, Acquired, flagVars, userVars
  <2>2. \A u \in Users : ~Acquired(u)'
    BY <2>1 DEF Acquired
  <2>3. Holder = NoUser /\ UNCHANGED <<Holder, Access>>
    BY <2>1, <2>2, HolderIsNobody, HolderIsNobodyNext
  <2>4. Abstract!Repair \/ UNCHANGED Abstract!vars
    BY <2>1, <2>3 DEF Abstract!Repair
  <2> QED BY <2>4
<1> QED BY <1>1, <1>2, <1>3, <1>4, <1>5, <1>6, <1>7 DEF Next, UserNext, Finish, Bystander

\* RobustMutex keeps the promise of PoisonLock: nobody lets go of damaged data
\* without a flag, and everyone is told who comes after, with the same exception.
THEOREM ImplementsAbstractLock ==
  Spec /\ [][~NestedPanic]_vars => ImplementsPoisonLock
<1> DEFINE IInv == TypeOK /\ LockInv /\ FlagInv /\ DataInv
<1>1. Init => IInv
  BY InitInv
<1>2. IInv /\ [Next]_vars /\ [~NestedPanic]_vars => IInv'
  BY TypeStep, LockStep, FlagStep, DataStep
<1>3. Init => Abstract!Init
  <2> SUFFICES ASSUME Init PROVE Abstract!Init
    OBVIOUS
  <2>1. \A u \in Users : ~Acquired(u)
    BY DEF Init, Acquired
  <2> QED BY <2>1, InitInv, HolderIsNobody DEF Init, Abstract!Init, NO_POISON
<1>4. IInv /\ IInv' /\ [Next]_vars => [Abstract!Next]_(Abstract!vars)
  BY AbstractStep
<1> QED BY <1>1, <1>2, <1>3, <1>4, PTL DEF Spec, ImplementsPoisonLock, Abstract!Spec

\* Where no panic is nested in another on one thread, there is no exception: a closure
\* called while its thread unwinds cannot panic (Guard::panicking, poison.rs:193).
THEOREM OnePanicAtATime ==
  ASSUME MaxPanics <= 1
  PROVE  Spec => []CleanMeansIntact /\ ImplementsPoisonLock
<1> DEFINE IInv == TypeOK /\ LockInv /\ FlagInv /\ PanicInv
<1>1. Init => IInv
  BY InitInv
<1>2. IInv /\ [Next]_vars => IInv'
  BY TypeStep, LockStep, FlagStep, PanicStep
<1>3. IInv => ~NestedPanic
  <2> SUFFICES ASSUME IInv, NEW u \in Users, BodyPanics(u), pc[u] = "sync", guardPanicking[u]
               PROVE  FALSE
    BY DEF NestedPanic
  <2>1. panics[u] \in Nat /\ panics[u] < MaxPanics
    BY DEF BodyPanics, TypeOK
  <2>2. panics[u] = 0
    BY <2>1, MaxPanicsAssumption
  <2>3. Panicking(u)
    BY DEF PanicInv
  <2> QED BY <2>2, <2>3 DEF Panicking
<1>4. Spec => [][~NestedPanic]_vars
  BY <1>1, <1>2, <1>3, PTL DEF Spec
<1> QED BY <1>4, CleanAccessIntact, ImplementsAbstractLock, PTL

-----------------------------------------------------------------------------
(***************************************************************************)
(* The mutex implements PoisonFlag.                                        *)
(***************************************************************************)

\* The byte of a set of flags, and what adding a flag does to it.
LEMMA Byte ==
  ASSUME NEW s \in SUBSET Flags
  PROVE  /\ PoisonByte(s) \in 0 .. 3
         /\ PoisonByte(s) = 0 <=> s = NO_POISON
         /\ Flag!Or(PoisonByte(s), Flag!PANIC_POISON) = PoisonByte(s \cup {PANIC_POISON})
         /\ Flag!Or(PoisonByte(s), Flag!CANCEL_POISON) = PoisonByte(s \cup {CANCEL_POISON})
<1>1. PANIC_POISON # CANCEL_POISON
  BY DEF PANIC_POISON, CANCEL_POISON
<1>2. /\ 0 \div 1 = 0 /\ 1 \div 1 = 1 /\ 2 \div 1 = 2 /\ 3 \div 1 = 3
      /\ 0 \div 2 = 0 /\ 1 \div 2 = 0 /\ 2 \div 2 = 1 /\ 3 \div 2 = 1
  OBVIOUS
<1>3. 0 % 2 = 0 /\ 1 % 2 = 1 /\ 2 % 2 = 0 /\ 3 % 2 = 1
  OBVIOUS
<1>4. /\ ~Flag!HasBit(0, 1) /\ Flag!HasBit(1, 1) /\ ~Flag!HasBit(2, 1) /\ Flag!HasBit(3, 1)
      /\ ~Flag!HasBit(0, 2) /\ ~Flag!HasBit(1, 2) /\ Flag!HasBit(2, 2) /\ Flag!HasBit(3, 2)
  BY <1>2, <1>3 DEF Flag!HasBit
<1>5. /\ Flag!Or(0, 1) = 1 /\ Flag!Or(1, 1) = 1 /\ Flag!Or(2, 1) = 3 /\ Flag!Or(3, 1) = 3
      /\ Flag!Or(0, 2) = 2 /\ Flag!Or(1, 2) = 3 /\ Flag!Or(2, 2) = 2 /\ Flag!Or(3, 2) = 3
  BY <1>4 DEF Flag!Or
<1>6. PoisonByte(s) = (IF PANIC_POISON \in s THEN 1 ELSE 0)
                      + (IF CANCEL_POISON \in s THEN 2 ELSE 0)
  BY DEF PoisonByte
<1>7. /\ PoisonByte(s \cup {PANIC_POISON}) = 1 + (IF CANCEL_POISON \in s THEN 2 ELSE 0)
      /\ PoisonByte(s \cup {CANCEL_POISON}) = (IF PANIC_POISON \in s THEN 1 ELSE 0) + 2
  BY <1>1 DEF PoisonByte
<1>8. s = NO_POISON <=> PANIC_POISON \notin s /\ CANCEL_POISON \notin s
  BY DEF NO_POISON, Flags
<1> QED BY <1>5, <1>6, <1>7, <1>8 DEF Flag!PANIC_POISON, Flag!CANCEL_POISON

\* Flag::done does to the byte what Done does to the set.
LEMMA DoneByte ==
  ASSUME NEW s \in SUBSET Flags, NEW guarded \in BOOLEAN, NEW now \in BOOLEAN,
         NEW cancel \in BOOLEAN
  PROVE  LET one == IF ~guarded /\ now THEN Flag!Or(PoisonByte(s), Flag!PANIC_POISON)
                                       ELSE PoisonByte(s)
         IN  PoisonByte(s \cup NewFlags(guarded, now, cancel))
               = IF cancel THEN Flag!Or(one, Flag!CANCEL_POISON) ELSE one
<1> DEFINE first == s \cup (IF ~guarded /\ now THEN {PANIC_POISON} ELSE {})
<1>1. first \in SUBSET Flags
  BY DEF Flags
<1>2. PoisonByte(first) = IF ~guarded /\ now THEN Flag!Or(PoisonByte(s), Flag!PANIC_POISON)
                                             ELSE PoisonByte(s)
  <2>1. CASE ~guarded /\ now
    BY <2>1, Byte
  <2>2. CASE ~(~guarded /\ now)
    <3>1. first = s
      BY <2>2
    <3> QED BY <2>2, <3>1
  <2> QED BY <2>1, <2>2
<1>3. s \cup NewFlags(guarded, now, cancel)
        = IF cancel THEN first \cup {CANCEL_POISON} ELSE first
  BY DEF NewFlags
<1>4. PoisonByte(first \cup {CANCEL_POISON}) = Flag!Or(PoisonByte(first), Flag!CANCEL_POISON)
  <2> HIDE DEF first
  <2> QED BY <1>1, Byte
<1> HIDE DEF first
<1>5. CASE cancel
  BY <1>2, <1>3, <1>4, <1>5
<1>6. CASE ~cancel
  BY <1>2, <1>3, <1>6
<1> QED BY <1>5, <1>6

\* Who has the flag is who has the mutex.
LEMMA OneFlagHolder ==
  ASSUME LockInv, NEW u \in Users, HasFlag(u)
  PROVE  owner = u /\ \A v \in Users : HasFlag(v) => v = u
BY DEF LockInv, LockAccounted, HasFlag

\* What PoisonFlag sees of a mutex that u has, and of one that nobody has.
Shows(u) ==
  /\ FlagHolder = u
  /\ FlagPC = Stage(u)
  /\ FlagFlags = IF Stage(u) = "error" THEN PoisonByte(failed) ELSE 0
  /\ FlagGuard = (Stage(u) = "body" /\ guardPanicking[u])

ShowsNobody == FlagHolder = NoUser /\ FlagPC = "free" /\ FlagFlags = 0 /\ FlagGuard = FALSE

LEMMA View ==
  TypeOK /\ LockInv => /\ \A u \in Users : HasFlag(u) => Shows(u)
                       /\ (\A u \in Users : ~HasFlag(u)) => ShowsNobody
<1> SUFFICES ASSUME TypeOK, LockInv
             PROVE  /\ \A u \in Users : HasFlag(u) => Shows(u)
                    /\ (\A u \in Users : ~HasFlag(u)) => ShowsNobody
  OBVIOUS
<1>1. ASSUME NEW u \in Users, HasFlag(u)  PROVE Shows(u)
  <2>1. FlagHolder = u /\ u # NoUser
    BY <1>1, NoUserAssumption, OneFlagHolder DEF FlagHolder
  <2>2. FlagPC = Stage(u)
    BY <2>1 DEF FlagPC
  <2> QED BY <2>1, <2>2 DEF Shows, FlagFlags, FlagGuard
<1>2. ASSUME \A u \in Users : ~HasFlag(u)  PROVE ShowsNobody
  <2>1. FlagHolder = NoUser
    BY <1>2 DEF TypeOK, FlagHolder
  <2>2. FlagPC = "free"
    BY <2>1 DEF FlagPC
  <2> QED BY <2>1, <2>2 DEF ShowsNobody, FlagFlags, FlagGuard
<1> QED BY <1>1, <1>2

\* The same after a step.
LEMMA ViewNext ==
  (TypeOK /\ LockInv)' => (/\ \A u \in Users : HasFlag(u) => Shows(u)
                           /\ (\A u \in Users : ~HasFlag(u)) => ShowsNobody)'
BY View, PTL

\* A step that changes nothing of what u has, for any u, cannot be seen.
LEMMA SameView ==
  ASSUME TypeOK, LockInv, TypeOK', LockInv', UNCHANGED failed,
         \A u \in Users : /\ HasFlag(u)' <=> HasFlag(u)
                          /\ HasFlag(u) => /\ Stage(u)' = Stage(u)
                                           /\ guardPanicking'[u] = guardPanicking[u]
  PROVE  UNCHANGED <<FlagHolder, FlagPC, FlagFlags, FlagGuard>>
<1>1. CASE \E u \in Users : HasFlag(u)
  <2>1. PICK u \in Users : HasFlag(u)
    BY <1>1
  <2>2. HasFlag(u)' /\ Stage(u)' = Stage(u) /\ guardPanicking'[u] = guardPanicking[u]
    BY <2>1
  <2>3. Shows(u) /\ Shows(u)'
    BY <2>1, <2>2, View, ViewNext
  <2> QED BY <2>2, <2>3 DEF Shows
<1>2. CASE \A u \in Users : ~HasFlag(u)
  <2>1. ShowsNobody /\ ShowsNobody'
    BY <1>2, View, ViewNext
  <2> QED BY <2>1 DEF ShowsNobody
<1> QED BY <1>1, <1>2

\* An acquisition is Flag::borrow.
LEMMA BorrowsFlag ==
  ASSUME TypeOK, LockInv, FlagInv, TypeOK', LockInv', NEW u \in Users,
         Resume(u) \/ TryLock(u) \/ DebugFmt(u)
  PROVE  Flag!Borrow(u)
<1>1. /\ \A v \in Users : ~Acquired(v)
      /\ \E ok, err \in {"permit", "error", "fmt"} :
           /\ clean' = [clean EXCEPT ![u] = (failed = NO_POISON)]
           /\ pc' = [pc EXCEPT ![u] = IF failed = NO_POISON THEN ok ELSE err]
           /\ <<ok, err>> \in {<<"permit", "error">>, <<"fmt", "fmt">>}
      /\ UNCHANGED <<failed, panics>>
  BY AcquireNewest
<1>2. ShowsNobody
  BY <1>1, View DEF HasFlag
<1>3. HasFlag(u)' /\ Stage(u)' = IF failed = NO_POISON THEN "ok" ELSE "error"
  <2>1. clean'[u] = (failed = NO_POISON)
    BY <1>1 DEF TypeOK
  <2>2. pc'[u] = "fmt" \/ pc'[u] = IF failed = NO_POISON THEN "permit" ELSE "error"
    BY <1>1 DEF TypeOK
  <2> QED BY <2>1, <2>2 DEF HasFlag, Acquired, Stage, InBody
<1>4. Shows(u)'
  BY <1>3, ViewNext
<1>5. /\ FlagHolder' = u
      /\ FlagPC' = IF failed = NO_POISON THEN "ok" ELSE "error"
      /\ FlagFlags' = IF failed = NO_POISON THEN 0 ELSE PoisonByte(failed)
      /\ FlagGuard' = FALSE
  BY <1>1, <1>3, <1>4 DEF Shows
<1>6. PoisonByte(failed) \in 0 .. 3 /\ (PoisonByte(failed) = 0 <=> failed = NO_POISON)
  BY Byte DEF TypeOK
<1>7. Flag!borrow = PoisonByte(failed)
  BY <1>6 DEF Flag!borrow, Flag!NO_POISON
<1>8. UNCHANGED <<PoisonByte(failed), FlagPanicking>>
  BY <1>1 DEF FlagPanicking, Panicking
<1>9. FlagPC' = IF Flag!borrow = Flag!NO_POISON THEN "ok" ELSE "error"
  BY <1>5, <1>6, <1>7 DEF Flag!NO_POISON
<1>10. FlagFlags' = Flag!borrow
  BY <1>5, <1>6, <1>7
<1> QED BY <1>1, <1>2, <1>5, <1>8, <1>9, <1>10 DEF ShowsNobody, Flag!Borrow

\* The end of an action is Flag::done.
LEMMA EndsWithDone ==
  ASSUME TypeOK, LockInv, TypeOK', LockInv', NEW u \in Users,
         BodyReturns(u) \/ BodyPanics(u) \/ FutureDropped(u)
  PROVE  \E panicked, cancel \in BOOLEAN : Flag!done(panicked, cancel)
<1> DEFINE panicked == BodyPanics(u)
           cancel   == (BodyPanics(u) /\ pc[u] = "async") \/ FutureDropped(u)
           now      == panicked \/ Panicking(u)
<1>1. /\ InBody(u) /\ pc' = [pc EXCEPT ![u] = "unlock"]
      /\ failed' = failed \cup NewFlags(guardPanicking[u], now, cancel)
      /\ panics' = IF panicked THEN [panics EXCEPT ![u] = @ + 1] ELSE panics
  <2>1. CASE BodyPanics(u)
    BY <2>1 DEF BodyPanics, FutureDropped, DropPoisoner, Done, NewFlags, TypeOK
  <2>2. CASE FutureDropped(u) /\ ~BodyPanics(u)
    BY <2>2 DEF FutureDropped, InBody, DropPoisoner, Done, NewFlags, TypeOK
  <2>3. CASE BodyReturns(u) /\ ~BodyPanics(u) /\ ~FutureDropped(u)
    BY <2>3 DEF BodyReturns, DropPoisoner, Done, NewFlags, TypeOK
  <2> QED BY <2>1, <2>2, <2>3
<1>2. panicked \in BOOLEAN /\ cancel \in BOOLEAN /\ now \in BOOLEAN
  BY DEF BodyPanics, FutureDropped, Panicking
<1> HIDE DEF panicked, cancel, now
<1>3. HasFlag(u) /\ Stage(u) = "body" /\ owner = u
  BY <1>1, OneFlagHolder DEF InBody, HasFlag, Acquired, Stage
<1>4. \A v \in Users : ~HasFlag(v)'
  BY <1>1, <1>3, OneFlagHolder DEF HasFlag, Acquired, TypeOK
<1>5. FlagHolder = u /\ FlagPC = "body" /\ FlagFlags = 0 /\ FlagGuard = guardPanicking[u]
  BY <1>3, View DEF Shows, TypeOK
<1>6. ShowsNobody'
  BY <1>4, ViewNext
<1>7. now <=> panicked \/ FlagHolder \in FlagPanicking
  BY <1>5 DEF now, FlagPanicking
<1>8. FlagPanicking' = IF panicked THEN FlagPanicking \cup {FlagHolder} ELSE FlagPanicking
  <2>1. CASE panicked
    <3>1. panics'[u] = panics[u] + 1 /\ \A v \in Users \ {u} : panics'[v] = panics[v]
      BY <1>1, <2>1 DEF TypeOK
    <3>2. panics'[u] > 0
      BY <3>1 DEF TypeOK
    <3> QED BY <1>5, <2>1, <3>1, <3>2 DEF FlagPanicking, Panicking
  <2>2. CASE ~panicked
    BY <1>1, <2>2 DEF FlagPanicking, Panicking
  <2> QED BY <2>1, <2>2
<1> DEFINE panic == ~FlagGuard /\ (panicked \/ FlagHolder \in FlagPanicking)
           one   == IF panic THEN Flag!Or(PoisonByte(failed), Flag!PANIC_POISON)
                             ELSE PoisonByte(failed)
<1>9. panic <=> ~guardPanicking[u] /\ now
  BY <1>5, <1>7
<1>10. PoisonByte(failed') = IF cancel THEN Flag!Or(one, Flag!CANCEL_POISON) ELSE one
  <2>1. failed \in SUBSET Flags /\ guardPanicking[u] \in BOOLEAN
    BY DEF TypeOK
  <2>2. one = IF ~guardPanicking[u] /\ now THEN Flag!Or(PoisonByte(failed), Flag!PANIC_POISON)
                                           ELSE PoisonByte(failed)
    BY <1>9
  <2> HIDE DEF one, panic
  <2> QED BY <1>1, <1>2, <2>1, <2>2, DoneByte
<1>11. failed' = failed \cup (IF panic THEN {"panic"} ELSE {})
                         \cup (IF cancel THEN {"cancel"} ELSE {})
  <2> HIDE DEF panic
  <2> QED BY <1>1, <1>9 DEF NewFlags, PANIC_POISON, CANCEL_POISON
<1>12. PoisonByte(failed)' = PoisonByte(failed')
  BY DEF PoisonByte
<1>13. Flag!done(panicked, cancel)
  BY <1>5, <1>6, <1>8, <1>10, <1>11, <1>12 DEF ShowsNobody, Flag!done
<1> QED BY <1>2, <1>13

\* The steps of u that PoisonFlag cannot see: they leave the flags and the panics alone,
\* and what users have of the mutex.
Unseen(u) ==
  \/ Unlock(u) \/ PerformAsync(u) \/ LockWait(u) \/ BlockingWait(u) \/ CancelLock(u)
  \/ Mutate(u) \/ IsPoisoned(u)

LEMMA UnseenStep ==
  ASSUME TypeOK, LockInv, TypeOK', LockInv', NEW u \in Users, Unseen(u)
  PROVE  UNCHANGED Flag!vars
<1>1. UNCHANGED <<failed, panics, guardPanicking>>
  BY DEF Unseen, Unlock, PerformAsync, LockWait, BlockingWait, Enqueue, CancelLock,
         Mutate, IsPoisoned, flagVars, userVars
<1>2. \A v \in Users : (HasFlag(v)' <=> HasFlag(v)) /\ (HasFlag(v) => Stage(v)' = Stage(v))
  <2>1. CASE Unlock(u)
    BY <2>1 DEF Unlock, HasFlag, Acquired, Stage, InBody, TypeOK
  <2>2. CASE PerformAsync(u)
    BY <2>2 DEF PerformAsync, HasFlag, Acquired, Stage, InBody, TypeOK
  <2>3. CASE LockWait(u) \/ BlockingWait(u) \/ CancelLock(u)
    BY <2>3 DEF LockWait, BlockingWait, Enqueue, CancelLock, HasFlag, Acquired, Stage, InBody, TypeOK
  <2>4. CASE Mutate(u) \/ IsPoisoned(u)
    <3>1. UNCHANGED <<pc, clean>>
      BY <2>4 DEF Mutate, IsPoisoned, userVars
    <3> QED BY <3>1 DEF HasFlag, Acquired, Stage, InBody
  <2> QED BY <2>1, <2>2, <2>3, <2>4 DEF Unseen
<1>3. UNCHANGED <<FlagHolder, FlagPC, FlagFlags, FlagGuard>>
  BY <1>1, <1>2, SameView
<1>4. UNCHANGED <<PoisonByte(failed), FlagPanicking>>
  BY <1>1 DEF PoisonByte, FlagPanicking, Panicking
<1> QED BY <1>1, <1>3, <1>4 DEF Flag!vars

\* Every step is a step of PoisonFlag or leaves all it sees unchanged.
LEMMA ByteStep ==
  ASSUME TypeOK, LockInv, FlagInv, TypeOK', LockInv', [Next]_vars
  PROVE  [Flag!Next]_(Flag!vars)
<1>1. ASSUME NEW u \in Users, Resume(u) \/ TryLock(u) \/ DebugFmt(u)  PROVE Flag!Next
  BY <1>1, BorrowsFlag DEF Flag!Next
<1>2. ASSUME NEW u \in Users, BodyReturns(u) \/ BodyPanics(u) \/ FutureDropped(u)
      PROVE  Flag!Next
  BY <1>2, EndsWithDone DEF Flag!Next
<1>3. ASSUME NEW u \in Users, ErrorIntoInner(u)  PROVE Flag!Next
  <2>1. /\ pc[u] = "error" /\ pc'[u] = "permit"
        /\ UNCHANGED <<failed, panics, clean, guardPanicking>>
    BY <1>3 DEF ErrorIntoInner, TypeOK, flagVars
  <2>2. HasFlag(u) /\ HasFlag(u)' /\ Stage(u) = "error" /\ Stage(u)' = "ok"
    BY <2>1 DEF HasFlag, Acquired, Stage, InBody
  <2>3. Shows(u) /\ Shows(u)'
    BY <2>2, View, ViewNext
  <2>4. UNCHANGED <<PoisonByte(failed), FlagPanicking>>
    BY <2>1 DEF PoisonByte, FlagPanicking, Panicking
  <2>5. Flag!into_inner
    BY <2>1, <2>2, <2>3, <2>4 DEF Shows, Flag!into_inner, Flag!NO_POISON
  <2> QED BY <2>5 DEF Flag!Next
<1>4. ASSUME NEW u \in Users, DropUnused(u)  PROVE Flag!Next
  <2>1. /\ pc[u] \in {"permit", "error", "fmt", "pending"} /\ pc' = [pc EXCEPT ![u] = "unlock"]
        /\ UNCHANGED <<failed, panics, guardPanicking>>
    BY <1>4 DEF DropUnused, flagVars
  <2>2. HasFlag(u) /\ Stage(u) \in {"ok", "error"}
    BY <2>1 DEF HasFlag, Acquired, Stage, InBody
  <2>3. \A v \in Users : ~HasFlag(v)'
    BY <2>1, <2>2, OneFlagHolder DEF HasFlag, Acquired, TypeOK
  <2>4. Shows(u) /\ ShowsNobody'
    BY <2>2, <2>3, View, ViewNext
  <2>5. UNCHANGED <<PoisonByte(failed), FlagPanicking>>
    BY <2>1 DEF PoisonByte, FlagPanicking, Panicking
  <2>6. Flag!Release
    BY <2>1, <2>2, <2>4, <2>5 DEF Shows, ShowsNobody, Flag!Release, Flag!NO_POISON
  <2> QED BY <2>6 DEF Flag!Next
<1>5. ASSUME NEW u \in Users, Perform(u) \/ FirstPoll(u)  PROVE Flag!Next
  <2>1. /\ pc[u] \in {"permit", "pending"} /\ pc'[u] \in {"sync", "async"}
        /\ guardPanicking'[u] = Panicking(u) /\ UNCHANGED <<failed, panics, clean>>
    BY <1>5 DEF Perform, FirstPoll, StartBody, TypeOK, flagVars
  <2>2. HasFlag(u) /\ HasFlag(u)' /\ Stage(u) = "ok" /\ Stage(u)' = "body"
    BY <2>1 DEF HasFlag, Acquired, Stage, InBody
  <2>3. Shows(u) /\ Shows(u)'
    BY <2>2, View, ViewNext
  <2>4. UNCHANGED <<PoisonByte(failed), FlagPanicking>>
    BY <2>1 DEF PoisonByte, FlagPanicking, Panicking
  <2>5. FlagGuard' = (FlagHolder \in FlagPanicking)
    <3>1. FlagHolder = u /\ FlagGuard' = (TRUE /\ guardPanicking'[u])
      BY <2>2, <2>3 DEF Shows
    <3>2. FlagGuard' = (TRUE /\ (panics[u] > 0))
      BY <2>1, <3>1 DEF Panicking
    <3>3. u \in FlagPanicking <=> panics[u] > 0
      BY DEF FlagPanicking, Panicking
    <3>4. (TRUE /\ (panics[u] > 0)) = (u \in FlagPanicking)
      BY <3>3, SMT
    <3> HIDE DEF Panicking, FlagPanicking
    <3> QED BY <3>1, <3>2, <3>4
  <2>6. Flag!guard_assuming_no_poison
    BY <2>1, <2>2, <2>3, <2>4, <2>5 DEF Shows, Flag!guard_assuming_no_poison
  <2> QED BY <2>6 DEF Flag!Next
<1>6. ASSUME NEW u \in Users, UserPanics(u) \/ CatchUnwind(u)  PROVE Flag!Next
  <2>1. UNCHANGED <<failed, pc, clean, guardPanicking>>
    BY <1>6 DEF UserPanics, CatchUnwind, flagVars
  <2>2. UNCHANGED <<FlagHolder, FlagPC, FlagFlags, FlagGuard>>
    <3>1. \A v \in Users : (HasFlag(v)' <=> HasFlag(v)) /\ Stage(v)' = Stage(v)
      BY <2>1 DEF HasFlag, Acquired, Stage, InBody
    <3> QED BY <2>1, <3>1, SameView
  <2>3. FlagPanicking' \in {FlagPanicking \cup {u}, FlagPanicking \ {u}}
    <3>1. \A v \in Users \ {u} : panics'[v] = panics[v]
      BY <1>6 DEF UserPanics, CatchUnwind, TypeOK
    <3>2. \A v \in Users \ {u} : v \in FlagPanicking' <=> v \in FlagPanicking
      BY <3>1 DEF FlagPanicking, Panicking
    <3>3. FlagPanicking \subseteq Users /\ FlagPanicking' \subseteq Users
      BY DEF FlagPanicking
    <3>4. CASE u \in FlagPanicking'
      <4>1. FlagPanicking' = FlagPanicking \cup {u}
        BY <3>2, <3>3, <3>4
      <4> QED BY <4>1
    <3>5. CASE u \notin FlagPanicking'
      <4>1. FlagPanicking' = FlagPanicking \ {u}
        BY <3>2, <3>3, <3>5
      <4> QED BY <4>1
    <3> QED BY <3>4, <3>5
  <2>4. PoisonByte(failed)' = PoisonByte(failed)
    BY <2>1 DEF PoisonByte
  <2>5. Flag!Panic(u)
    BY <2>1, <2>2, <2>3, <2>4 DEF Flag!Panic
  <2> QED BY <2>5 DEF Flag!Next
<1>7. CASE GetMut \/ IntoInner \/ UNCHANGED vars
  <2>1. UNCHANGED <<failed, pc, clean, guardPanicking, panics>>
    BY <1>7 DEF GetMut, IntoInner, vars, flagVars, userVars
  <2>2. UNCHANGED <<FlagHolder, FlagPC, FlagFlags, FlagGuard>>
    <3>1. \A v \in Users : (HasFlag(v)' <=> HasFlag(v)) /\ Stage(v)' = Stage(v)
      BY <2>1 DEF HasFlag, Acquired, Stage, InBody
    <3> QED BY <2>1, <3>1, SameView
  <2>3. UNCHANGED <<PoisonByte(failed), FlagPanicking>>
    BY <2>1 DEF PoisonByte, FlagPanicking, Panicking
  <2> QED BY <2>1, <2>2, <2>3 DEF Flag!vars
<1> QED BY <1>1, <1>2, <1>3, <1>4, <1>5, <1>6, <1>7, UnseenStep
        DEF Next, UserNext, Finish, Unseen

\* With its queue, its futures and its Relaxed loads, RobustMutex deals with the byte of
\* its flag as PoisonFlag says, whatever the depth of nested panics: what PoisonFlag
\* shows of the byte and of the errors made of it (poison.rs) is true of the mutex.
THEOREM ImplementsFlag == Spec => ImplementsPoisonFlag
<1> DEFINE IInv == TypeOK /\ LockInv /\ FlagInv
<1>1. Init => IInv
  BY InitInv
<1>2. IInv /\ [Next]_vars => IInv'
  BY TypeStep, LockStep, FlagStep
<1>3. Init => Flag!Init
  <2> SUFFICES ASSUME Init PROVE Flag!Init
    OBVIOUS
  <2>1. ShowsNobody
    BY InitInv, View DEF Init, HasFlag, Acquired
  <2>2. failed = {} /\ PoisonByte(failed) = 0
    BY Byte DEF Init, NO_POISON
  <2>3. FlagPanicking = {}
    BY DEF Init, FlagPanicking, Panicking
  <2> QED BY <2>1, <2>2, <2>3 DEF ShowsNobody, Flag!Init, Flag!NO_POISON
<1>4. IInv /\ IInv' /\ [Next]_vars => [Flag!Next]_(Flag!vars)
  BY ByteStep
<1> QED BY <1>1, <1>2, <1>3, <1>4, PTL DEF Spec, ImplementsPoisonFlag, Flag!Spec

=============================================================================
