------------------------------- MODULE JoinProofs -------------------------------
(***************************************************************************)
(* Proofs about JoinThenTry, for any number of branches.                   *)
(***************************************************************************)
EXTENDS JoinProps, TLAPS

-----------------------------------------------------------------------------
(***************************************************************************)
(* Types.                                                                  *)
(***************************************************************************)

\* The outcomes and errors are all different.
LEMMA Distinct ==
  /\ Running # Ok /\ Running # Dropped /\ Ok # Dropped
  /\ \A i : Error(i) # Running /\ Error(i) # Ok /\ Error(i) # Dropped
  /\ Panicked # Running /\ Panicked # Dropped
BY DEF Running, Ok, Dropped, Panicked, Error

\* The branches are numbered.
LEMMA BranchesType ==
  ASSUME TypeOK
  PROVE  /\ COUNT \in 1 .. MaxBranches
         /\ Branches = 1 .. COUNT
         /\ futures \in [Branches -> FutureStates]
<1>1. PICK n \in 1 .. MaxBranches : futures \in [1 .. n -> FutureStates]
  BY DEF TypeOK
<1>2. Len(futures) = n /\ DOMAIN futures = 1 .. n
  BY <1>1, MaxBranchesAssumption
<1> QED BY <1>1, <1>2 DEF COUNT, Branches

\* A step that keeps the branches and what is known of them.
LEMMA SameBranches ==
  ASSUME TypeOK, futures' \in [Branches -> FutureStates]
  PROVE  /\ COUNT' = COUNT /\ Branches' = Branches
         /\ \E n \in 1 .. MaxBranches : futures' \in [1 .. n -> FutureStates]
<1>1. Branches = 1 .. COUNT /\ COUNT \in 1 .. MaxBranches /\ COUNT \in Nat
  BY BranchesType, MaxBranchesAssumption
<1>2. Len(futures') = COUNT /\ DOMAIN futures' = Branches
  BY <1>1
<1> QED BY <1>1, <1>2 DEF COUNT, Branches

\* A poll of a future that ends, or does not.
LEMMA MaybeType ==
  ASSUME TypeOK, NEW i \in Branches, MaybePending(i) \/ MaybeReady(i)
  PROVE  futures' \in [Branches -> FutureStates]
BY BranchesType DEF MaybePending, MaybeReady, FutureStates

LEMMA InitType == Init => TypeOK
<1> SUFFICES ASSUME Init PROVE TypeOK
  OBVIOUS
<1>1. PICK n \in 1 .. MaxBranches : futures = [i \in 1 .. n |-> "fresh"]
  BY DEF Init
<1>2. futures \in [1 .. n -> FutureStates] /\ Len(futures) = n /\ DOMAIN futures = 1 .. n
      /\ n \in Nat \ {0}
  BY <1>1, MaxBranchesAssumption DEF FutureStates
<1>3. COUNT = n /\ Branches = 1 .. n
  BY <1>2 DEF COUNT, Branches
<1>4. /\ skip_next_time \in 0 .. COUNT - 1 /\ skip \in 0 .. COUNT - 1
      /\ to_run \in 0 .. COUNT /\ branch \in Branches
  BY <1>2, <1>3 DEF Init
<1>5. polls \in [Branches -> Nat]
  BY DEF Init
<1> QED BY <1>2, <1>4, <1>5 DEF Init, TypeOK

LEMMA TypeStep == TypeOK /\ [Next]_vars => TypeOK'
<1> SUFFICES ASSUME TypeOK, [Next]_vars PROVE TypeOK'
  OBVIOUS
<1> USE DEF loopVars
<1>0. COUNT \in Nat \ {0} /\ Branches = 1 .. COUNT /\ futures \in [Branches -> FutureStates]
  BY BranchesType, MaxBranchesAssumption
<1>1. CASE StartPoll
  <2>1. futures' = futures
    BY <1>1 DEF StartPoll, SetUp
  <2>2. COUNT' = COUNT /\ Branches' = Branches
    BY <2>1 DEF COUNT, Branches
  <2>3. /\ skip_next_time' \in 0 .. COUNT - 1 /\ skip' \in 0 .. COUNT - 1
        /\ to_run' \in 0 .. COUNT /\ branch' \in Branches
    BY <1>0, <1>1 DEF StartPoll, SetUp, Rotated, TypeOK
  <2>4. polls' \in [Branches -> Nat]
    BY <1>1 DEF StartPoll, SetUp
  <2> QED BY <1>1, <2>1, <2>2, <2>3, <2>4 DEF StartPoll, SetUp, Wake, TypeOK
<1>2. CASE SkipBranch
  <2>1. futures' = futures /\ COUNT' = COUNT /\ Branches' = Branches
    BY <1>2 DEF SkipBranch, COUNT, Branches
  <2>2. skip' \in 0 .. COUNT - 1 /\ branch' \in Branches
    BY <1>0, <1>2 DEF SkipBranch, NextBranch, TypeOK
  <2> QED BY <1>2, <2>1, <2>2 DEF SkipBranch, TypeOK
<1>3. ASSUME Polling, futures' \in [Branches -> FutureStates],
             {is_pending', spent', woken'} \subseteq BOOLEAN
      PROVE  TypeOK'
  <2>1. /\ COUNT' = COUNT /\ Branches' = Branches
        /\ \E n \in 1 .. MaxBranches : futures' \in [1 .. n -> FutureStates]
    BY <1>3, SameBranches
  <2>2. to_run' \in 0 .. COUNT /\ branch' \in Branches
    BY <1>0, <1>3 DEF Polling, NextBranch, TypeOK
  <2>3. polls' \in [Branches -> Nat]
    BY <1>3 DEF Polling, TypeOK
  <2>4. UNCHANGED <<skip_next_time, skip, hungry, pc, outcome>>
    BY <1>3 DEF Polling
  <2> QED BY <1>3, <2>1, <2>2, <2>3, <2>4 DEF TypeOK
<1>4. CASE OutOfBudget
  <2>1. futures' \in [Branches -> FutureStates]
    BY <1>0, <1>4 DEF OutOfBudget, FutureStates
  <2> QED BY <1>3, <1>4, <2>1 DEF OutOfBudget
<1>5. CASE BranchPending \/ BranchReady
  <2>1. futures' \in [Branches -> FutureStates]
    BY <1>5, MaybeType DEF BranchPending, BranchReady, TypeOK
  <2> QED BY <1>3, <1>5, <2>1 DEF BranchPending, BranchReady, TypeOK
<1>6. CASE BreakPending \/ BreakReady
  <2>1. futures' = futures /\ COUNT' = COUNT /\ Branches' = Branches
    BY <1>6 DEF BreakPending, BreakReady, Break, COUNT, Branches
  <2>2. branch' \in Branches
    BY <1>0, <1>6 DEF BreakPending, BreakReady, TypeOK
  <2> QED BY <1>6, <2>1, <2>2 DEF BreakPending, BreakReady, Break, TypeOK
<1>7. ASSUME NEW i \in Branches, Notify(i)  PROVE TypeOK'
  <2>1. futures' \in [Branches -> FutureStates]
    BY <1>0, <1>7 DEF Notify, NotifyTask, FutureStates
  <2>2. /\ COUNT' = COUNT /\ Branches' = Branches
        /\ \E n \in 1 .. MaxBranches : futures' \in [1 .. n -> FutureStates]
    BY <2>1, SameBranches
  <2> QED BY <1>7, <2>2 DEF Notify, NotifyTask, TypeOK
<1>8. CASE Drop
  <2>1. futures' \in [Branches -> FutureStates]
    BY <1>0, <1>8 DEF Drop, DropFutures, FutureStates, Branches
  <2>2. /\ COUNT' = COUNT /\ Branches' = Branches
        /\ \E n \in 1 .. MaxBranches : futures' \in [1 .. n -> FutureStates]
    BY <2>1, SameBranches
  <2> QED BY <1>8, <2>2 DEF Drop, Abandon, TypeOK
<1>9. CASE UNCHANGED vars
  <2>1. futures' = futures /\ COUNT' = COUNT /\ Branches' = Branches
    BY <1>9 DEF vars, COUNT, Branches
  <2> QED BY <1>9, <2>1 DEF vars, TypeOK
<1>10. CASE TakeOk \/ TakeErr
  <2>1. futures' = futures /\ COUNT' = COUNT /\ Branches' = Branches
    BY <1>10 DEF TakeOk, TakeErr, Taking, COUNT, Branches
  <2>2. branch \in 1 .. COUNT
    BY <1>0 DEF TypeOK
  <2>3. branch' \in Branches
    BY <1>0, <1>10, <2>2 DEF TakeOk, TakeErr
  <2>4. Error(branch) \in Errors
    BY <2>2, BranchesType, MaxBranchesAssumption DEF Errors
  <2>5. outcome' \in {Running, Ok, Dropped, Panicked} \cup Errors
    BY <1>10, <2>4 DEF TakeOk, TakeErr, TypeOK
  <2> QED BY <1>10, <2>1, <2>3, <2>5 DEF TakeOk, TakeErr, Taking, TypeOK
<1> QED BY <1>1, <1>2, <1>4, <1>5, <1>6, <1>7, <1>8, <1>9, <1>10 DEF Next, Poll

\* Every variable keeps its type.
THEOREM TypeCorrect == Spec => []TypeOK
<1>1. Init => TypeOK
  BY InitType
<1>2. TypeOK /\ [Next]_vars => TypeOK'
  BY TypeStep
<1> QED BY <1>1, <1>2, PTL DEF Spec

-----------------------------------------------------------------------------
(***************************************************************************)
(* The rotation.                                                           *)
(***************************************************************************)

\* The loop skips up to the start and from there goes round once, with
\* COUNT - to_run branches polled.
LoopInv ==
  pc = "loop" =>
    /\ skip > 0 => to_run = COUNT /\ branch = Start - skip + 1
    /\ skip = 0 /\ to_run > 0 => Turn(branch, Start, COUNT) = COUNT - to_run
    /\ \A i \in Branches :
         polls[i] = IF Turn(i, Start, COUNT) < COUNT - to_run THEN 1 ELSE 0

\* The branch after i has the next turn, and nobody else has that of i.
LEMMA NextTurn ==
  ASSUME NEW count \in Nat \ {0}, NEW start \in 0 .. count - 1, NEW i \in 1 .. count
  PROVE  /\ Turn(i, start, count) \in 0 .. count - 1
         /\ Turn(i, start, count) < count - 1
              => Turn(IF i = count THEN 1 ELSE i + 1, start, count) = Turn(i, start, count) + 1
         /\ \A j \in 1 .. count :
              Turn(j, start, count) = Turn(i, start, count) => j = i
BY DEF Turn

LEMMA LoopStep == TypeOK /\ LoopInv /\ [Next]_vars => LoopInv'
<1> SUFFICES ASSUME TypeOK, LoopInv, [Next]_vars PROVE LoopInv'
  OBVIOUS
<1> USE DEF LoopInv, loopVars
<1>0. /\ COUNT \in Nat \ {0} /\ Branches = 1 .. COUNT /\ futures \in [Branches -> FutureStates]
      /\ skip_next_time \in 0 .. COUNT - 1 /\ skip \in 0 .. COUNT - 1 /\ to_run \in 0 .. COUNT
      /\ branch \in 1 .. COUNT /\ Start \in 0 .. COUNT - 1
  BY BranchesType, MaxBranchesAssumption DEF TypeOK, Start
<1>1. CASE StartPoll
  <2>1. /\ to_run' = COUNT /\ skip' = skip_next_time /\ skip_next_time' = Rotated /\ branch' = 1
        /\ polls' = [i \in Branches |-> 0] /\ futures' = futures
    BY <1>1 DEF StartPoll, SetUp
  <2>2. COUNT' = COUNT /\ Branches' = Branches
    BY <2>1 DEF COUNT, Branches
  <2>3. Start' = skip_next_time
    BY <1>0, <2>1, <2>2 DEF Start, Rotated
  <2>4. skip' = 0 => Turn(branch', Start', COUNT') = 0
    BY <2>1, <2>2, <2>3 DEF Turn
  <2>5. \A i \in Branches : Turn(i, Start', COUNT) \in 0 .. COUNT - 1
    BY <1>0, <2>3, NextTurn
  <2> QED BY <1>0, <2>1, <2>2, <2>3, <2>4, <2>5
<1>2. CASE SkipBranch
  <2>1. /\ pc = "loop" /\ skip > 0 /\ skip' = skip - 1
        /\ branch' = (IF branch = COUNT THEN 1 ELSE branch + 1)
        /\ UNCHANGED <<futures, skip_next_time, to_run, polls>>
    BY <1>2 DEF SkipBranch, NextBranch
  <2>2. COUNT' = COUNT /\ Branches' = Branches /\ Start' = Start
    BY <2>1 DEF COUNT, Branches, Start
  <2>3. to_run = COUNT /\ branch = Start - skip + 1
    BY <2>1
  <2>4. branch' = Start - skip' + 1
    BY <1>0, <2>1, <2>3
  <2>5. skip' = 0 => Turn(branch', Start, COUNT) = 0
    BY <1>0, <2>4 DEF Turn
  <2> QED BY <1>0, <2>1, <2>2, <2>3, <2>4, <2>5
<1>3. ASSUME Polling, futures' \in [Branches -> FutureStates]  PROVE LoopInv'
  <2>1. /\ pc = "loop" /\ skip = 0 /\ to_run > 0 /\ to_run' = to_run - 1
        /\ polls' = [polls EXCEPT ![branch] = @ + 1]
        /\ branch' = (IF branch = COUNT THEN 1 ELSE branch + 1)
        /\ UNCHANGED <<skip_next_time, skip>>
    BY <1>3 DEF Polling, NextBranch
  <2>2. COUNT' = COUNT /\ Branches' = Branches
    BY <1>3, SameBranches
  <2>3. Start' = Start
    BY <2>1, <2>2 DEF Start
  <2>4. Turn(branch, Start, COUNT) = COUNT - to_run
    BY <2>1
  <2>5. to_run' > 0 => Turn(branch', Start, COUNT) = COUNT - to_run'
    <3>1. Turn(branch, Start, COUNT) < COUNT - 1
            => Turn(branch', Start, COUNT) = Turn(branch, Start, COUNT) + 1
      <4>1. Turn(branch, Start, COUNT) < COUNT - 1
              => Turn(IF branch = COUNT THEN 1 ELSE branch + 1, Start, COUNT)
                   = Turn(branch, Start, COUNT) + 1
        BY <1>0, NextTurn
      <4> QED BY <2>1, <4>1
    <3>2. to_run' > 0 => Turn(branch, Start, COUNT) < COUNT - 1
      BY <1>0, <2>1, <2>4
    <3>3. COUNT - to_run' = COUNT - to_run + 1
      BY <1>0, <2>1
    <3> QED BY <2>4, <3>1, <3>2, <3>3
  <2>6. ASSUME NEW i \in Branches
        PROVE  polls'[i] = IF Turn(i, Start, COUNT) < COUNT - to_run' THEN 1 ELSE 0
    <3>1. polls[i] = IF Turn(i, Start, COUNT) < COUNT - to_run THEN 1 ELSE 0
      BY <2>1
    <3>2. Turn(i, Start, COUNT) \in 0 .. COUNT - 1
          /\ (Turn(i, Start, COUNT) = Turn(branch, Start, COUNT) => i = branch)
      BY <1>0, NextTurn
    <3>3. CASE i = branch
      <4>1. polls'[i] = 1
        BY <1>0, <2>1, <2>4, <3>1, <3>3 DEF TypeOK
      <4> QED BY <1>0, <2>1, <2>4, <3>3, <4>1
    <3>4. CASE i # branch
      <4>1. polls'[i] = polls[i] /\ Turn(i, Start, COUNT) # COUNT - to_run
        BY <2>1, <2>4, <3>2, <3>4 DEF TypeOK
      <4> QED BY <1>0, <2>1, <3>1, <3>2, <4>1
    <3> QED BY <3>3, <3>4
  <2> QED BY <2>1, <2>2, <2>3, <2>5, <2>6
<1>4. CASE OutOfBudget
  BY <1>0, <1>3, <1>4 DEF OutOfBudget, FutureStates
<1>5. CASE BranchPending \/ BranchReady
  <2>1. futures' \in [Branches -> FutureStates]
    BY <1>0, <1>5, MaybeType DEF BranchPending, BranchReady
  <2> QED BY <1>3, <1>5, <2>1 DEF BranchPending, BranchReady
<1>6. CASE BreakPending \/ BreakReady \/ TakeOk \/ TakeErr
  <2>1. pc' # "loop"
    BY <1>6 DEF BreakPending, BreakReady, TakeOk, TakeErr, Taking
  <2> QED BY <2>1
<1>7. ASSUME NEW i \in Branches, Notify(i)  PROVE LoopInv'
  <2>1. futures' \in [Branches -> FutureStates] /\ UNCHANGED <<loopVars, polls, pc>>
    BY <1>0, <1>7 DEF Notify, NotifyTask, FutureStates
  <2>2. COUNT' = COUNT /\ Branches' = Branches /\ Start' = Start
    BY <2>1, SameBranches DEF Start
  <2> QED BY <2>1, <2>2
<1>8. CASE Drop
  BY <1>8 DEF Drop, Abandon
<1>9. CASE UNCHANGED vars
  BY <1>9 DEF vars, Start, COUNT, Branches
<1> QED BY <1>1, <1>2, <1>4, <1>5, <1>6, <1>7, <1>8, <1>9 DEF Next, Poll

LEMMA LoopPolls == TypeOK /\ LoopInv => PolledOnce
<1> SUFFICES ASSUME TypeOK, LoopInv, pc = "loop", NEW i \in Branches
             PROVE  polls[i] <= 1 /\ (skip = 0 /\ to_run = 0 => polls[i] = 1)
  BY DEF PolledOnce
<1>1. /\ COUNT \in Nat \ {0} /\ i \in 1 .. COUNT /\ Start \in 0 .. COUNT - 1
  BY BranchesType, MaxBranchesAssumption DEF TypeOK, Start
<1>2. Turn(i, Start, COUNT) \in 0 .. COUNT - 1
  BY <1>1, NextTurn
<1>3. polls[i] = IF Turn(i, Start, COUNT) < COUNT - to_run THEN 1 ELSE 0
  BY DEF LoopInv
<1> QED BY <1>1, <1>2, <1>3

LEMMA LoopInvariant == Spec => [](TypeOK /\ LoopInv)
<1>1. Init => TypeOK /\ LoopInv
  BY InitType DEF Init, LoopInv
<1>2. TypeOK /\ LoopInv /\ [Next]_vars => TypeOK' /\ LoopInv'
  BY TypeStep, LoopStep
<1> QED BY <1>1, <1>2, PTL DEF Spec

\* Wherever the rotation starts, a poll polls every future, and none twice.
THEOREM PolledOnceCorrect == Spec => []PolledOnce
BY LoopInvariant, LoopPolls, PTL

\* The budget is whole until the first future of the poll was polled.
BudgetInv == pc = "loop" /\ to_run = COUNT => ~spent

LEMMA BudgetStep == TypeOK /\ LoopInv /\ BudgetInv /\ [Next]_vars => BudgetInv'
<1> SUFFICES ASSUME TypeOK, LoopInv, BudgetInv, [Next]_vars PROVE BudgetInv'
  OBVIOUS
<1> USE DEF BudgetInv, loopVars
<1>0. COUNT \in Nat \ {0} /\ futures \in [Branches -> FutureStates] /\ to_run \in 0 .. COUNT
  BY BranchesType, MaxBranchesAssumption DEF TypeOK
<1>1. CASE StartPoll
  BY <1>1 DEF StartPoll, SetUp
<1>2. ASSUME Polling, futures' \in [Branches -> FutureStates]  PROVE BudgetInv'
  <2>1. to_run' < COUNT /\ COUNT' = COUNT
    BY <1>0, <1>2, SameBranches DEF Polling
  <2> QED BY <1>0, <2>1
<1>3. CASE OutOfBudget \/ BranchPending \/ BranchReady
  <2>1. futures' \in [Branches -> FutureStates] /\ Polling
    BY <1>0, <1>3, MaybeType DEF OutOfBudget, BranchPending, BranchReady, FutureStates, TypeOK
  <2> QED BY <1>2, <2>1
<1>4. CASE SkipBranch \/ UNCHANGED vars
  BY <1>4 DEF SkipBranch, COUNT, vars
<1>5. CASE BreakPending \/ BreakReady \/ TakeOk \/ TakeErr \/ Drop
  <2>1. pc' # "loop"
    BY <1>5 DEF BreakPending, BreakReady, TakeOk, TakeErr, Taking, Drop, Abandon
  <2> QED BY <2>1
<1>6. ASSUME NEW i \in Branches, Notify(i)  PROVE BudgetInv'
  <2>1. futures' \in [Branches -> FutureStates] /\ UNCHANGED <<to_run, spent, pc>>
    BY <1>0, <1>6 DEF Notify, NotifyTask, FutureStates
  <2> QED BY <2>1, SameBranches
<1> QED BY <1>1, <1>3, <1>4, <1>5, <1>6 DEF Next, Poll

\* With the next poll every branch but the first moves up by one.
LEMMA PlaceMoves ==
  ASSUME TypeOK, StartPoll, NEW i \in Branches
  PROVE  Place(i)' = IF Place(i) = 0 THEN COUNT - 1 ELSE Place(i) - 1
<1>1. /\ COUNT \in Nat \ {0} /\ i \in 1 .. COUNT /\ skip_next_time \in 0 .. COUNT - 1
  BY BranchesType, MaxBranchesAssumption DEF TypeOK
<1>2. skip_next_time' = Rotated /\ COUNT' = COUNT
  BY DEF StartPoll, SetUp, COUNT
<1>3. Start' = skip_next_time
  BY <1>1, <1>2 DEF Start, Rotated
<1>4. Place(i)' = Turn(i, skip_next_time, COUNT)
  BY <1>2, <1>3 DEF Place
<1> QED BY <1>1, <1>4 DEF Place, Start, Turn

\* A future is denied the budget only behind another, and each time it is, it is
\* one nearer to the front by the next poll: for any number of branches it has its
\* share after at most that many polls.
THEOREM BudgetCorrect == Spec => BudgetGoesRound
<1>1. ASSUME TypeOK, LoopInv, BudgetInv, NEW i \in Branches, OutOfBudget,
             branch = i, i \notin hungry
      PROVE  Place(i) > 0
  <2>1. pc = "loop" /\ skip = 0 /\ to_run > 0 /\ spent
    BY <1>1 DEF OutOfBudget, Polling
  <2>2. to_run # COUNT /\ Place(i) = COUNT - to_run
    BY <1>1, <2>1 DEF BudgetInv, LoopInv, Place
  <2>3. COUNT \in Nat /\ to_run \in 0 .. COUNT
    BY BranchesType, MaxBranchesAssumption, <1>1 DEF TypeOK
  <2> QED BY <2>2, <2>3
<1>2. ASSUME TypeOK, [Next]_vars, NEW i \in Branches, pc = "asleep", pc' = "loop", Place(i) # 0
      PROVE  Place(i)' < Place(i)
  <2>1. StartPoll
    BY <1>2 DEF Next, Poll, SkipBranch, OutOfBudget, BranchPending, BranchReady, Polling,
         BreakPending, BreakReady, TakeOk, TakeErr, Taking, Notify, Drop, Abandon, vars
  <2>2. Place(i) \in Nat
    <3>1. COUNT \in Nat \ {0} /\ i \in 1 .. COUNT /\ Start \in 0 .. COUNT - 1
      BY <1>2, BranchesType, MaxBranchesAssumption DEF TypeOK, Start
    <3> QED BY <3>1, NextTurn DEF Place
  <2> QED BY <1>2, <2>1, <2>2, PlaceMoves
<1>3. ASSUME TypeOK, LoopInv, BudgetInv, [Next]_vars
      PROVE  [\A i \in Branches :
                /\ OutOfBudget /\ branch = i /\ i \notin hungry => Place(i) > 0
                /\ pc = "asleep" /\ pc' = "loop" /\ Place(i) # 0 => Place(i)' < Place(i)]_vars
  BY <1>1, <1>2, <1>3
<1>4. Init => BudgetInv
  BY DEF Init, BudgetInv
<1> QED BY <1>3, <1>4, LoopInvariant, BudgetStep, PTL DEF Spec, BudgetGoesRound

-----------------------------------------------------------------------------
(***************************************************************************)
(* The futures.                                                            *)
(***************************************************************************)

\* What a poll knows of the futures it has polled: without is_pending they have
\* ended, and without a wakeup since, those that have not are waiting.  When outputs
\* are taken all futures have one, and those taken before this one were Ok.
DriveInv ==
  /\ outcome = Running =>
       \A i \in Branches : futures[i] \in {"fresh", "waiting", "notified"} \cup Results
  /\ pc = "loop" =>
       /\ outcome = Running
       /\ \A i \in Branches : polls[i] # 0 =>
            /\ ~is_pending => futures[i] \in Results
            /\ ~woken => futures[i] \in {"waiting"} \cup Results
       /\ is_pending /\ ~woken => \E i \in Branches : futures[i] = "waiting"
  /\ pc = "take" =>
       /\ outcome = Running
       /\ \A i \in Branches : futures[i] \in Results
       /\ \A i \in Branches : i < branch => futures[i] = "ok"
  /\ WakeupComing

LEMMA DriveInit == Init => DriveInv
BY DEF Init, DriveInv, WakeupComing, Branches

\* A step of the loop that polls a future changes that future only.
LEMMA PollingStep ==
  ASSUME TypeOK, Polling, OutOfBudget \/ BranchPending \/ BranchReady
  PROVE  /\ pc = "loop" /\ pc' = "loop" /\ outcome' = outcome
         /\ Branches' = Branches /\ branch \in Branches
         /\ futures' \in [Branches -> FutureStates]
         /\ \A i \in Branches : i # branch => futures'[i] = futures[i] /\ polls'[i] = polls[i]
<1>1. branch \in Branches /\ futures \in [Branches -> FutureStates] /\ polls \in [Branches -> Nat]
  BY BranchesType DEF TypeOK
<1>2. futures' \in [Branches -> FutureStates]
  BY <1>1, MaybeType DEF OutOfBudget, BranchPending, BranchReady, FutureStates
<1>3. \A i \in Branches : i # branch => futures'[i] = futures[i]
  BY <1>1 DEF OutOfBudget, BranchPending, BranchReady, MaybePending, MaybeReady
<1> QED BY <1>1, <1>2, <1>3, SameBranches DEF Polling

LEMMA DriveStep == TypeOK /\ LoopInv /\ DriveInv /\ [Next]_vars => DriveInv'
<1> SUFFICES ASSUME TypeOK, LoopInv, DriveInv, [Next]_vars PROVE DriveInv'
  OBVIOUS
<1> USE Distinct DEF DriveInv, loopVars
<1>0. futures \in [Branches -> FutureStates] /\ polls \in [Branches -> Nat] /\ PolledOnce
  BY BranchesType, LoopPolls DEF TypeOK
<1>1. CASE StartPoll
  BY <1>1 DEF StartPoll, SetUp, Wake, WakeupComing, Branches
<1>2. CASE SkipBranch
  BY <1>2 DEF SkipBranch, WakeupComing, Branches
<1>3. CASE OutOfBudget
  <2>1. /\ pc = "loop" /\ pc' = "loop" /\ outcome' = outcome
        /\ Branches' = Branches /\ branch \in Branches
        /\ futures' \in [Branches -> FutureStates]
        /\ \A i \in Branches : i # branch => futures'[i] = futures[i] /\ polls'[i] = polls[i]
    BY <1>3, PollingStep DEF OutOfBudget
  <2>2. futures'[branch] = "notified" /\ woken' = TRUE /\ is_pending' = TRUE
    BY <1>0, <1>3, <2>1 DEF OutOfBudget
  <2> QED BY <2>1, <2>2 DEF WakeupComing
<1>4. CASE BranchPending
  <2>1. /\ pc = "loop" /\ pc' = "loop" /\ outcome' = outcome
        /\ Branches' = Branches /\ branch \in Branches
        /\ futures' \in [Branches -> FutureStates]
        /\ \A i \in Branches : i # branch => futures'[i] = futures[i] /\ polls'[i] = polls[i]
    BY <1>4, PollingStep DEF BranchPending
  <2>2. futures'[branch] = "waiting" /\ woken' = woken /\ is_pending' = TRUE
    BY <1>0, <1>4, <2>1 DEF BranchPending, MaybePending
  <2> QED BY <2>1, <2>2 DEF WakeupComing
<1>5. CASE BranchReady
  <2>1. /\ pc = "loop" /\ pc' = "loop" /\ outcome' = outcome
        /\ Branches' = Branches /\ branch \in Branches
        /\ futures' \in [Branches -> FutureStates]
        /\ \A i \in Branches : i # branch => futures'[i] = futures[i] /\ polls'[i] = polls[i]
    BY <1>5, PollingStep DEF BranchReady
  <2>2. /\ futures'[branch] \in Results /\ futures[branch] # "waiting"
        /\ woken' = woken /\ is_pending' = is_pending
    BY <1>0, <1>5, <2>1 DEF BranchReady, MaybeReady, Results
  <2> QED BY <2>1, <2>2 DEF WakeupComing
<1>6. CASE BreakPending
  <2>1. /\ pc = "loop" /\ skip = 0 /\ to_run = 0 /\ is_pending
        /\ pc' = "asleep" /\ UNCHANGED <<futures, polls, woken, outcome>>
    BY <1>6 DEF BreakPending, Break
  <2>2. \A i \in Branches : polls[i] # 0
    BY <1>0, <2>1 DEF PolledOnce
  <2>3. ~woken => InFlight # {} /\ Queued = {}
    BY <2>1, <2>2 DEF InFlight, Queued, Results, Branches
  <2> QED BY <2>1, <2>3 DEF WakeupComing, InFlight, Queued, Branches
<1>7. CASE BreakReady
  <2>1. /\ pc = "loop" /\ skip = 0 /\ to_run = 0 /\ ~is_pending
        /\ pc' = "take" /\ branch' = 1 /\ UNCHANGED <<futures, outcome>>
    BY <1>7 DEF BreakReady, Break
  <2>2. \A i \in Branches : futures[i] \in Results
    BY <1>0, <2>1 DEF PolledOnce
  <2>3. Branches' = Branches /\ \A i \in Branches : ~(i < 1)
    BY <2>1, BranchesType DEF Branches
  <2> QED BY <2>1, <2>2, <2>3 DEF WakeupComing
<1>11. CASE TakeOk
  <2>1. /\ pc = "take" /\ futures[branch] = "ok" /\ UNCHANGED futures
        /\ \/ branch' = branch + 1 /\ UNCHANGED <<pc, outcome>>
           \/ pc' = "asleep" /\ outcome' = Ok
    BY <1>11 DEF TakeOk, Taking
  <2>2. Branches' = Branches /\ \A i \in Branches : i < branch + 1 => i < branch \/ i = branch
    BY <2>1, BranchesType, MaxBranchesAssumption DEF Branches, TypeOK
  <2> QED BY <2>1, <2>2 DEF WakeupComing
<1>12. CASE TakeErr
  <2>1. pc' = "asleep" /\ outcome' # Running
    BY <1>12 DEF TakeErr
  <2> QED BY <2>1 DEF WakeupComing
<1>8. ASSUME NEW i \in Branches, Notify(i)  PROVE DriveInv'
  <2>1. /\ futures' = [futures EXCEPT ![i] = "notified"] /\ futures[i] = "waiting" /\ woken' = TRUE
        /\ UNCHANGED <<polls, pc, outcome, is_pending>>
    BY <1>8 DEF Notify, NotifyTask
  <2>2. Branches' = Branches /\ \A j \in Branches : futures'[j] = IF j = i THEN "notified" ELSE futures[j]
    BY <1>0, <2>1 DEF Branches
  <2> QED BY <2>1, <2>2 DEF WakeupComing, Results
<1>9. CASE Drop
  BY <1>9 DEF Drop, Abandon, WakeupComing
<1>10. CASE UNCHANGED vars
  BY <1>10 DEF vars, WakeupComing, InFlight, Queued, Branches
<1> QED BY <1>1, <1>2, <1>3, <1>4, <1>5, <1>6, <1>7, <1>8, <1>9, <1>10, <1>11, <1>12
       DEF Next, Poll

\* The result, once there is one, is that of futures which do not change any more.
LEMMA ResultStep ==
  TypeOK /\ DriveInv /\ FirstListedReturned /\ [Next]_vars => FirstListedReturned'
<1> SUFFICES ASSUME TypeOK, DriveInv, FirstListedReturned, [Next]_vars
             PROVE  FirstListedReturned'
  OBVIOUS
<1> USE Distinct DEF FirstListedReturned, loopVars
<1>0. Branches = 1 .. COUNT /\ COUNT \in Nat /\ branch \in 1 .. COUNT /\ Failed \subseteq Branches
  BY BranchesType, MaxBranchesAssumption DEF TypeOK, Failed, Branches
<1>1. CASE TakeOk
  <2>1. /\ pc = "take" /\ futures[branch] = "ok" /\ Failed' = Failed
        /\ outcome' = outcome \/ (branch = COUNT /\ outcome' = Ok)
    BY <1>1 DEF TakeOk, Taking, Failed
  <2>2. outcome = Running /\ \A i \in Branches : i < branch => futures[i] = "ok"
    BY <2>1 DEF DriveInv
  <2>3. CASE branch = COUNT /\ outcome' = Ok
    <3>1. \A i \in Branches : futures[i] = "ok"
      BY <1>0, <2>1, <2>2, <2>3
    <3>2. Failed = {}
      BY <1>0, <3>1 DEF Failed
    <3> QED BY <2>1, <2>3, <3>2
  <2> QED BY <2>1, <2>2, <2>3
<1>7. CASE TakeErr
  <2>1. /\ pc = "take" /\ futures[branch] # "ok" /\ Failed' = Failed
        /\ outcome' = IF futures[branch] = "err" THEN Error(branch) ELSE Panicked
    BY <1>7 DEF TakeErr, Taking, Failed
  <2>2. /\ futures[branch] \in Results
        /\ \A i \in Branches : i < branch => futures[i] = "ok"
    BY <1>0, <2>1 DEF DriveInv
  <2>3. branch \in Failed /\ outcome' = Error(branch)
    BY <1>0, <2>1, <2>2 DEF Failed, Results, Branches
  <2>4. \A j \in Failed : branch <= j
    BY <1>0, <2>2 DEF Failed
  <2> QED BY <2>1, <2>3, <2>4 DEF FirstListed
<1>2. CASE UNCHANGED <<futures, outcome>>
  BY <1>2 DEF Failed, FirstListed
<1>3. ASSUME outcome = Running, outcome' \in {Running, Dropped}  PROVE FirstListedReturned'
  BY <1>3
<1>4. CASE OutOfBudget \/ BranchPending \/ BranchReady
  BY <1>3, <1>4 DEF OutOfBudget, BranchPending, BranchReady, Polling, DriveInv
<1>5. CASE Drop \/ \E i \in Branches : Notify(i)
  BY <1>3, <1>5 DEF Drop, Abandon, Notify
<1>6. CASE StartPoll \/ SkipBranch \/ BreakPending \/ BreakReady \/ UNCHANGED vars
  BY <1>2, <1>6 DEF StartPoll, SetUp, Wake, SkipBranch, BreakPending, BreakReady, Break, vars
<1> QED BY <1>1, <1>4, <1>5, <1>6, <1>7 DEF Next, Poll

LEMMA DriveInvariant == Spec => [](TypeOK /\ LoopInv /\ DriveInv)
<1>1. Init => TypeOK /\ LoopInv /\ DriveInv
  BY InitType, DriveInit DEF Init, LoopInv
<1>2. TypeOK /\ LoopInv /\ DriveInv /\ [Next]_vars => TypeOK' /\ LoopInv' /\ DriveInv'
  BY TypeStep, LoopStep, DriveStep
<1> QED BY <1>1, <1>2, PTL DEF Spec

\* In whatever order the futures end, the error returned is that of the first
\* listed which failed, and there is no error only if none failed.
THEOREM FirstListedCorrect == Spec => []FirstListedReturned
<1>1. Init => FirstListedReturned
  BY DEF Init, FirstListedReturned
<1>2. TypeOK /\ DriveInv /\ FirstListedReturned /\ [Next]_vars => FirstListedReturned'
  BY ResultStep
<1> QED BY <1>1, <1>2, DriveInvariant, PTL DEF Spec

\* A task that sleeps and is not woken has a future that will wake it.
THEOREM WakeupCorrect == Spec => []WakeupComing
<1>1. DriveInv => WakeupComing
  BY DEF DriveInv
<1> QED BY <1>1, DriveInvariant, PTL

-----------------------------------------------------------------------------
(***************************************************************************)
(* The refinement.                                                         *)
(***************************************************************************)

\* What ThenTry sees of the futures.
LeftSet  == {i \in Branches : futures[i] \notin Results}
ErrorSet == {Error(i) : i \in Failed}

\* A step after which the futures that had ended are as they were.
LEMMA RunStep ==
  ASSUME outcome = Running, outcome' = Running, Branches' = Branches,
         \A i \in Branches : futures[i] \in Results => futures'[i] = futures[i]
  PROVE  Abstract!Run
<1>1. LeftSet' \subseteq LeftSet
  BY DEF LeftSet
<1>2. Failed \subseteq Failed'
  BY DEF Failed, Branches, Results
<1>3. ErrorSet \subseteq ErrorSet'
  BY <1>2 DEF ErrorSet
<1> QED BY <1>1, <1>3 DEF Abstract!Run, LeftSet, ErrorSet

LEMMA AbstractStep ==
  ASSUME TypeOK, LoopInv, DriveInv, FirstListedReturned, [Next]_vars
  PROVE  [Abstract!Next]_(Abstract!vars)
<1> USE DEF Abstract!Next, Abstract!vars, loopVars
<1>0. futures \in [Branches -> FutureStates] /\ PolledOnce
  BY BranchesType, LoopPolls
<1>1. CASE StartPoll \/ SkipBranch \/ BreakPending \/ BreakReady \/ UNCHANGED vars
  <2>1. UNCHANGED <<futures, outcome>>
    BY <1>1 DEF StartPoll, SetUp, Wake, SkipBranch, BreakPending, BreakReady, Break, vars
  <2>2. Branches' = Branches /\ Failed' = Failed
    BY <2>1 DEF Branches, Failed
  <2> QED BY <2>1, <2>2
<1>2. CASE OutOfBudget \/ BranchPending \/ BranchReady
  <2>1. /\ pc = "loop" /\ outcome' = outcome
        /\ Branches' = Branches /\ branch \in Branches
        /\ \A i \in Branches : i # branch => futures'[i] = futures[i]
    BY <1>2, PollingStep DEF OutOfBudget, BranchPending, BranchReady
  <2>2. futures[branch] \in Results => futures'[branch] = futures[branch]
    BY <1>2, <1>0 DEF OutOfBudget, BranchPending, BranchReady, MaybePending, MaybeReady,
         InFlight, Results
  <2>3. outcome = Running
    BY <2>1 DEF DriveInv
  <2> QED BY <2>1, <2>2, <2>3, RunStep
<1>3. CASE TakeOk \/ TakeErr
  <2>1. pc = "take" /\ UNCHANGED futures
    BY <1>3 DEF TakeOk, TakeErr, Taking
  <2>2. LeftSet = {} /\ outcome = Running
    BY <2>1 DEF DriveInv, LeftSet
  <2>3. LeftSet' = LeftSet /\ ErrorSet' = ErrorSet /\ Failed' = Failed
    BY <2>1 DEF LeftSet, ErrorSet, Branches, Failed
  <2>4. CASE outcome' = outcome
    BY <2>3, <2>4 DEF LeftSet, ErrorSet
  <2>5. CASE outcome' # outcome
    <3>1. outcome' \in {Ok, Panicked, Error(branch)}
      BY <1>3, <2>5 DEF TakeOk, TakeErr
    <3>2. outcome' \notin {Running, Dropped}
      BY <3>1, Distinct
    <3>3. IF Failed = {} THEN outcome' = Ok ELSE FirstListed(outcome)'
      BY <2>3, <3>2, ResultStep DEF FirstListedReturned
    <3>4. outcome' \in IF ErrorSet = {} THEN {Ok} ELSE ErrorSet
      BY <2>3, <3>3 DEF FirstListed, ErrorSet
    <3> QED BY <2>2, <2>3, <3>4 DEF Abstract!Exit, LeftSet, ErrorSet
  <2> QED BY <2>4, <2>5
<1>4. ASSUME NEW i \in Branches, Notify(i)  PROVE Abstract!Next
  <2>1. /\ outcome = Running /\ outcome' = Running /\ futures[i] = "waiting"
        /\ futures' = [futures EXCEPT ![i] = "notified"]
    BY <1>4 DEF Notify, NotifyTask
  <2>2. Branches' = Branches
        /\ \A j \in Branches : futures[j] \in Results => futures'[j] = futures[j]
    BY <1>0, <2>1 DEF Branches, Results
  <2> QED BY <2>1, <2>2, RunStep
<1>5. CASE Drop
  <2>1. /\ outcome = Running /\ outcome' = Dropped
        /\ futures' = [i \in Branches |-> IF i \in InFlight THEN "dropped" ELSE futures[i]]
    BY <1>5 DEF Drop, Abandon, DropFutures, Branches
  <2>2. Branches' = Branches
    BY <2>1 DEF Branches
  <2>3. \A i \in Branches : /\ futures'[i] \in Results <=> futures[i] \in Results
                            /\ futures'[i] = "err" <=> futures[i] = "err"
    BY <2>1 DEF InFlight, Branches, Results
  <2>4. LeftSet' = LeftSet /\ Failed' = Failed
    BY <2>2, <2>3 DEF LeftSet, Failed, Branches
  <2> QED BY <2>1, <2>4 DEF Abstract!Drop, LeftSet, ErrorSet
<1> QED BY <1>1, <1>2, <1>3, <1>4, <1>5 DEF Next, Poll

\* The macro keeps the promise of ThenTry: all futures end before it does.
THEOREM JoinImplementsThenTry == Spec => ImplementsThenTry
<1>1. Init => Abstract!Init
  <2> SUFFICES ASSUME Init PROVE Abstract!Init
    OBVIOUS
  <2>1. Failed = {}
    BY DEF Init, Failed
  <2> QED BY <2>1 DEF Init, Abstract!Init
<1>2. TypeOK /\ LoopInv /\ DriveInv /\ FirstListedReturned /\ [Next]_vars
        => [Abstract!Next]_(Abstract!vars)
  BY AbstractStep
<1> QED BY <1>1, <1>2, DriveInvariant, FirstListedCorrect, PTL
           DEF Spec, ImplementsThenTry, Abstract!Spec

=============================================================================
