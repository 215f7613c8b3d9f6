------------------------------ MODULE JoinThenTry ------------------------------
(***************************************************************************)
(* The future of join_then_try!, src/macros/join_then_try.rs, for one      *)
(* branch or more.  Each poll polls all branches, every time another one   *)
(* first, because a future may use up the budget that tokio gives a task   *)
(* for a poll: who is polled after it then has to return Pending at once.  *)
(***************************************************************************)
EXTENDS Futures

CONSTANT MaxBranches    \* bound on the number of branches

ASSUME MaxBranchesAssumption == MaxBranches \in Nat \ {0}

VARIABLES
  skip_next_time,  \* as the code's
  skip,            \* as the code's
  to_run,          \* as the code's
  is_pending,      \* as the code's
  branch,          \* the branch the poll is at, in the loop or taking the outputs
  hungry,          \* the branches that can use up the budget in a poll
  spent,           \* the budget of this poll is used up
  polls            \* history: how often each future was polled by this poll

loopVars == <<skip_next_time, skip, to_run, is_pending, branch>>
vars == <<futures, loopVars, hungry, spent, polls, pc, woken, outcome>>

Branches == DOMAIN futures
COUNT    == Len(futures)
Errors   == {Error(i) : i \in 1 .. MaxBranches}
Ok       == <<"ok">>

TypeOK ==
  /\ \E n \in 1 .. MaxBranches : futures \in [1 .. n -> FutureStates]
  /\ skip_next_time \in 0 .. COUNT - 1
  /\ skip \in 0 .. COUNT - 1
  /\ to_run \in 0 .. COUNT
  /\ branch \in Branches
  /\ hungry \subseteq Branches
  /\ polls \in [Branches -> Nat]
  /\ pc \in {"asleep", "loop", "take"}
  /\ outcome \in {Running, Ok, Dropped, Panicked} \cup Errors
  /\ {is_pending, spent, woken} \subseteq BOOLEAN

-----------------------------------------------------------------------------

\* The locals of a poll, and where the next poll is going to start.
SetUp(next, pending) ==
  /\ Wake("loop")
  /\ is_pending' = pending
  /\ to_run' = COUNT
  /\ skip' = skip_next_time
  /\ skip_next_time' = next
  /\ branch' = 1
  /\ spent' = FALSE
  /\ polls' = [i \in Branches |-> 0]
  /\ UNCHANGED <<futures, hungry>>

Rotated == IF skip_next_time + 1 = COUNT THEN 0 ELSE skip_next_time + 1

StartPollUnrotated == SetUp(0, FALSE)   \* mutant: the first branch is always first
StartPollOffByOne  == SetUp(IF skip_next_time = COUNT THEN 0 ELSE skip_next_time + 1, FALSE)   \* mutant
StartPollStale     == SetUp(Rotated, is_pending)   \* mutant: the flag outlives the poll

StartPoll == SetUp(Rotated, FALSE)

NextBranch == branch' = IF branch = COUNT THEN 1 ELSE branch + 1

SkipBranch ==
  /\ pc = "loop" /\ skip > 0
  /\ skip' = skip - 1
  /\ NextBranch
  /\ UNCHANGED <<futures, skip_next_time, to_run, is_pending, hungry, spent, polls,
                 pc, woken, outcome>>

\* What any poll of a future by the loop does.
Polling ==
  /\ pc = "loop" /\ skip = 0 /\ to_run > 0
  /\ to_run' = to_run - 1
  /\ polls' = [polls EXCEPT ![branch] = @ + 1]
  /\ NextBranch
  /\ UNCHANGED <<skip_next_time, skip, hungry, pc, outcome>>

\* The future wakes the task at once: it used the budget up, or found it so.
OutOfBudget ==
  /\ Polling
  /\ branch \in InFlight
  /\ spent \/ branch \in hungry
  /\ futures' = [futures EXCEPT ![branch] = "notified"]
  /\ spent' = TRUE
  /\ woken' = TRUE
  /\ is_pending' = TRUE

BranchPending ==
  /\ Polling
  /\ ~spent
  /\ MaybePending(branch)
  /\ is_pending' = TRUE
  /\ UNCHANGED <<spent, woken>>

BranchReadyLast ==    \* mutant: is_pending is that of the last future polled
  /\ Polling
  /\ ~spent \/ branch \notin InFlight
  /\ MaybeReady(branch)
  /\ is_pending' = FALSE
  /\ UNCHANGED <<spent, woken>>
BranchReadyErr ==    \* mutant: nothing is polled after an error, as in try_join!
  /\ pc = "loop" /\ skip = 0 /\ to_run > 0
  /\ ~spent \/ branch \notin InFlight
  /\ MaybeReady(branch)
  /\ to_run' = IF futures'[branch] = "err" THEN 0 ELSE to_run - 1
  /\ polls' = [polls EXCEPT ![branch] = @ + 1]
  /\ NextBranch
  /\ UNCHANGED <<skip_next_time, skip, is_pending, hungry, spent, pc, woken, outcome>>

BranchReady ==
  /\ Polling
  /\ ~spent \/ branch \notin InFlight
  /\ MaybeReady(branch)
  /\ UNCHANGED <<is_pending, spent, woken>>

\* Every future has been polled.
Break ==
  /\ pc = "loop" /\ skip = 0 /\ to_run = 0
  /\ UNCHANGED <<futures, skip_next_time, skip, to_run, is_pending, hungry, spent, polls,
                 woken, outcome>>

BreakPending == Break /\ is_pending /\ pc' = "asleep" /\ UNCHANGED branch

BreakReadyRotated ==    \* mutant: from the branch that was polled first
  Break /\ ~is_pending /\ pc' = "take" /\ UNCHANGED branch
\* The outputs are taken, from the first branch on.
BreakReady == Break /\ ~is_pending /\ pc' = "take" /\ branch' = 1

\* What any output that is taken leaves alone.
Taking ==
  /\ pc = "take"
  /\ UNCHANGED <<futures, skip_next_time, skip, to_run, is_pending, hungry, spent, polls, woken>>

TakeOk ==
  /\ Taking
  /\ futures[branch] = "ok"
  /\ \/ branch < COUNT /\ branch' = branch + 1 /\ UNCHANGED <<pc, outcome>>
     \/ branch = COUNT /\ pc' = "asleep" /\ outcome' = Ok /\ UNCHANGED branch

\* An error ends the taking, and so does a future that has no output.
TakeErr ==
  /\ Taking
  /\ futures[branch] # "ok"
  /\ outcome' = IF futures[branch] = "err" THEN Error(branch) ELSE Panicked
  /\ pc' = "asleep"
  /\ UNCHANGED branch

-----------------------------------------------------------------------------

Notify(i) ==
  /\ outcome = Running
  /\ NotifyTask(i)
  /\ UNCHANGED <<loopVars, hungry, spent, polls, pc, outcome>>

Drop ==
  /\ Abandon
  /\ DropFutures
  /\ UNCHANGED <<loopVars, hungry, spent, polls>>

-----------------------------------------------------------------------------

Init ==
  /\ \E n \in 1 .. MaxBranches : futures = [i \in 1 .. n |-> "fresh"]
  /\ hungry \in SUBSET Branches
  /\ skip_next_time = 0
  /\ skip = 0
  /\ to_run = 0
  /\ is_pending = FALSE
  /\ branch = 1
  /\ spent = FALSE
  /\ polls = [i \in Branches |-> 0]
  /\ pc = "asleep"
  /\ woken = TRUE
  /\ outcome = Running

\* The steps of a poll that has started.
Poll ==
  \/ SkipBranch \/ OutOfBudget \/ BranchPending \/ BranchReady
  \/ BreakPending \/ BreakReady \/ TakeOk \/ TakeErr

Next == StartPoll \/ Poll \/ (\E i \in Branches : Notify(i)) \/ Drop

Spec == Init /\ [][Next]_vars

=============================================================================
