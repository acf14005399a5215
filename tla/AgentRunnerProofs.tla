------------------------- MODULE AgentRunnerProofs -------------------------
(***************************************************************************)
(* What AgentRunner.tla promises for every number of runs, tools, steps    *)
(* and faults, every window and all budgets.  That the calls in it keep    *)
(* their own invariant is ModelCallsProofs'.                               *)
(***************************************************************************)
EXTENDS AgentRunner, ModelCallsProofs

LEMMA Parameters ==
  /\ Writes \in [Action -> SUBSET Path]
  /\ MaxSteps \in Nat \ {0} /\ NoProgressLimit \in Nat \ {0} /\ MaxCalls = MaxSteps
  /\ DayBudget \in Nat \ {0} /\ MonthBudget \in Nat \ {0}
  /\ Pending \notin Action /\ Pending \notin Outcomes
  /\ Run \subseteq Caller /\ BilledTo \in [Caller -> Project]
  BY AgentRunnerAssumption, ModelCallsAssumption

\* Next, one thing at a time: what a caller does, and what it does to its call.
Asks(r) == Ask(r) /\ (UNCHANGED faults \/ Fault)
CallRests == UNCHANGED mvars
CallIsOver(r) ==
  /\ point' = [point EXCEPT ![r] = "idle"]
  /\ UNCHANGED <<call, ledger, metrics, days, faults>>
OnlyFaults ==
  /\ UNCHANGED <<point, call, ledger, metrics, days>>
  /\ UNCHANGED faults \/ Fault

-----------------------------------------------------------------------------
(* The calls and the ledger *)

LEMMA Metered ==
  ASSUME [RunnerNext]_avars
  PROVE  \/ \E c \in Caller : Asks(c) \/ Call(c) \/ CallIsOver(c)
         \/ CallRests \/ OnlyFaults \/ Outside
<1> USE DEF Asks, CallIsOver, CallRests, OnlyFaults
<1>1. ASSUME NEW r \in Run, ReadDay(r) PROVE Asks(r) \/ CallRests
  BY <1>1 DEF ReadDay
<1>2. ASSUME NEW r \in Run, ReadMonth(r) PROVE Asks(r) \/ CallRests
  BY <1>2 DEF ReadMonth
<1>3. ASSUME NEW r \in Run, Persist(r) PROVE OnlyFaults
  BY <1>3 DEF Persist
<1>4. ASSUME NEW r \in Run, Start(r) \/ ModelFailed(r) \/ Act(r) PROVE CallRests
  BY <1>4 DEF Start, ModelFailed, Act
<1>5. ASSUME NEW r \in Run, Reply(r) PROVE CallIsOver(r)
  BY <1>5 DEF Reply
<1>6. ASSUME NEW r \in Run, AwaitModel(r) PROVE Call(r)
  BY <1>6 DEF AwaitModel
<1>8. ASSUME NEW c \in Caller, Arbitrate(c) PROVE Asks(c) \/ Call(c)
  BY <1>8 DEF Arbitrate
<1> HIDE DEF Asks, CallIsOver, CallRests, OnlyFaults
<1>7. UNCHANGED avars => CallRests
  BY DEF avars, CallRests
<1> QED
  BY <1>1, <1>2, <1>3, <1>4, <1>5, <1>6, <1>7, <1>8, Parameters DEF RunnerNext, Loop

\* Calls are counted when they are made, and rows stay in the ledger.
LEMMA CallsAndLedger ==
  ASSUME CallInv, [RunnerNext]_avars
  PROVE  CallInv' /\ \A p \in Project : spent'[p] >= spent[p]
<1>s. \A p \in Project : spent[p] \in Nat
  BY DEF CallInv, TypeOK
<1>1. ASSUME NEW r \in Caller, Asks(r)
      PROVE  CallInv' /\ UNCHANGED spent
  <2>1. faults' \in 0..MaxFaults
    BY <1>1, FaultKeeps DEF Asks, CallInv
  <2> QED
    BY <1>1, <2>1, AskKeeps DEF Asks, Ask, ledger
<1>2. ASSUME NEW r \in Caller, Call(r)
      PROVE  CallInv' /\ \A p \in Project : spent'[p] >= spent[p]
  <2>1. CallInv'
    BY <1>2, CallKeeps
  <2>2. CASE InsertRow(r)
    <3>1. bill[r] \in Nat
      BY Amounts DEF CallInv, TypeOK
    <3>2. spent' = spent \/ spent' = [spent EXCEPT ![BilledTo[r]] = @ + bill[r]]
      BY <2>2 DEF InsertRow, ledger
    <3> QED
      BY <1>s, <2>1, <3>1, <3>2 DEF CallInv, TypeOK
  <2>3. CASE Primary(r) \/ Ollama(r) \/ CountFallback(r) \/ CountTotal(r) \/ CountProject(r)
    <3>1. spent' = spent
      BY <2>3 DEF Primary, Ollama, CountFallback, CountTotal, CountProject, Answers, ledger
    <3> QED
      BY <1>s, <2>1, <3>1
  <2> QED
    BY <1>2, <2>2, <2>3 DEF Call
<1>3. ASSUME NEW r \in Caller, CallIsOver(r)
      PROVE  CallInv' /\ UNCHANGED spent
  BY <1>3 DEF CallIsOver, CallInv, TypeOK, PaidOnTheWay, DayWithinMonth, AtRest,
              call, ledger, metrics
<1>4. CASE CallRests
  BY <1>4, <1>s, CallInvStays DEF CallRests, mvars, ledger
<1>5. CASE OnlyFaults
  <2>1. faults' \in 0..MaxFaults
    BY <1>5, FaultKeeps DEF OnlyFaults, CallInv
  <2> QED
    BY <1>5, <1>s, <2>1
       DEF OnlyFaults, CallInv, TypeOK, PaidOnTheWay, DayWithinMonth, call, ledger, metrics
<1>6. CASE Midnight
  BY <1>6, <1>s, MidnightKeeps DEF Midnight
<1>7. CASE Evict
  BY <1>7, <1>s, EvictKeeps DEF Evict, ledger
<1> QED
  BY <1>1, <1>2, <1>3, <1>4, <1>5, <1>6, <1>7, <1>s, Metered DEF Outside

-----------------------------------------------------------------------------
(* Types, and the count of steps *)

\* Where a run is tells how many calls it has made and answers it has got.
\* RunnerTypeOK and StepsAddUp are not inductive without it.
Counted ==
  \A r \in Run :
    /\ at[r] \in {"ready", "day", "month"} => calls[r] = step[r] /\ replies[r] = step[r]
    /\ at[r] = "call" => calls[r] = step[r] + 1 /\ replies[r] = step[r]
    /\ at[r] \in {"act", "persist"} =>
         calls[r] = step[r] + 1 /\ replies[r] = step[r] + 1 /\ action[r] \in Action
    /\ at[r] # "over" => step[r] < MaxSteps /\ outcome[r] = Pending
    /\ at[r] = "over" =>
         \/ /\ outcome[r] \in {"completed", "no_progress"}
            /\ calls[r] = step[r] + 1 /\ replies[r] = step[r] + 1
         \/ outcome[r] = "max_steps" /\ calls[r] = MaxSteps /\ replies[r] = MaxSteps
         \/ outcome[r] = "failed" /\ calls[r] = step[r] + 1 /\ replies[r] = step[r]
         \/ outcome[r] = "budget_exhausted" /\ calls[r] = step[r] /\ replies[r] = step[r]
    /\ blind[r] <= calls[r]

LoopTypes ==
  /\ at \in [Run -> {"ready", "day", "month", "call", "act", "persist", "over"}]
  /\ step \in [Run -> 0..MaxSteps]
  /\ daily \in [Run -> Nat]
  /\ action \in [Run -> Action \cup {Pending}]
  /\ wrote \in [Run -> SUBSET Path]
  /\ bus \in [Run -> SUBSET Path]
  /\ outcome \in [Run -> Outcomes \cup {Pending}]
  /\ replies \in [Run -> Nat]
  /\ blind \in [Run -> Nat]

CountInv == LoopTypes /\ Counted

LEMMA CountInit == RunnerInit => CountInv
  BY Parameters DEF RunnerInit, Init, CountInv, LoopTypes, Counted

\* A call made, a call that goes on.
LEMMA CallsCount ==
  ASSUME CallInv, NEW r \in Caller
  PROVE  /\ Ask(r) => calls' = [calls EXCEPT ![r] = @ + 1]
         /\ Call(r) => calls' = calls
<1>1. ASSUME Call(r) PROVE calls' = calls
  BY <1>1 DEF Call, Primary, Ollama, CountFallback, InsertRow, CountTotal, CountProject,
              Answers, call
<1> QED
  BY <1>1 DEF Ask

LEMMA CountStep ==
  ASSUME CallInv, CountInv, [RunnerNext]_avars
  PROVE  CountInv'
<1>n. /\ calls \in [Caller -> 0..MaxSteps] /\ Run \subseteq Caller /\ MaxSteps \in Nat \ {0}
      /\ Pending \notin Action /\ Pending \notin Outcomes
      /\ \A r \in Run : today[BilledTo[r]] \in Nat /\ BilledTo[r] \in Project
  BY Parameters DEF CallInv, TypeOK
<1> USE DEF CountInv, LoopTypes, Counted
<1>1. CASE UNCHANGED avars
  BY <1>1 DEF avars, loop, history, mvars, call
<1>2. CASE Outside /\ UNCHANGED <<loop, history>>
  BY <1>2 DEF loop, history, Outside, Midnight, Evict, call
<1>4. ASSUME NEW c \in Caller \ Run, Arbitrate(c)
      PROVE  CountInv'
  <2>1. UNCHANGED <<loop, history>>
    BY <1>4 DEF Arbitrate
  <2>2. calls' = calls \/ calls' = [calls EXCEPT ![c] = @ + 1]
    BY <1>4, CallsCount DEF Arbitrate
  <2>3. \A r \in Run : calls'[r] = calls[r]
    BY <1>n, <2>2
  <2> QED
    BY <2>1, <2>3 DEF loop, history
<1>3. ASSUME NEW r \in Run, Start(r) \/ Loop(r)
      PROVE  CountInv'
  <2> USE DEF To, history
  <2>1. CASE Start(r)
    BY <2>1, <1>n DEF Start, mvars, call
  <2>2. CASE ReadDay(r)
    <3>1. CASE /\ daily' = [daily EXCEPT ![r] = today[BilledTo[r]]]
               /\ To(r, "month") /\ UNCHANGED <<blind, mvars>>
      BY <1>n, <2>2, <3>1 DEF ReadDay, mvars, call
    <3>2. CASE /\ Ask(r) /\ To(r, "call") /\ blind' = [blind EXCEPT ![r] = @ + 1]
               /\ UNCHANGED daily
      <4>1. calls' = [calls EXCEPT ![r] = @ + 1]
        BY <1>n, <3>2, CallsCount
      <4> QED
        BY <1>n, <2>2, <3>2, <4>1 DEF ReadDay
    <3> QED
      BY <2>2, <3>1, <3>2 DEF ReadDay
  <2>3. CASE ReadMonth(r)
    <3>1. CASE Terminate(r, "budget_exhausted") /\ UNCHANGED <<blind, mvars>>
      BY <1>n, <2>3, <3>1 DEF ReadMonth, Terminate, mvars, call, Outcomes
    <3>2. CASE /\ Ask(r) /\ To(r, "call") /\ UNCHANGED <<step, outcome>>
               /\ UNCHANGED blind \/ blind' = [blind EXCEPT ![r] = @ + 1]
      <4>1. calls' = [calls EXCEPT ![r] = @ + 1]
        BY <1>n, <3>2, CallsCount
      <4> QED
        BY <1>n, <2>3, <3>2, <4>1 DEF ReadMonth
    <3> QED
      BY <2>3, <3>1, <3>2 DEF ReadMonth
  <2>4. CASE AwaitModel(r)
    <3>1. calls' = calls
      BY <1>n, <2>4, CallsCount DEF AwaitModel
    <3> QED
      BY <2>4, <3>1 DEF AwaitModel, loop
  <2>5. CASE ModelFailed(r)
    BY <1>n, <2>5 DEF ModelFailed, Terminate, mvars, call, Outcomes
  <2>6. CASE Reply(r)
    <3>1. at[r] = "call" /\ replies' = [replies EXCEPT ![r] = @ + 1] /\ calls' = calls
          /\ UNCHANGED <<daily, wrote, bus, blind>>
      BY <2>6 DEF Reply, call
    <3>2. CASE Iterate(r) /\ UNCHANGED action
      BY <1>n, <3>1, <3>2 DEF Iterate, Outcomes
    <3>3. CASE Terminate(r, "completed") /\ UNCHANGED action
      BY <1>n, <3>1, <3>3 DEF Terminate, Outcomes
    <3>4. CASE /\ \E a \in Action : action' = [action EXCEPT ![r] = a]
               /\ To(r, "act") /\ UNCHANGED <<step, outcome>>
      BY <1>n, <3>1, <3>4
    <3> QED
      BY <2>6, <3>2, <3>3, <3>4 DEF Reply
  <2>7. CASE Act(r)
    <3>1. wrote' \in [Run -> SUBSET Path]
      <4>1. action[r] \in Action /\ Writes[action[r]] \in SUBSET Path
        BY <2>7, Parameters DEF Act
      <4>2. wrote' = wrote \/ wrote' = [wrote EXCEPT ![r] = @ \cup Writes[action[r]]]
        BY <2>7 DEF Act
      <4> QED
        BY <4>1, <4>2
    <3> QED
      BY <1>n, <2>7, <3>1 DEF Act, mvars, call
  <2>8. CASE Persist(r)
    <3>1. bus' \in [Run -> SUBSET Path] /\ action' = [action EXCEPT ![r] = Pending]
          /\ at[r] = "persist" /\ UNCHANGED <<daily, wrote, history, calls>>
      BY <2>8 DEF Persist, call
    <3>2. CASE Terminate(r, "no_progress")
      BY <1>n, <3>1, <3>2 DEF Terminate, Outcomes
    <3>3. CASE Iterate(r)
      BY <1>n, <3>1, <3>3 DEF Iterate, Outcomes
    <3> QED
      BY <2>8, <3>2, <3>3 DEF Persist
  <2> QED
    BY <1>3, <2>1, <2>2, <2>3, <2>4, <2>5, <2>6, <2>7, <2>8 DEF Loop
<1> QED
  BY <1>1, <1>2, <1>3, <1>4 DEF RunnerNext

LEMMA CountAddsUp == CountInv => StepsAddUp
  BY Parameters DEF CountInv, LoopTypes, Counted, StepsAddUp, Outcomes

-----------------------------------------------------------------------------
(* Budgets *)

\* What a run has read of today is in the month's ledger, and a month that was
\* once spent stays so. OnlyTheSpentAreStopped is not inductive without it.
Spending ==
  \A r \in Run :
    /\ daily[r] <= spent[BilledTo[r]]
    /\ outcome[r] = "budget_exhausted" => \/ spent[BilledTo[r]] >= DayBudget
                                          \/ spent[BilledTo[r]] >= MonthBudget

LEMMA SpendingInit == RunnerInit => Spending
  BY Parameters DEF RunnerInit, Init, Spending, Outcomes

LEMMA SpendingStep ==
  ASSUME CallInv, CountInv, Spending, [RunnerNext]_avars
  PROVE  Spending'
<1>n. \A r \in Run : /\ BilledTo[r] \in Project
                     /\ spent[BilledTo[r]] \in Nat /\ spent'[BilledTo[r]] \in Nat
                     /\ spent'[BilledTo[r]] >= spent[BilledTo[r]]
                     /\ today[BilledTo[r]] \in Nat /\ today[BilledTo[r]] <= spent[BilledTo[r]]
                     /\ daily[r] \in Nat
  <2>1. CallInv'
    BY CallsAndLedger
  <2> QED
    BY <2>1, CallsAndLedger, Parameters
       DEF CallInv, TypeOK, DayWithinMonth, CountInv, LoopTypes
<1>b. DayBudget \in Nat /\ MonthBudget \in Nat /\ Pending # "budget_exhausted"
  BY Parameters DEF Outcomes
<1> USE DEF Spending
<1>1. ASSUME UNCHANGED daily,
             \A r \in Run : outcome'[r] = "budget_exhausted" => outcome[r] = "budget_exhausted"
      PROVE  Spending'
  BY <1>1, <1>n, <1>b
<1>2. ASSUME NEW r \in Run, Start(r) \/ Loop(r)
      PROVE  Spending'
  <2>t. daily \in [Run -> Nat] /\ outcome \in [Run -> Outcomes \cup {Pending}]
    BY DEF CountInv, LoopTypes
  <2>1. CASE ReadDay(r)
    <3>1. outcome' = outcome /\ (daily' = daily \/ daily' = [daily EXCEPT ![r] = today[BilledTo[r]]])
      BY <2>1 DEF ReadDay
    <3>2. CASE daily' = daily
      BY <1>1, <3>1, <3>2
    <3>3. CASE daily' = [daily EXCEPT ![r] = today[BilledTo[r]]]
      <4>1. \A s \in Run : daily'[s] = IF s = r THEN today[BilledTo[r]] ELSE daily[s]
        BY <2>t, <3>3
      <4>2. \A s \in Run : daily'[s] <= spent'[BilledTo[s]]
        BY <1>n, <4>1
      <4> QED
        BY <1>n, <1>b, <3>1, <4>2
    <3> QED
      BY <3>1, <3>2, <3>3
  <2>2. CASE ReadMonth(r)
    <3>1. daily' = daily
      BY <2>2 DEF ReadMonth
    <3>2. CASE /\ \/ Exhausted(daily[r], DayBudget)
                  \/ Exhausted(spent[BilledTo[r]], MonthBudget)
               /\ Terminate(r, "budget_exhausted")
      <4>1. outcome' = [outcome EXCEPT ![r] = "budget_exhausted"]
        BY <3>2 DEF Terminate
      <4>2. spent[BilledTo[r]] >= DayBudget \/ spent[BilledTo[r]] >= MonthBudget
        BY <1>n, <1>b, <3>2 DEF Exhausted
      <4> QED
        BY <1>n, <1>b, <2>t, <3>1, <4>1, <4>2
    <3>3. CASE UNCHANGED outcome
      BY <1>1, <3>1, <3>3
    <3> QED
      BY <2>2, <3>2, <3>3 DEF ReadMonth
  <2>3. CASE Start(r) \/ AwaitModel(r) \/ Act(r)
    <3>1. UNCHANGED <<daily, outcome>>
      BY <2>3 DEF Start, AwaitModel, Act, loop
    <3> QED
      BY <1>1, <3>1
  <2>4. CASE ModelFailed(r) \/ Reply(r) \/ Persist(r)
    <3>1. daily' = daily
      BY <2>4 DEF ModelFailed, Reply, Persist
    <3>2. \/ outcome' = outcome
          \/ \E status \in {"failed", "completed", "no_progress", "max_steps"} :
               outcome' = [outcome EXCEPT ![r] = status]
      BY <2>4 DEF ModelFailed, Reply, Persist, Terminate, Iterate
    <3> QED
      BY <1>1, <2>t, <3>1, <3>2
  <2> QED
    BY <1>2, <2>1, <2>2, <2>3, <2>4 DEF Loop
<1>3. CASE UNCHANGED <<loop, history>>
  BY <1>1, <1>3 DEF loop
<1> QED
  BY <1>2, <1>3 DEF RunnerNext, Arbitrate, avars

LEMMA SpendingStops ==
  CallInv /\ CountInv /\ Spending => OnlyTheSpentAreStopped
<1> SUFFICES ASSUME CallInv, CountInv, Spending, NEW r \in Run, outcome[r] = "budget_exhausted"
             PROVE  /\ spent[BilledTo[r]] >= Min({DayBudget, MonthBudget})
                    /\ replies[r] = step[r]
  BY DEF OnlyTheSpentAreStopped
<1>1. /\ Min({DayBudget, MonthBudget}) \in Nat
      /\ Min({DayBudget, MonthBudget}) <= DayBudget
      /\ Min({DayBudget, MonthBudget}) <= MonthBudget
  <2>1. \E x \in {DayBudget, MonthBudget} : \A y \in {DayBudget, MonthBudget} : x =< y
    BY Parameters
  <2> QED
    BY <2>1, Parameters DEF Min
<1>2. spent[BilledTo[r]] \in Nat
  BY Parameters DEF CallInv, TypeOK
<1>3. spent[BilledTo[r]] >= DayBudget \/ spent[BilledTo[r]] >= MonthBudget
  BY DEF Spending
<1>4. at[r] = "over"
  BY Parameters DEF CountInv, LoopTypes, Counted, Outcomes
<1>5. replies[r] = step[r]
  BY <1>4, Parameters DEF CountInv, Counted
<1> QED
  BY <1>1, <1>2, <1>3, <1>5, Parameters

-----------------------------------------------------------------------------
(* No progress *)

\* The window holds the last of the first n tool calls made.
WindowIs(window, made, n) ==
  /\ window \in Seq(Action)
  /\ Len(window) = IF n < NoProgressLimit THEN n ELSE NoProgressLimit
  /\ \A k \in 1..Len(window) : window[k] = made[n - Len(window) + k]

Alike(made, n) == /\ n >= NoProgressLimit
                  /\ \A j \in (n - NoProgressLimit + 1)..n : made[j] = made[n]

LEMMA SlideIs ==
  ASSUME NEW made \in Seq(Action), NEW n \in Nat, n + 1 <= Len(made),
         NEW window, WindowIs(window, made, n), NEW a, a = made[n + 1]
  PROVE  WindowIs(Slide(window, a), made, n + 1)
<1> DEFINE longer == Append(window, a)
<1>1. NoProgressLimit \in Nat \ {0} /\ Len(made) \in Nat /\ a \in Action
  BY Parameters
<1>2. /\ longer \in Seq(Action) /\ Len(longer) = Len(window) + 1
      /\ \A k \in 1..Len(window) : longer[k] = window[k]
      /\ longer[Len(window) + 1] = a
  BY <1>1 DEF WindowIs
<1>3. \A k \in 1..Len(longer) : longer[k] = made[(n + 1) - Len(longer) + k]
  <2> SUFFICES ASSUME NEW k \in 1..Len(longer)
               PROVE  longer[k] = made[(n + 1) - Len(longer) + k]
    OBVIOUS
  <2>1. CASE k = Len(window) + 1
    BY <1>2, <2>1
  <2>2. CASE k \in 1..Len(window)
    <3>1. (n + 1) - Len(longer) + k = n - Len(window) + k
      BY <1>2
    <3> QED
      BY <1>2, <2>2, <3>1 DEF WindowIs
  <2> QED
    BY <1>2, <2>1, <2>2 DEF WindowIs
<1> HIDE DEF longer
<1>4. CASE Len(longer) <= NoProgressLimit
  <2>1. Slide(window, a) = longer
    BY <1>1, <1>2, <1>4 DEF Slide, longer
  <2>2. Len(longer) = IF n + 1 < NoProgressLimit THEN n + 1 ELSE NoProgressLimit
    <3>1. n < NoProgressLimit /\ Len(window) = n
      BY <1>1, <1>2, <1>4 DEF WindowIs
    <3> QED
      BY <1>1, <1>2, <3>1
  <2>3. longer \in Seq(Action)
    BY <1>2
  <2>4. WindowIs(longer, made, n + 1)
    BY <1>3, <2>2, <2>3, Zenon DEF WindowIs
  <2> QED
    BY <2>1, <2>4, Zenon
<1>5. CASE Len(longer) > NoProgressLimit
  <2>1. Slide(window, a) = Tail(longer)
    BY <1>1, <1>2, <1>5 DEF Slide, longer
  <2>2. /\ Tail(longer) \in Seq(Action) /\ Len(Tail(longer)) = Len(longer) - 1
        /\ \A k \in 1..(Len(longer) - 1) : Tail(longer)[k] = longer[k + 1]
    BY <1>1, <1>2, <1>5
  <2>3. Len(longer) = NoProgressLimit + 1 /\ n >= NoProgressLimit
    BY <1>1, <1>2, <1>5 DEF WindowIs
  <2>4. \A k \in 1..NoProgressLimit : Tail(longer)[k] = made[(n + 1) - NoProgressLimit + k]
    <3> SUFFICES ASSUME NEW k \in 1..NoProgressLimit
                 PROVE  Tail(longer)[k] = made[(n + 1) - NoProgressLimit + k]
      OBVIOUS
    <3>1. k + 1 \in 1..Len(longer) /\ (n + 1) - Len(longer) + (k + 1) = (n + 1) - NoProgressLimit + k
      BY <1>1, <2>3
    <3> QED
      BY <1>1, <1>3, <2>2, <2>3, <3>1
  <2>5. /\ Len(Tail(longer)) = NoProgressLimit
        /\ Len(Tail(longer)) = IF n + 1 < NoProgressLimit THEN n + 1 ELSE NoProgressLimit
    BY <1>1, <2>2, <2>3
  <2>6. \A k \in 1..Len(Tail(longer)) : Tail(longer)[k] = made[(n + 1) - Len(Tail(longer)) + k]
    BY <2>4, <2>5, Zenon
  <2>7. Tail(longer) \in Seq(Action)
    BY <2>2
  <2>8. WindowIs(Tail(longer), made, n + 1)
    BY <2>5, <2>6, <2>7, Zenon DEF WindowIs
  <2> QED
    BY <2>1, <2>8, Zenon
<1>6. Len(longer) \in Nat
  BY <1>2
<1> QED
  BY <1>1, <1>4, <1>5, <1>6

LEMMA StuckIs ==
  ASSUME NEW made \in Seq(Action), NEW n \in 1..Len(made),
         NEW window, WindowIs(window, made, n)
  PROVE  Stuck(window, made[n]) <=> Alike(made, n)
<1>1. NoProgressLimit \in Nat \ {0} /\ Len(made) \in Nat /\ window \in Seq(Action)
  BY Parameters DEF WindowIs
<1>2. Len(window) = NoProgressLimit <=> n >= NoProgressLimit
  BY <1>1 DEF WindowIs
<1>3. ASSUME Len(window) = NoProgressLimit
      PROVE  ToSet(window) = {made[n]} <=>
             \A j \in (n - NoProgressLimit + 1)..n : made[j] = made[n]
  <2>1. /\ \A k \in 1..NoProgressLimit : window[k] = made[n - NoProgressLimit + k]
        /\ DOMAIN window = 1..NoProgressLimit
    BY <1>1, <1>3 DEF WindowIs
  <2>2. ToSet(window) = {window[k] : k \in 1..NoProgressLimit}
    BY <2>1 DEF ToSet
  <2>3. window[NoProgressLimit] = made[n] /\ NoProgressLimit \in 1..NoProgressLimit
    BY <1>1, <2>1
  <2>4. ToSet(window) = {made[n]} <=> \A k \in 1..NoProgressLimit : window[k] = made[n]
    BY <2>2, <2>3
  <2>5. ASSUME \A k \in 1..NoProgressLimit : window[k] = made[n],
               NEW j \in (n - NoProgressLimit + 1)..n
        PROVE  made[j] = made[n]
    <3>1. /\ j - (n - NoProgressLimit) \in 1..NoProgressLimit
          /\ n - NoProgressLimit + (j - (n - NoProgressLimit)) = j
      BY <1>1
    <3> QED
      BY <2>1, <2>5, <3>1
  <2>6. ASSUME \A j \in (n - NoProgressLimit + 1)..n : made[j] = made[n],
               NEW k \in 1..NoProgressLimit
        PROVE  window[k] = made[n]
    <3>1. n - NoProgressLimit + k \in (n - NoProgressLimit + 1)..n
      BY <1>1
    <3> QED
      BY <2>1, <2>6, <3>1
  <2> QED
    BY <2>4, <2>5, <2>6
<1> QED
  BY <1>2, <1>3 DEF Stuck, Alike

\* The tool calls whose signatures have come to the window.
Noted(r) == IF at[r] = "persist" THEN Len(acts[r]) - 1 ELSE Len(acts[r])

\* The window holds the last tool calls noted, and no NoProgressLimit of those
\* noted were the same before the last. StopsWhenStuck is not inductive
\* without it.
Watches(r) ==
  /\ acts[r] \in Seq(Action)
  /\ at[r] = "persist" => Len(acts[r]) >= 1 /\ acts[r][Len(acts[r])] = action[r]
  /\ WindowIs(recent[r], acts[r], Noted(r))
  /\ \A i \in 1..Noted(r) : Alike(acts[r], i) => i = Len(acts[r]) /\ outcome[r] = "no_progress"
  /\ outcome[r] = "no_progress" => Len(acts[r]) >= 1 /\ Alike(acts[r], Len(acts[r]))

ActTypes == acts \in [Run -> Seq(Action)] /\ recent \in [Run -> Seq(Action)]

WatchInv == ActTypes /\ \A r \in Run : Watches(r)

LEMMA WatchInit == RunnerInit => WatchInv
<1> SUFFICES ASSUME RunnerInit PROVE WatchInv
  OBVIOUS
<1>1. ActTypes
  BY DEF RunnerInit, ActTypes
<1>2. ASSUME NEW r \in Run PROVE Watches(r)
  <2>1. /\ at[r] = "ready" /\ acts[r] = <<>> /\ recent[r] = <<>> /\ outcome[r] = Pending
    BY DEF RunnerInit
  <2> QED
    BY <2>1, Parameters DEF Watches, WindowIs, Noted, Outcomes
<1> QED
  BY <1>1, <1>2 DEF WatchInv

\* While a tool call is noted, the window gets it as its last, and with it tells
\* whether the run is stuck.
LEMMA AfterSlide ==
  ASSUME CountInv, WatchInv, NEW r \in Run, at[r] = "persist"
  PROVE  /\ WindowIs(Slide(recent[r], action[r]), acts[r], Len(acts[r]))
         /\ Stuck(Slide(recent[r], action[r]), action[r]) <=> Alike(acts[r], Len(acts[r]))
<1> DEFINE n == Len(acts[r])
           window == Slide(recent[r], action[r])
<1>1. /\ acts[r] \in Seq(Action) /\ n >= 1 /\ n \in Nat /\ acts[r][n] = action[r]
      /\ WindowIs(recent[r], acts[r], n - 1)
  BY DEF WatchInv, Watches, Noted, ActTypes
<1>2. WindowIs(window, acts[r], n)
  <2>1. n - 1 \in Nat /\ (n - 1) + 1 = n
    BY <1>1
  <2>2. /\ acts[r] \in Seq(Action) /\ (n - 1) + 1 <= Len(acts[r])
        /\ WindowIs(recent[r], acts[r], n - 1) /\ action[r] = acts[r][(n - 1) + 1]
    BY <1>1, <2>1
  <2>3. WindowIs(Slide(recent[r], action[r]), acts[r], (n - 1) + 1)
    BY <2>1, <2>2, SlideIs
  <2> QED
    BY <2>1, <2>3
<1>3. Stuck(window, action[r]) <=> Alike(acts[r], n)
  BY <1>1, <1>2, StuckIs
<1> QED
  BY <1>2, <1>3

LEMMA WatchStep ==
  ASSUME CallInv, CountInv, WatchInv, [RunnerNext]_avars
  PROVE  WatchInv'
<1>n. /\ NoProgressLimit \in Nat \ {0} /\ Pending \notin Outcomes
      /\ LoopTypes /\ ActTypes /\ \A r \in Run : Watches(r)
  BY Parameters DEF CountInv, WatchInv
<1>1. ASSUME UNCHANGED <<acts, recent>>,
             \A r \in Run :
               \/ /\ at[r] # "persist" /\ at'[r] # "persist"
                  /\ outcome'[r] = "no_progress" <=> outcome[r] = "no_progress"
               \/ UNCHANGED <<at[r], action[r], outcome[r]>>
      PROVE  WatchInv'
  <2>1. ASSUME NEW r \in Run PROVE Watches(r)'
    <3>1. Noted(r)' = Noted(r) /\ acts'[r] = acts[r] /\ recent'[r] = recent[r] /\ Watches(r)
      BY <1>1, <1>n DEF Noted
    <3>2. /\ outcome'[r] = "no_progress" <=> outcome[r] = "no_progress"
          /\ at'[r] = "persist" => at[r] = "persist" /\ action'[r] = action[r]
      BY <1>1
    <3> QED
      BY <3>1, <3>2 DEF Watches
  <2> QED
    BY <1>1, <1>n, <2>1 DEF WatchInv, ActTypes
<1>2. ASSUME NEW r \in Run, Start(r) \/ Loop(r)
      PROVE  WatchInv'
  <2>1. CASE \/ Start(r) \/ ReadDay(r) \/ ReadMonth(r) \/ AwaitModel(r) \/ ModelFailed(r)
             \/ Reply(r)
    <3>1. UNCHANGED <<acts, recent>>
      BY <2>1 DEF Start, ReadDay, ReadMonth, AwaitModel, ModelFailed, Reply, loop, history
    <3>2. /\ \A s \in Run \ {r} : UNCHANGED <<at[s], action[s], outcome[s]>>
          /\ \/ UNCHANGED <<at[r], action[r], outcome[r]>>
             \/ /\ at[r] # "persist" /\ at'[r] # "persist"
                /\ outcome[r] # "no_progress" /\ outcome'[r] # "no_progress"
      <4>1. at[r] # "over" => outcome[r] # "no_progress"
        BY <1>n DEF CountInv, Counted, Outcomes
      <4>2. CASE AwaitModel(r)
        BY <4>2 DEF AwaitModel, loop
      <4>3. CASE Start(r) \/ ReadDay(r) \/ ReadMonth(r) \/ ModelFailed(r)
        BY <1>n, <4>1, <4>3
           DEF Start, ReadDay, ReadMonth, ModelFailed, Terminate, To, LoopTypes
      <4>4. CASE Reply(r)
        BY <1>n, <4>1, <4>4 DEF Reply, Iterate, Terminate, To, LoopTypes
      <4> QED
        BY <2>1, <4>2, <4>3, <4>4
    <3> QED
      BY <1>1, <3>1, <3>2
  <2>2. CASE Act(r)
    <3>1. /\ at[r] = "act" /\ at' = [at EXCEPT ![r] = "persist"]
          /\ acts' = [acts EXCEPT ![r] = Append(@, action[r])]
          /\ UNCHANGED <<recent, action, outcome>>
      BY <2>2 DEF Act, To
    <3>2. action[r] \in Action /\ outcome[r] # "no_progress" /\ acts[r] \in Seq(Action)
      BY <1>n, <3>1 DEF CountInv, Counted, ActTypes, Outcomes
    <3>3. /\ acts'[r] \in Seq(Action) /\ Len(acts'[r]) = Len(acts[r]) + 1
          /\ acts'[r][Len(acts[r]) + 1] = action[r]
          /\ \A i \in 1..Len(acts[r]) : acts'[r][i] = acts[r][i]
          /\ Len(acts[r]) \in Nat
      BY <1>n, <3>1, <3>2 DEF ActTypes
    <3>4. at'[r] = "persist" /\ \A s \in Run \ {r} : at'[s] = at[s] /\ acts'[s] = acts[s]
      BY <1>n, <3>1 DEF LoopTypes, ActTypes
    <3>5. Noted(r)' = Len(acts[r]) /\ Noted(r) = Len(acts[r])
      BY <3>1, <3>3, <3>4 DEF Noted
    <3>6. ASSUME WindowIs(recent[r], acts[r], Len(acts[r]))
          PROVE  WindowIs(recent[r], acts'[r], Len(acts[r]))
      <4>1. Len(recent[r]) \in Nat /\ Len(recent[r]) <= Len(acts[r])
        BY <1>n, <3>3, <3>6 DEF WindowIs
      <4>2. \A k \in 1..Len(recent[r]) : Len(acts[r]) - Len(recent[r]) + k \in 1..Len(acts[r])
        <5>1. \A m, n \in Nat : m <= n => \A k \in 1..m : n - m + k \in 1..n
          OBVIOUS
        <5> QED
          BY <3>3, <4>1, <5>1
      <4> QED
        BY <3>3, <3>6, <4>2 DEF WindowIs
    <3>7. \A i \in 1..Len(acts[r]) : Alike(acts'[r], i) => Alike(acts[r], i)
      BY <1>n, <3>3 DEF Alike
    <3>8. Watches(r)'
      BY <1>n, <3>1, <3>2, <3>3, <3>4, <3>5, <3>6, <3>7 DEF Watches
    <3>9. \A s \in Run \ {r} : Watches(s)'
      BY <1>n, <3>1, <3>4 DEF Watches, Noted
    <3>10. ActTypes'
      BY <1>n, <3>1, <3>2 DEF ActTypes
    <3> QED
      BY <3>8, <3>9, <3>10 DEF WatchInv
  <2>3. CASE Persist(r)
    <3> DEFINE n == Len(acts[r])
               window == Slide(recent[r], action[r])
    <3>1. /\ at[r] = "persist" /\ acts' = acts /\ action' = [action EXCEPT ![r] = Pending]
          /\ recent' = [recent EXCEPT ![r] = window]
          /\ \/ Stuck(recent'[r], action[r]) /\ Terminate(r, "no_progress")
             \/ ~Stuck(recent'[r], action[r]) /\ Iterate(r)
      BY <2>3 DEF Persist, history
    <3>2. /\ acts[r] \in Seq(Action) /\ n >= 1 /\ n \in Nat /\ acts[r][n] = action[r]
          /\ WindowIs(recent[r], acts[r], n - 1) /\ Noted(r) = n - 1
          /\ outcome[r] # "no_progress"
      BY <1>n, <3>1 DEF Watches, Noted, ActTypes, CountInv, Counted, Outcomes
    <3>3. WindowIs(window, acts[r], n) /\ (Stuck(window, action[r]) <=> Alike(acts[r], n))
      BY <3>1, AfterSlide
    <3> HIDE DEF n, window
    <3>5. recent'[r] = window /\ \A s \in Run \ {r} : recent'[s] = recent[s]
      BY <1>n, <3>1 DEF ActTypes
    <3>6. /\ at'[r] \in {"day", "over"} /\ \A s \in Run \ {r} : at'[s] = at[s]
          /\ outcome'[r] = "no_progress" <=> Stuck(window, action[r])
          /\ \A s \in Run \ {r} : outcome'[s] = outcome[s]
      BY <1>n, <3>1, <3>2, <3>5 DEF Terminate, Iterate, To, LoopTypes
    <3>7. \A s \in Run \ {r} : action'[s] = action[s]
      BY <1>n, <3>1 DEF LoopTypes
    <3>8. \A i \in 1..(n - 1) : ~Alike(acts[r], i)
      BY <1>n, <3>2 DEF Watches
    <3>9. Watches(r)'
      <4>1. Noted(r)' = n
        BY <3>1, <3>6 DEF Noted, n
      <4>2. \A i \in 1..n : i \in 1..(n - 1) \/ i = n
        BY <3>2
      <4>3. \A i \in 1..n : Alike(acts[r], i) => i = n /\ outcome'[r] = "no_progress"
        BY <3>3, <3>6, <3>8, <4>2
      <4>4. outcome'[r] = "no_progress" => n >= 1 /\ Alike(acts[r], n)
        BY <3>2, <3>3, <3>6
      <4>5. n = Len(acts[r])
        BY DEF n
      <4> QED
        BY <3>1, <3>2, <3>3, <3>5, <3>6, <4>1, <4>3, <4>4, <4>5 DEF Watches
    <3>10. \A s \in Run \ {r} : Watches(s)'
      BY <1>n, <3>1, <3>5, <3>6, <3>7 DEF Watches, Noted
    <3>11. ActTypes'
      BY <1>n, <3>1, <3>3 DEF ActTypes, WindowIs
    <3> QED
      BY <3>9, <3>10, <3>11 DEF WatchInv
  <2> QED
    BY <1>2, <2>1, <2>2, <2>3 DEF Loop
<1>3. CASE UNCHANGED <<loop, history>>
  BY <1>1, <1>3 DEF loop, history
<1> QED
  BY <1>2, <1>3 DEF RunnerNext, Arbitrate, avars

LEMMA WatchStops == WatchInv => StopsWhenStuck
<1> SUFFICES ASSUME WatchInv, NEW r \in Run
             PROVE  /\ outcome[r] = "no_progress" => SameUpTo(r, Len(acts[r]), NoProgressLimit)
                    /\ \A i \in 1..Len(acts[r]) :
                         SameUpTo(r, i, NoProgressLimit) =>
                           i = Len(acts[r]) /\ (at[r] = "persist" \/ outcome[r] = "no_progress")
  BY DEF StopsWhenStuck
<1>1. Watches(r) /\ Len(acts[r]) \in Nat
  BY DEF WatchInv, ActTypes
<1>2. \A i : SameUpTo(r, i, NoProgressLimit) <=> Alike(acts[r], i)
  BY DEF SameUpTo, Alike
<1>3. \A i \in 1..Len(acts[r]) : i \in 1..Noted(r) \/ (at[r] = "persist" /\ i = Len(acts[r]))
  BY <1>1 DEF Noted
<1> QED
  BY <1>1, <1>2, <1>3 DEF Watches

-----------------------------------------------------------------------------
(* What a budget's slack is for *)

TopOllama == Max(OllamaCost)

\* The most the call of r can still put into the ledger.
StillToCome(r) ==
  CASE point[r] = "primary" -> WorstStep
    [] point[r] = "ollama" -> TopOllama
    [] point[r] \in {"fallback", "insert"} /\ source[r] # "ollama" ->
         IF HasBus THEN bill[r] + TopOllama
         ELSE IF bill[r] > TopOllama THEN bill[r] ELSE TopOllama
    [] point[r] \in {"fallback", "insert"} /\ source[r] = "ollama" -> bill[r]
    [] point[r] \in {"total", "project"} /\ source[r] # "ollama" -> TopOllama
    [] OTHER -> 0

\* What a caller can still put into the day's and the month's ledger in the step it
\* is in. A run that has read its day within budget will not read it again.
OfTheDay ==
  [c \in Caller |-> CASE c \in Run /\ at[c] = "month" /\ daily[c] < DayBudget -> WorstStep
                      [] c \in Run => at[c] = "call" -> StillToCome(c)
                      [] OTHER -> 0]
OfTheMonth == [c \in Caller |-> IF c \in Run => at[c] = "call" THEN StillToCome(c) ELSE 0]

Slack(q) == SumOver(Leeway, CallersOf(q))

\* The ledger, with all that the steps under way can still add, keeps within the
\* budget's slack. BudgetsHold is not inductive without what is still to come.
Reserved ==
  /\ \A c \in Caller : OfTheDay[c] <= Leeway[c] /\ OfTheMonth[c] <= Leeway[c]
  /\ \A q \in Project :
       /\ today[q] + SumOver(OfTheDay, CallersOf(q)) < DayBudget + Slack(q)
       /\ spent[q] + SumOver(OfTheMonth, CallersOf(q)) < MonthBudget + Slack(q)

LEMMA WorstIs ==
  /\ WorstStep \in Nat /\ TopOllama \in Nat /\ TopOllama <= WorstStep
  /\ \A cost \in OllamaCost : cost <= TopOllama
  /\ \A cost \in PrimaryCost : /\ cost <= WorstStep
                               /\ HasBus => cost + TopOllama <= WorstStep
<1>1. PrimaryCost \subseteq Nat /\ OllamaCost \subseteq Nat
  BY ModelCallsAssumption
<1>2. \A S : (S \subseteq Nat /\ \E x \in S : \A y \in S : y <= x)
               => Max(S) \in S /\ \A y \in S : y <= Max(S)
  <2> SUFFICES ASSUME NEW S, S \subseteq Nat, \E x \in S : \A y \in S : y <= x
               PROVE  Max(S) \in S /\ \A y \in S : y <= Max(S)
    OBVIOUS
  <2>1. \E x \in S : \A y \in S : x >= y
    OBVIOUS
  <2>2. Max(S) \in S /\ \A y \in S : Max(S) >= y
    BY <2>1 DEF Max
  <2> QED
    BY <2>2
<1>3. /\ \E x \in PrimaryCost : \A y \in PrimaryCost : y <= x
      /\ \E x \in OllamaCost : \A y \in OllamaCost : y <= x
  BY AgentRunnerAssumption
<1>4. \E x \in PrimaryCost \cup OllamaCost : \A y \in PrimaryCost \cup OllamaCost : y <= x
  <2>1. PICK x \in PrimaryCost : \A y \in PrimaryCost : y <= x
    BY <1>3
  <2>2. PICK z \in OllamaCost : \A y \in OllamaCost : y <= z
    BY <1>3
  <2>3. x <= z \/ z <= x
    BY <1>1
  <2> QED
    BY <1>1, <2>1, <2>2, <2>3
<1>5. /\ Max(PrimaryCost) \in Nat /\ \A y \in PrimaryCost : y <= Max(PrimaryCost)
      /\ Max(OllamaCost) \in Nat /\ \A y \in OllamaCost : y <= Max(OllamaCost)
  BY <1>1, <1>2, <1>3
<1>6. /\ Max(PrimaryCost \cup OllamaCost) \in Nat
      /\ \A y \in PrimaryCost \cup OllamaCost : y <= Max(PrimaryCost \cup OllamaCost)
  BY <1>1, <1>2, <1>4
<1>7. Max(OllamaCost) \in OllamaCost
  BY <1>1, <1>2, <1>3
<1> QED
  BY <1>1, <1>5, <1>6, <1>7 DEF WorstStep, TopOllama

LEMMA CallersAreFinite ==
  ASSUME NEW q
  PROVE  IsFiniteSet(CallersOf(q)) /\ CallersOf(q) \subseteq Caller
<1>1. IsFiniteSet(Caller) /\ CallersOf(q) \in SUBSET Caller
  BY ModelCallsAssumption DEF CallersOf
<1> QED
  BY <1>1, FS_Subset

\* Whoever is within its budget may let every caller take its leeway.
LEMMA OneStepEach ==
  ASSUME NEW q, NEW f, NEW leeway,
         \A c \in CallersOf(q) : f[c] \in Nat /\ leeway[c] \in Nat /\ f[c] <= leeway[c],
         NEW amount \in Nat, NEW budget \in Nat, amount < budget
  PROVE  amount + SumOver(f, CallersOf(q)) < budget + SumOver(leeway, CallersOf(q))
<1>1. /\ SumOver(f, CallersOf(q)) \in Nat /\ SumOver(leeway, CallersOf(q)) \in Nat
      /\ SumOver(f, CallersOf(q)) <= SumOver(leeway, CallersOf(q))
  BY CallersAreFinite, SumGrows
<1> QED
  BY <1>1

\* A step of one caller that puts no more into the ledger than it gives up of what
\* was still to come, save for the leeway d it gains, keeps its project within the
\* slack.
LEMMA OneCallerSteps ==
  ASSUME NEW q, NEW c \in CallersOf(q), NEW f, NEW g, NEW leeway, NEW wider,
         NEW d \in Nat, NEW before \in Nat, NEW after \in Nat, NEW budget \in Nat,
         \A s \in CallersOf(q) : f[s] \in Nat /\ leeway[s] \in Nat, g[c] \in Nat,
         \A s \in CallersOf(q) \ {c} : g[s] = f[s] /\ wider[s] = leeway[s],
         wider[c] = leeway[c] + d,
         after + g[c] <= before + f[c] + d,
         before + SumOver(f, CallersOf(q)) < budget + SumOver(leeway, CallersOf(q))
  PROVE  after + SumOver(g, CallersOf(q)) < budget + SumOver(wider, CallersOf(q))
<1>1. /\ SumOver(f, CallersOf(q)) \in Nat /\ SumOver(g, CallersOf(q)) \in Nat
      /\ SumOver(g, CallersOf(q)) + f[c] = SumOver(f, CallersOf(q)) + g[c]
  BY CallersAreFinite, SumWithOneChanged
<1>2. /\ SumOver(leeway, CallersOf(q)) \in Nat /\ SumOver(wider, CallersOf(q)) \in Nat
      /\ SumOver(wider, CallersOf(q)) + leeway[c] = SumOver(leeway, CallersOf(q)) + wider[c]
  BY CallersAreFinite, SumWithOneChanged
<1>3. f[c] \in Nat /\ g[c] \in Nat /\ leeway[c] \in Nat
  OBVIOUS
<1> QED
  BY <1>1, <1>2, <1>3

LEMMA ClaimsAreNumbers ==
  ASSUME CallInv
  PROVE  \A r \in Caller : /\ bill[r] \in Nat /\ StillToCome(r) \in Nat
                        /\ OfTheDay[r] \in Nat /\ OfTheMonth[r] \in Nat
<1>1. \A r \in Caller : bill[r] \in Nat
  BY Amounts DEF CallInv, TypeOK
<1>2. \A r \in Caller : StillToCome(r) \in Nat
  BY <1>1, WorstIs DEF StillToCome
<1> QED
  BY <1>1, <1>2, WorstIs DEF OfTheDay, OfTheMonth

\* What a call puts into the ledger was still to come.
LEMMA CallSpends ==
  ASSUME CallInv, NEW r \in Caller, Call(r)
  PROVE  /\ \A s \in Caller \ {r} : UNCHANGED <<point[s], source[s], bill[s]>>
         /\ \E k \in Nat : /\ spent' = [spent EXCEPT ![BilledTo[r]] = @ + k]
                           /\ today' = [today EXCEPT ![BilledTo[r]] = @ + k]
                           /\ StillToCome(r)' + k <= StillToCome(r)
<1>t. /\ point \in [Caller -> AtRest \cup Waiting] /\ source \in [Caller -> Model \cup {"none"}]
      /\ bill \in [Caller -> Nat] /\ bill[r] \in Nat /\ BilledTo[r] \in Project
      /\ spent \in [Project -> Nat] /\ today \in [Project -> Nat]
  BY Amounts DEF CallInv, TypeOK
<1>w. /\ WorstStep \in Nat /\ TopOllama \in Nat /\ TopOllama <= WorstStep
      /\ PrimaryCost \subseteq Nat /\ OllamaCost \subseteq Nat
  BY WorstIs, ModelCallsAssumption
<1>0. ASSUME UNCHANGED ledger, StillToCome(r)' <= StillToCome(r)
      PROVE  \E k \in Nat : /\ spent' = [spent EXCEPT ![BilledTo[r]] = @ + k]
                            /\ today' = [today EXCEPT ![BilledTo[r]] = @ + k]
                            /\ StillToCome(r)' + k <= StillToCome(r)
  <2>1. StillToCome(r)' \in Nat /\ StillToCome(r) \in Nat
    <3>1. CallInv'
      BY CallKeeps
    <3>2. bill'[r] \in Nat
      BY <3>1, Amounts DEF CallInv, TypeOK
    <3> QED
      BY <1>w, <3>2, ClaimsAreNumbers DEF StillToCome
  <2>2. spent' = [spent EXCEPT ![BilledTo[r]] = @ + 0] /\ today' = [today EXCEPT ![BilledTo[r]] = @ + 0]
    BY <1>0, <1>t DEF ledger
  <2>3. StillToCome(r)' + 0 <= StillToCome(r)
    BY <1>0, <2>1
  <2> QED
    BY <2>2, <2>3, 0 \in Nat
<1>1. CASE Primary(r)
  <2>1. CASE \E cost \in PrimaryCost : Answers(r, "primary", cost) /\ Goto(r, "insert")
    <3>1. PICK cost \in PrimaryCost : Answers(r, "primary", cost) /\ Goto(r, "insert")
      BY <2>1
    <3>2. /\ point[r] = "primary" /\ point' = [point EXCEPT ![r] = "insert"]
          /\ source' = [source EXCEPT ![r] = "primary"] /\ bill' = [bill EXCEPT ![r] = cost]
          /\ UNCHANGED ledger
      BY <1>1, <3>1 DEF Primary, Answers, Goto
    <3>3. StillToCome(r)' <= StillToCome(r)
      <4>1. point'[r] = "insert" /\ source'[r] = "primary" /\ bill'[r] = cost
        BY <1>t, <3>2
      <4>2. cost \in Nat /\ cost <= WorstStep /\ (HasBus => cost + TopOllama <= WorstStep)
        BY <1>w, WorstIs
      <4> QED
        BY <1>w, <3>2, <4>1, <4>2 DEF StillToCome
    <3> QED
      BY <1>0, <1>t, <3>2, <3>3
  <2>2. CASE Throw(r) /\ UNCHANGED <<call, ledger, metrics, days, faults>>
    <3>1. StillToCome(r)' <= StillToCome(r)
      BY <1>1, <1>t, <1>w, <2>2 DEF Primary, Throw, Goto, StillToCome, call
    <3> QED
      BY <1>0, <1>t, <2>2, <3>1 DEF Throw, Goto, call
  <2> QED
    BY <1>1, <2>1, <2>2 DEF Primary
<1>2. CASE Ollama(r)
  <2>1. CASE /\ \E cost \in OllamaCost : Answers(r, "ollama", cost)
             /\ Goto(r, IF HasBus THEN "fallback" ELSE "insert")
    <3>1. PICK cost \in OllamaCost : Answers(r, "ollama", cost)
      BY <2>1
    <3>2. /\ point[r] = "ollama"
          /\ point' = [point EXCEPT ![r] = IF HasBus THEN "fallback" ELSE "insert"]
          /\ source' = [source EXCEPT ![r] = "ollama"] /\ bill' = [bill EXCEPT ![r] = cost]
          /\ UNCHANGED ledger
      BY <1>2, <2>1, <3>1 DEF Ollama, Answers, Goto
    <3>3. StillToCome(r)' <= StillToCome(r)
      <4>1. point'[r] \in {"fallback", "insert"} /\ source'[r] = "ollama" /\ bill'[r] = cost
        BY <1>t, <3>2
      <4>2. cost \in Nat /\ cost <= TopOllama
        BY <1>w, WorstIs
      <4> QED
        BY <1>w, <3>2, <4>1, <4>2 DEF StillToCome
    <3> QED
      BY <1>0, <1>t, <3>2, <3>3
  <2>2. CASE Goto(r, "failed") /\ UNCHANGED <<call, ledger, metrics, days, faults>>
    <3>1. StillToCome(r)' <= StillToCome(r)
      BY <1>2, <1>t, <1>w, <2>2 DEF Ollama, Goto, StillToCome, call
    <3> QED
      BY <1>0, <1>t, <2>2, <3>1 DEF Goto, call
  <2> QED
    BY <1>2, <2>1, <2>2 DEF Ollama
<1>3. CASE CountFallback(r)
  <2>1. /\ point[r] = "fallback" /\ UNCHANGED <<source, bill, ledger>>
        /\ \/ point' = [point EXCEPT ![r] = "insert"]
           \/ point' = [point EXCEPT ![r] = IF source[r] = "ollama" THEN "failed" ELSE "ollama"]
    BY <1>3 DEF CountFallback, Throw, Goto, call
  <2>2. StillToCome(r)' <= StillToCome(r)
    BY <1>t, <1>w, <2>1 DEF StillToCome
  <2> QED
    BY <1>0, <1>t, <2>1, <2>2
<1>4. CASE InsertRow(r)
  <2>1. point[r] = "insert" /\ UNCHANGED <<source, bill>>
    BY <1>4 DEF InsertRow
  <2>2. CASE /\ spent' = [spent EXCEPT ![BilledTo[r]] = @ + bill[r]]
             /\ today' = [today EXCEPT ![BilledTo[r]] = @ + bill[r]]
             /\ Goto(r, IF HasBus THEN "total" ELSE "answered")
    <3>1. StillToCome(r)' + bill[r] <= StillToCome(r)
      BY <1>t, <1>w, <2>1, <2>2 DEF StillToCome, Goto
    <3> QED
      BY <1>t, <2>1, <2>2, <3>1 DEF Goto
  <2>3. CASE Throw(r) /\ UNCHANGED <<ledger, rows>>
    <3>1. StillToCome(r)' <= StillToCome(r)
      BY <1>t, <1>w, <2>1, <2>3 DEF Throw, Goto, StillToCome
    <3> QED
      BY <1>0, <1>t, <2>1, <2>3, <3>1 DEF Throw, Goto
  <2> QED
    BY <1>4, <2>2, <2>3 DEF InsertRow
<1>5. CASE CountTotal(r) \/ CountProject(r)
  <2>1. /\ point[r] \in {"total", "project"} /\ UNCHANGED <<source, bill, ledger>>
        /\ \/ point' = [point EXCEPT ![r] = "project"]
           \/ point' = [point EXCEPT ![r] = "answered"]
           \/ point' = [point EXCEPT ![r] = IF source[r] = "ollama" THEN "failed" ELSE "ollama"]
    BY <1>5 DEF CountTotal, CountProject, Throw, Goto, call
  <2>2. StillToCome(r)' <= StillToCome(r)
    BY <1>t, <1>w, <2>1 DEF StillToCome
  <2> QED
    BY <1>0, <1>t, <2>1, <2>2
<1> QED
  BY <1>1, <1>2, <1>3, <1>4, <1>5 DEF Call

\* The leeway is a number, and a step's worth for a run.
LEMMA LeewayIs ==
  ASSUME CallInv, CountInv
  PROVE  /\ \A c \in Caller : Leeway[c] \in Nat
         /\ \A r \in Run : WorstStep <= Leeway[r] /\ Leeway[r] = WorstStep + WorstStep * blind[r]
<1>1. ASSUME NEW r \in Run
      PROVE  /\ Leeway[r] = WorstStep + WorstStep * blind[r]
             /\ WorstStep * blind[r] \in Nat /\ WorstStep \in Nat
  <2>1. WorstStep \in Nat /\ blind[r] \in Nat /\ r \in Caller
    BY WorstIs, Parameters DEF CountInv, LoopTypes
  <2>2. Leeway[r] = WorstStep * (1 + blind[r])
    BY <2>1 DEF Leeway
  <2> QED
    BY <2>1, <2>2
<1>2. ASSUME NEW c \in Caller \ Run
      PROVE  Leeway[c] \in Nat
  <2>1. WorstStep \in Nat /\ calls[c] \in Nat
    BY WorstIs, Parameters DEF CallInv, TypeOK
  <2>2. Leeway[c] = WorstStep * calls[c]
    BY DEF Leeway
  <2> QED
    BY <2>1, <2>2
<1> QED
  BY <1>1, <1>2

\* A step takes the ledger from before to after and what is still to come from f
\* to g: it was granted within the budget, or the step adds no more than was to
\* come, but for the leeway d it gains.
Covered(before, f, after, g, budget, d) ==
  \/ after = before /\ before < budget
  \/ after + g <= before + f + d

\* What a step of c does to the ledgers and to what is still to come.
Spends(c) ==
  /\ \A s \in Caller \ {c} : /\ OfTheDay'[s] = OfTheDay[s] /\ OfTheMonth'[s] = OfTheMonth[s]
                             /\ Leeway'[s] = Leeway[s]
  /\ OfTheDay'[c] <= Leeway'[c] /\ OfTheMonth'[c] <= Leeway'[c]
  /\ \A q \in Project \ {BilledTo[c]} : today'[q] = today[q] /\ spent'[q] = spent[q]
  /\ \E d \in Nat :
       /\ Leeway'[c] = Leeway[c] + d
       /\ Covered(today[BilledTo[c]], OfTheDay[c], today'[BilledTo[c]], OfTheDay'[c], DayBudget, d)
       /\ Covered(spent[BilledTo[c]], OfTheMonth[c], spent'[BilledTo[c]], OfTheMonth'[c], MonthBudget, d)

LEMMA RunSpends ==
  ASSUME CallInv, CountInv, NEW r \in Run, Start(r) \/ Loop(r)
  PROVE  /\ \A s \in Caller \ {r} : OfTheDay'[s] = OfTheDay[s] /\ OfTheMonth'[s] = OfTheMonth[s]
         /\ OfTheDay'[r] <= WorstStep \/ OfTheDay'[r] <= OfTheDay[r]
         /\ OfTheMonth'[r] <= WorstStep \/ OfTheMonth'[r] <= OfTheMonth[r]
         /\ \A q \in Project \ {BilledTo[r]} : today'[q] = today[q] /\ spent'[q] = spent[q]
         /\ \E k \in {0, 1} :
              /\ \A s \in Run : blind'[s] = IF s = r THEN blind[s] + k ELSE blind[s]
              /\ Covered(today[BilledTo[r]], OfTheDay[r],
                         today'[BilledTo[r]], OfTheDay'[r], DayBudget, WorstStep * k)
              /\ Covered(spent[BilledTo[r]], OfTheMonth[r],
                         spent'[BilledTo[r]], OfTheMonth'[r], MonthBudget, WorstStep * k)
<1> DEFINE b == BilledTo[r]
<1>t. /\ point \in [Caller -> AtRest \cup Waiting] /\ source \in [Caller -> Model \cup {"none"}]
      /\ bill \in [Caller -> Nat] /\ b \in Project /\ r \in Caller /\ Run \subseteq Caller
      /\ spent \in [Project -> Nat] /\ today \in [Project -> Nat]
      /\ at \in [Run -> {"ready", "day", "month", "call", "act", "persist", "over"}]
      /\ daily \in [Run -> Nat] /\ blind \in [Run -> Nat]
      /\ DayBudget \in Nat /\ MonthBudget \in Nat /\ WorstStep \in Nat
  BY Amounts, Parameters, WorstIs DEF CallInv, TypeOK, CountInv, LoopTypes
<1>f. OfTheDay[r] \in Nat /\ OfTheMonth[r] \in Nat
  BY <1>t, ClaimsAreNumbers
<1>o. ASSUME \A s \in Run \ {r} : UNCHANGED <<at[s], daily[s]>>,
             \A s \in Caller \ {r} : UNCHANGED <<point[s], source[s], bill[s]>>
      PROVE  \A s \in Caller \ {r} : OfTheDay'[s] = OfTheDay[s] /\ OfTheMonth'[s] = OfTheMonth[s]
  <2>1. \A s \in Caller \ {r} : StillToCome(s)' = StillToCome(s)
    BY <1>o DEF StillToCome
  <2> QED
    BY <1>t, <1>o, <2>1 DEF OfTheDay, OfTheMonth
<1>z. ASSUME UNCHANGED ledger
      PROVE  \A q \in Project : today'[q] = today[q] /\ spent'[q] = spent[q]
  BY <1>z DEF ledger
<1>b. ASSUME UNCHANGED blind
      PROVE  \A s \in Run : blind'[s] = IF s = r THEN blind[s] + 0 ELSE blind[s]
  BY <1>t, <1>b
\* A step that only leaves things behind.
<1>1. CASE Start(r) \/ ModelFailed(r) \/ Reply(r) \/ Act(r) \/ Persist(r)
  <2>1. /\ UNCHANGED <<daily, blind, ledger>>
        /\ \A s \in Run \ {r} : UNCHANGED at[s]
        /\ \A s \in Caller \ {r} : UNCHANGED <<point[s], source[s], bill[s]>>
        /\ at'[r] \notin {"month", "call"}
    <3>1. CASE Start(r) \/ ModelFailed(r) \/ Act(r)
      BY <1>t, <3>1 DEF Start, ModelFailed, Act, To, Terminate, mvars, call, history
    <3>2. CASE Reply(r)
      BY <1>t, <3>2 DEF Reply, To, Terminate, Iterate, call
    <3>3. CASE Persist(r)
      BY <1>t, <3>3 DEF Persist, To, Terminate, Iterate, call, history
    <3> QED
      BY <1>1, <3>1, <3>2, <3>3
  <2>2. OfTheDay'[r] = 0 /\ OfTheMonth'[r] = 0
    BY <1>t, <2>1 DEF OfTheDay, OfTheMonth
  <2>3. /\ Covered(today[b], OfTheDay[r], today'[b], OfTheDay'[r], DayBudget, WorstStep * 0)
        /\ Covered(spent[b], OfTheMonth[r], spent'[b], OfTheMonth'[r], MonthBudget, WorstStep * 0)
    BY <1>t, <1>f, <1>z, <2>1, <2>2 DEF Covered
  <2> QED
    BY <1>t, <1>f, <1>o, <1>z, <1>b, <2>1, <2>2, <2>3
<1>2. CASE ReadDay(r)
  <2>1. CASE /\ daily' = [daily EXCEPT ![r] = today[BilledTo[r]]]
             /\ To(r, "month") /\ UNCHANGED <<blind, mvars>>
    <3>1. /\ at'[r] = "month" /\ daily'[r] = today[b]
          /\ \A s \in Run \ {r} : UNCHANGED <<at[s], daily[s]>>
          /\ UNCHANGED <<point, source, bill, ledger>>
      BY <1>t, <2>1 DEF To, mvars, call
    <3>2. /\ OfTheDay'[r] = IF today[b] < DayBudget THEN WorstStep ELSE 0
          /\ OfTheMonth'[r] = 0
      BY <1>t, <3>1 DEF OfTheDay, OfTheMonth
    <3>3. /\ Covered(today[b], OfTheDay[r], today'[b], OfTheDay'[r], DayBudget, WorstStep * 0)
          /\ Covered(spent[b], OfTheMonth[r], spent'[b], OfTheMonth'[r], MonthBudget, WorstStep * 0)
      BY <1>t, <1>f, <1>z, <3>1, <3>2 DEF Covered
    <3> QED
      BY <1>t, <1>f, <1>o, <1>z, <1>b, <2>1, <3>1, <3>2, <3>3
  <2>2. CASE /\ Ask(r) /\ To(r, "call") /\ blind' = [blind EXCEPT ![r] = @ + 1]
             /\ UNCHANGED daily
    <3>1. /\ at'[r] = "call" /\ point'[r] = "primary" /\ UNCHANGED <<ledger, daily>>
          /\ \A s \in Run \ {r} : UNCHANGED at[s]
          /\ \A s \in Caller \ {r} : UNCHANGED <<point[s], source[s], bill[s]>>
          /\ at[r] = "day"
      BY <1>2, <1>t, <2>2 DEF ReadDay, To, Ask, Goto
    <3>2. /\ OfTheDay'[r] = WorstStep /\ OfTheMonth'[r] = WorstStep
          /\ OfTheDay[r] = 0 /\ OfTheMonth[r] = 0
      BY <1>t, <3>1 DEF OfTheDay, OfTheMonth, StillToCome
    <3>3. /\ Covered(today[b], OfTheDay[r], today'[b], OfTheDay'[r], DayBudget, WorstStep * 1)
          /\ Covered(spent[b], OfTheMonth[r], spent'[b], OfTheMonth'[r], MonthBudget, WorstStep * 1)
      BY <1>t, <1>z, <3>1, <3>2 DEF Covered
    <3>4. \A s \in Run : blind'[s] = IF s = r THEN blind[s] + 1 ELSE blind[s]
      BY <1>t, <2>2
    <3> QED
      BY <1>t, <1>o, <1>z, <3>1, <3>2, <3>3, <3>4
  <2> QED
    BY <1>2, <2>1, <2>2 DEF ReadDay
<1>3. CASE ReadMonth(r)
  <2>1. CASE Terminate(r, "budget_exhausted") /\ UNCHANGED <<blind, mvars>>
    <3>1. /\ at'[r] = "over" /\ UNCHANGED <<daily, point, source, bill, ledger>>
          /\ \A s \in Run \ {r} : UNCHANGED at[s]
      BY <1>3, <1>t, <2>1 DEF ReadMonth, Terminate, To, mvars, call
    <3>2. OfTheDay'[r] = 0 /\ OfTheMonth'[r] = 0
      BY <1>t, <3>1 DEF OfTheDay, OfTheMonth
    <3>3. /\ Covered(today[b], OfTheDay[r], today'[b], OfTheDay'[r], DayBudget, WorstStep * 0)
          /\ Covered(spent[b], OfTheMonth[r], spent'[b], OfTheMonth'[r], MonthBudget, WorstStep * 0)
      BY <1>t, <1>f, <1>z, <3>1, <3>2 DEF Covered
    <3> QED
      BY <1>t, <1>f, <1>o, <1>z, <1>b, <2>1, <3>1, <3>2, <3>3
  <2>2. ASSUME Ask(r), To(r, "call")
        PROVE  /\ OfTheDay'[r] = WorstStep /\ OfTheMonth'[r] = WorstStep
               /\ UNCHANGED ledger
               /\ \A s \in Run \ {r} : UNCHANGED <<at[s], daily[s]>>
               /\ \A s \in Caller \ {r} : UNCHANGED <<point[s], source[s], bill[s]>>
    <3>1. /\ at'[r] = "call" /\ point'[r] = "primary" /\ UNCHANGED <<ledger, daily>>
          /\ \A s \in Run \ {r} : UNCHANGED at[s]
          /\ \A s \in Caller \ {r} : UNCHANGED <<point[s], source[s], bill[s]>>
      BY <1>3, <1>t, <2>2 DEF ReadMonth, To, Ask, Goto
    <3> QED
      BY <1>t, <3>1 DEF OfTheDay, OfTheMonth, StillToCome
  <2>3. CASE /\ ~Exhausted(daily[r], DayBudget) /\ ~Exhausted(spent[b], MonthBudget)
             /\ Ask(r) /\ To(r, "call") /\ UNCHANGED blind
    <3>1. daily[r] < DayBudget /\ spent[b] < MonthBudget /\ at[r] = "month"
      BY <1>3, <1>t, <2>3 DEF Exhausted, ReadMonth
    <3>2. OfTheDay[r] = WorstStep
      BY <1>t, <3>1 DEF OfTheDay
    <3>3. /\ Covered(today[b], OfTheDay[r], today'[b], OfTheDay'[r], DayBudget, WorstStep * 0)
          /\ Covered(spent[b], OfTheMonth[r], spent'[b], OfTheMonth'[r], MonthBudget, WorstStep * 0)
      BY <1>t, <1>z, <2>2, <2>3, <3>1, <3>2 DEF Covered
    <3> QED
      BY <1>t, <1>o, <1>z, <1>b, <2>2, <2>3, <3>3
  <2>4. CASE Ask(r) /\ To(r, "call") /\ blind' = [blind EXCEPT ![r] = @ + 1]
    <3>1. /\ Covered(today[b], OfTheDay[r], today'[b], OfTheDay'[r], DayBudget, WorstStep * 1)
          /\ Covered(spent[b], OfTheMonth[r], spent'[b], OfTheMonth'[r], MonthBudget, WorstStep * 1)
      BY <1>t, <1>f, <1>z, <2>2, <2>4 DEF Covered
    <3>2. \A s \in Run : blind'[s] = IF s = r THEN blind[s] + 1 ELSE blind[s]
      BY <1>t, <2>4
    <3> QED
      BY <1>t, <1>o, <1>z, <2>2, <2>4, <3>1, <3>2
  <2> QED
    BY <1>3, <2>1, <2>3, <2>4 DEF ReadMonth
<1>4. CASE AwaitModel(r)
  <2>1. at[r] = "call" /\ Call(r) /\ UNCHANGED <<at, daily, blind>>
    BY <1>4 DEF AwaitModel, loop, history
  <2>2. PICK k \in Nat : /\ spent' = [spent EXCEPT ![b] = @ + k]
                         /\ today' = [today EXCEPT ![b] = @ + k]
                         /\ StillToCome(r)' + k <= StillToCome(r)
    BY <1>t, <2>1, CallSpends
  <2>3. /\ OfTheDay[r] = StillToCome(r) /\ OfTheMonth[r] = StillToCome(r)
        /\ OfTheDay'[r] = StillToCome(r)' /\ OfTheMonth'[r] = StillToCome(r)'
    BY <1>t, <2>1 DEF OfTheDay, OfTheMonth
  <2>4. CallInv'
    BY <1>t, <2>1, CallKeeps
  <2>5. StillToCome(r)' \in Nat /\ StillToCome(r) \in Nat
    <3>1. bill'[r] \in Nat
      BY <1>t, <2>4, Amounts DEF CallInv, TypeOK
    <3> QED
      BY <1>t, <3>1, WorstIs, ClaimsAreNumbers DEF StillToCome
  <2>6. today'[b] = today[b] + k /\ spent'[b] = spent[b] + k
    BY <1>t, <2>2
  <2>7. /\ Covered(today[b], OfTheDay[r], today'[b], OfTheDay'[r], DayBudget, WorstStep * 0)
        /\ Covered(spent[b], OfTheMonth[r], spent'[b], OfTheMonth'[r], MonthBudget, WorstStep * 0)
    BY <1>t, <2>2, <2>3, <2>5, <2>6 DEF Covered
  <2>8. /\ \A s \in Run \ {r} : UNCHANGED <<at[s], daily[s]>>
        /\ \A s \in Caller \ {r} : UNCHANGED <<point[s], source[s], bill[s]>>
    BY <1>t, <2>1, CallSpends
  <2>9. OfTheDay'[r] <= OfTheDay[r] /\ OfTheMonth'[r] <= OfTheMonth[r]
    BY <2>2, <2>3, <2>5
  <2>10. \A q \in Project \ {b} : today'[q] = today[q] /\ spent'[q] = spent[q]
    BY <1>t, <2>2
  <2> QED
    BY <1>o, <1>b, <2>1, <2>7, <2>8, <2>9, <2>10
<1> QED
  BY <1>1, <1>2, <1>3, <1>4 DEF Loop

LEMMA LaterClaims ==
  ASSUME CallInv'
  PROVE  \A c \in Caller : OfTheDay'[c] \in Nat /\ OfTheMonth'[c] \in Nat
<1>1. \A c \in Caller : bill'[c] \in Nat
  BY Amounts DEF CallInv, TypeOK
<1>2. \A c \in Caller : StillToCome(c)' \in Nat
  BY <1>1, WorstIs DEF StillToCome
<1> QED
  BY <1>2, WorstIs DEF OfTheDay, OfTheMonth

LEMMA LaterLeeway ==
  ASSUME CallInv', CountInv'
  PROVE  \A c \in Caller : Leeway'[c] \in Nat
<1>1. /\ \A c \in Caller : calls'[c] \in Nat
      /\ \A r \in Run : blind'[r] \in Nat
  BY Parameters DEF CallInv, TypeOK, CountInv, LoopTypes
<1>2. \A c \in Caller \ Run : Leeway'[c] \in Nat
  <2> TAKE c \in Caller \ Run
  <2>1. Leeway'[c] = WorstStep * calls'[c]
    BY DEF Leeway
  <2> QED
    BY <1>1, <2>1, WorstIs
<1>3. \A r \in Run : Leeway'[r] \in Nat
  <2> TAKE r \in Run
  <2>1. Leeway'[r] = WorstStep * (1 + blind'[r])
    BY Parameters DEF Leeway
  <2> QED
    BY <1>1, <2>1, WorstIs
<1> QED
  BY <1>2, <1>3

\* A call made or gone on with counts for the caller only.
LEMMA CallsOfOthers ==
  ASSUME CallInv, NEW c \in Caller, Ask(c) \/ Call(c) \/ UNCHANGED calls
  PROVE  \A s \in Caller \ {c} : calls'[s] = calls[s]
<1>1. calls \in [Caller -> 0..MaxCalls]
  BY DEF CallInv, TypeOK
<1>2. calls' = calls \/ calls' = [calls EXCEPT ![c] = @ + 1]
  BY CallsCount
<1> QED
  BY <1>1, <1>2

LEMMA RunCalls ==
  ASSUME NEW r \in Run, Start(r) \/ Loop(r)
  PROVE  Ask(r) \/ Call(r) \/ UNCHANGED calls
  BY DEF Start, Loop, ReadDay, ReadMonth, AwaitModel, ModelFailed, Reply, Act, Persist, mvars, call

\* A run keeps within its leeway, and gains some by a blind step.
LEMMA RunKeepsLeeway ==
  ASSUME CallInv, CountInv, Reserved, CallInv', CountInv', NEW r \in Run, Start(r) \/ Loop(r)
  PROVE  Spends(r)
<1>1. /\ \A s \in Caller \ {r} : OfTheDay'[s] = OfTheDay[s] /\ OfTheMonth'[s] = OfTheMonth[s]
      /\ OfTheDay'[r] <= WorstStep \/ OfTheDay'[r] <= OfTheDay[r]
      /\ OfTheMonth'[r] <= WorstStep \/ OfTheMonth'[r] <= OfTheMonth[r]
      /\ \A q \in Project \ {BilledTo[r]} : today'[q] = today[q] /\ spent'[q] = spent[q]
  BY RunSpends
<1>2. PICK k \in {0, 1} :
        /\ \A s \in Run : blind'[s] = IF s = r THEN blind[s] + k ELSE blind[s]
        /\ Covered(today[BilledTo[r]], OfTheDay[r],
                   today'[BilledTo[r]], OfTheDay'[r], DayBudget, WorstStep * k)
        /\ Covered(spent[BilledTo[r]], OfTheMonth[r],
                   spent'[BilledTo[r]], OfTheMonth'[r], MonthBudget, WorstStep * k)
  BY RunSpends
<1>3. r \in Caller /\ WorstStep \in Nat /\ WorstStep * k \in Nat /\ blind[r] \in Nat
  BY Parameters, WorstIs DEF CountInv, LoopTypes
<1>4. \A s \in Caller \ {r} : Leeway'[s] = Leeway[s]
  <2>1. \A s \in Caller \ {r} : calls'[s] = calls[s]
    BY <1>3, RunCalls, CallsOfOthers
  <2>2. \A s \in Run \ {r} : blind'[s] = blind[s]
    BY <1>2
  <2> QED
    BY <2>1, <2>2 DEF Leeway
<1>5. Leeway'[r] = Leeway[r] + WorstStep * k
  <2>1. Leeway[r] = WorstStep * (1 + blind[r]) /\ Leeway'[r] = WorstStep * (1 + (blind[r] + k))
    BY <1>2, <1>3 DEF Leeway
  <2>2. WorstStep * (1 + (blind[r] + k)) = WorstStep * (1 + blind[r]) + WorstStep * k
    BY <1>3
  <2> QED
    BY <2>1, <2>2
<1>6. OfTheDay'[r] <= Leeway'[r] /\ OfTheMonth'[r] <= Leeway'[r]
  <2>1. /\ WorstStep <= Leeway[r] /\ Leeway[r] \in Nat
        /\ OfTheDay[r] <= Leeway[r] /\ OfTheMonth[r] <= Leeway[r]
        /\ OfTheDay[r] \in Nat /\ OfTheMonth[r] \in Nat
    BY <1>3, LeewayIs, ClaimsAreNumbers DEF Reserved
  <2>2. OfTheDay'[r] \in Nat /\ OfTheMonth'[r] \in Nat
    BY <1>3, LaterClaims
  <2>3. Leeway[r] <= Leeway'[r] /\ Leeway'[r] \in Nat
    BY <1>3, <1>5, <2>1
  <2> QED
    BY <1>1, <1>3, <2>1, <2>2, <2>3
<1> QED
  BY <1>1, <1>2, <1>3, <1>4, <1>5, <1>6 DEF Spends

\* An arbitration gains the leeway of a step with every ruling it asks for, and
\* keeps within it.
LEMMA RulingKeepsLeeway ==
  ASSUME CallInv, CountInv, Reserved, CallInv', CountInv', NEW c \in Caller \ Run, Arbitrate(c)
  PROVE  Spends(c)
<1> DEFINE b == BilledTo[c]
<1>t. /\ point \in [Caller -> AtRest \cup Waiting] /\ calls \in [Caller -> Nat]
      /\ spent \in [Project -> Nat] /\ today \in [Project -> Nat] /\ b \in Project
      /\ WorstStep \in Nat /\ DayBudget \in Nat /\ MonthBudget \in Nat
  BY Amounts, Parameters, WorstIs DEF CallInv, TypeOK
<1>u. UNCHANGED <<at, daily, blind>>
  BY DEF Arbitrate, loop, history
<1>f. /\ OfTheDay[c] = StillToCome(c) /\ OfTheMonth[c] = StillToCome(c)
      /\ OfTheDay'[c] = StillToCome(c)' /\ OfTheMonth'[c] = StillToCome(c)'
      /\ StillToCome(c) \in Nat /\ StillToCome(c)' \in Nat
  <2>1. OfTheDay'[c] \in Nat
    BY LaterClaims
  <2> QED
    BY <2>1, ClaimsAreNumbers DEF OfTheDay, OfTheMonth
<1>l. /\ Leeway[c] = WorstStep * calls[c] /\ Leeway'[c] = WorstStep * calls'[c]
      /\ Leeway[c] \in Nat /\ Leeway'[c] \in Nat /\ StillToCome(c) <= Leeway[c]
  BY <1>f, LeewayIs, LaterLeeway DEF Leeway, Reserved
<1>o. ASSUME \A s \in Caller \ {c} : UNCHANGED <<point[s], source[s], bill[s]>>
      PROVE  \A s \in Caller \ {c} : /\ OfTheDay'[s] = OfTheDay[s] /\ OfTheMonth'[s] = OfTheMonth[s]
                                     /\ Leeway'[s] = Leeway[s]
  <2>1. \A s \in Caller \ {c} : StillToCome(s)' = StillToCome(s)
    BY <1>o DEF StillToCome
  <2>2. \A s \in Caller \ {c} : calls'[s] = calls[s]
    BY CallsOfOthers DEF Arbitrate
  <2> QED
    BY <1>u, <2>1, <2>2 DEF OfTheDay, OfTheMonth, Leeway
<1>1. CASE Ask(c)
  <2>1. /\ point[c] \in AtRest /\ point'[c] = "primary" /\ UNCHANGED ledger
        /\ \A s \in Caller \ {c} : UNCHANGED <<point[s], source[s], bill[s]>>
        /\ calls'[c] = calls[c] + 1
    BY <1>1, <1>t DEF Ask, Goto
  <2>2. StillToCome(c) = 0 /\ StillToCome(c)' = WorstStep
    BY <2>1 DEF StillToCome, AtRest
  <2>3. Leeway'[c] = Leeway[c] + WorstStep
    <3>1. WorstStep * (calls[c] + 1) = WorstStep * calls[c] + WorstStep
      BY <1>t
    <3> QED
      BY <1>l, <2>1, <3>1
  <2>4. today' = today /\ spent' = spent
    BY <2>1 DEF ledger
  <2>5. /\ Covered(today[b], OfTheDay[c], today'[b], OfTheDay'[c], DayBudget, WorstStep)
        /\ Covered(spent[b], OfTheMonth[c], spent'[b], OfTheMonth'[c], MonthBudget, WorstStep)
    BY <1>t, <1>f, <2>2, <2>4 DEF Covered
  <2>6. OfTheDay'[c] <= Leeway'[c] /\ OfTheMonth'[c] <= Leeway'[c]
    BY <1>t, <1>f, <1>l, <2>2, <2>3
  <2> QED
    BY <1>t, <1>o, <2>1, <2>3, <2>4, <2>5, <2>6 DEF Spends
<1>2. CASE Call(c)
  <2>1. \A s \in Caller \ {c} : UNCHANGED <<point[s], source[s], bill[s]>>
    BY <1>2, CallSpends
  <2>2. PICK k \in Nat : /\ spent' = [spent EXCEPT ![b] = @ + k]
                         /\ today' = [today EXCEPT ![b] = @ + k]
                         /\ StillToCome(c)' + k <= StillToCome(c)
    BY <1>2, CallSpends
  <2>3. Leeway'[c] = Leeway[c] + 0
    <3>1. calls' = calls
      BY <1>2, CallsCount
    <3> QED
      BY <1>l, <3>1
  <2>4. /\ today'[b] = today[b] + k /\ spent'[b] = spent[b] + k
        /\ \A q \in Project \ {b} : today'[q] = today[q] /\ spent'[q] = spent[q]
    BY <1>t, <2>2
  <2>5. /\ Covered(today[b], OfTheDay[c], today'[b], OfTheDay'[c], DayBudget, 0)
        /\ Covered(spent[b], OfTheMonth[c], spent'[b], OfTheMonth'[c], MonthBudget, 0)
    BY <1>t, <1>f, <2>2, <2>4 DEF Covered
  <2>6. OfTheDay'[c] <= Leeway'[c] /\ OfTheMonth'[c] <= Leeway'[c]
    BY <1>f, <1>l, <2>2, <2>3
  <2> QED
    BY <1>o, <2>1, <2>3, <2>4, <2>5, <2>6, 0 \in Nat DEF Spends
<1> QED
  BY <1>1, <1>2 DEF Arbitrate

LEMMA ReservedInit == RunnerInit => Reserved
<1> SUFFICES ASSUME RunnerInit PROVE Reserved
  OBVIOUS
<1>1. /\ \A c \in Caller : OfTheDay[c] = 0 /\ OfTheMonth[c] = 0
      /\ \A q \in Project : today[q] = 0 /\ spent[q] = 0
  BY Parameters DEF RunnerInit, Init, OfTheDay, OfTheMonth, StillToCome
<1>2. DayBudget \in Nat \ {0} /\ MonthBudget \in Nat \ {0}
  BY Parameters
<1>3. \A c \in Caller : Leeway[c] \in Nat /\ OfTheDay[c] <= Leeway[c] /\ OfTheMonth[c] <= Leeway[c]
  <2>1. CallInv /\ CountInv
    BY CallInvInit, CountInit DEF RunnerInit
  <2> QED
    BY <1>1, <2>1, LeewayIs
<1>4. ASSUME NEW q \in Project
      PROVE  /\ today[q] + SumOver(OfTheDay, CallersOf(q)) < DayBudget + Slack(q)
             /\ spent[q] + SumOver(OfTheMonth, CallersOf(q)) < MonthBudget + Slack(q)
  <2>1. \A c \in CallersOf(q) : c \in Caller
    BY CallersAreFinite
  <2> QED
    BY <1>1, <1>2, <1>3, <2>1, OneStepEach DEF Slack
<1> QED
  BY <1>3, <1>4 DEF Reserved

LEMMA SpendingKeepsReserved ==
  ASSUME CallInv, CountInv, Reserved, CallInv', CountInv', NEW c \in Caller, Spends(c)
  PROVE  Reserved'
<1>t. /\ \A q \in Project : /\ today[q] \in Nat /\ spent[q] \in Nat
                            /\ today'[q] \in Nat /\ spent'[q] \in Nat
      /\ DayBudget \in Nat /\ MonthBudget \in Nat
  BY Parameters DEF CallInv, TypeOK
<1>f. /\ \A s \in Caller : /\ OfTheDay[s] \in Nat /\ OfTheMonth[s] \in Nat
                           /\ OfTheDay[s] <= Leeway[s] /\ OfTheMonth[s] <= Leeway[s]
                           /\ Leeway[s] \in Nat
      /\ \A s \in Caller : /\ OfTheDay'[s] \in Nat /\ OfTheMonth'[s] \in Nat
                           /\ Leeway'[s] \in Nat
  BY ClaimsAreNumbers, LeewayIs, LaterClaims, LaterLeeway DEF Reserved
<1>1. \A s \in Caller : OfTheDay'[s] <= Leeway'[s] /\ OfTheMonth'[s] <= Leeway'[s]
  BY <1>f DEF Spends
<1>2. ASSUME NEW q \in Project, q # BilledTo[c]
      PROVE  /\ today'[q] + SumOver(OfTheDay', CallersOf(q)) < DayBudget + Slack(q)'
             /\ spent'[q] + SumOver(OfTheMonth', CallersOf(q)) < MonthBudget + Slack(q)'
  <2>1. \A s \in CallersOf(q) : s \in Caller \ {c}
    BY <1>2 DEF CallersOf
  <2>2. /\ SumOver(OfTheDay', CallersOf(q)) = SumOver(OfTheDay, CallersOf(q))
        /\ SumOver(OfTheMonth', CallersOf(q)) = SumOver(OfTheMonth, CallersOf(q))
        /\ SumOver(Leeway', CallersOf(q)) = SumOver(Leeway, CallersOf(q))
    BY <2>1, SumOfSame DEF Spends
  <2>3. today'[q] = today[q] /\ spent'[q] = spent[q]
    BY <1>2 DEF Spends
  <2> QED
    BY <2>2, <2>3 DEF Reserved, Slack
<1>3. ASSUME NEW q \in Project, q = BilledTo[c]
      PROVE  /\ today'[q] + SumOver(OfTheDay', CallersOf(q)) < DayBudget + Slack(q)'
             /\ spent'[q] + SumOver(OfTheMonth', CallersOf(q)) < MonthBudget + Slack(q)'
  <2>1. c \in CallersOf(q) /\ \A s \in CallersOf(q) : s \in Caller
    BY <1>3 DEF CallersOf
  <2>2. PICK d \in Nat :
          /\ Leeway'[c] = Leeway[c] + d
          /\ Covered(today[q], OfTheDay[c], today'[q], OfTheDay'[c], DayBudget, d)
          /\ Covered(spent[q], OfTheMonth[c], spent'[q], OfTheMonth'[c], MonthBudget, d)
    BY <1>3 DEF Spends
  <2>3. ASSUME NEW f, NEW g, NEW before \in Nat, NEW after \in Nat, NEW budget \in Nat,
               \A s \in Caller : f[s] \in Nat, \A s \in Caller : g[s] \in Nat /\ g[s] <= Leeway'[s],
               \A s \in Caller \ {c} : g[s] = f[s],
               Covered(before, f[c], after, g[c], budget, d),
               before + SumOver(f, CallersOf(q)) < budget + Slack(q)
        PROVE  after + SumOver(g, CallersOf(q)) < budget + Slack(q)'
    <3>1. CASE after = before /\ before < budget
      <4>1. \A s \in CallersOf(q) : g[s] \in Nat /\ Leeway'[s] \in Nat /\ g[s] <= Leeway'[s]
        BY <1>f, <2>1, <2>3
      <4>2. after + SumOver(g, CallersOf(q)) < budget + SumOver(Leeway', CallersOf(q))
        BY <3>1, <4>1, OneStepEach
      <4> QED
        BY <4>2 DEF Slack
    <3>2. CASE after + g[c] <= before + f[c] + d
      <4>1. /\ \A s \in CallersOf(q) : f[s] \in Nat /\ Leeway[s] \in Nat
            /\ g[c] \in Nat
            /\ \A s \in CallersOf(q) \ {c} : g[s] = f[s] /\ Leeway'[s] = Leeway[s]
        BY <1>f, <2>1, <2>3 DEF Spends
      <4>2. before + SumOver(f, CallersOf(q)) < budget + SumOver(Leeway, CallersOf(q))
        BY <2>3 DEF Slack
      <4>3. after + SumOver(g, CallersOf(q)) < budget + SumOver(Leeway', CallersOf(q))
        BY <2>1, <2>2, <3>2, <4>1, <4>2, OneCallerSteps
      <4> QED
        BY <4>3 DEF Slack
    <3> QED
      BY <2>3, <3>1, <3>2 DEF Covered
  <2>4. /\ today[q] + SumOver(OfTheDay, CallersOf(q)) < DayBudget + Slack(q)
        /\ spent[q] + SumOver(OfTheMonth, CallersOf(q)) < MonthBudget + Slack(q)
    BY DEF Reserved
  <2>5. \A s \in Caller \ {c} : OfTheDay'[s] = OfTheDay[s] /\ OfTheMonth'[s] = OfTheMonth[s]
    BY DEF Spends
  <2>6. today'[q] + SumOver(OfTheDay', CallersOf(q)) < DayBudget + Slack(q)'
    BY <1>t, <1>f, <1>1, <2>2, <2>3, <2>4, <2>5
  <2>7. spent'[q] + SumOver(OfTheMonth', CallersOf(q)) < MonthBudget + Slack(q)'
    BY <1>t, <1>f, <1>1, <2>2, <2>3, <2>4, <2>5
  <2> QED
    BY <2>6, <2>7
<1> QED
  BY <1>1, <1>2, <1>3 DEF Reserved

LEMMA ReservedStep ==
  ASSUME CallInv, CountInv, Reserved, [RunnerNext]_avars
  PROVE  Reserved'
<1>i. CallInv' /\ CountInv'
  BY CallsAndLedger, CountStep
<1>1. CASE UNCHANGED <<loop, history, point, call, ledger>>
  <2>1. UNCHANGED <<at, daily, blind, point, source, bill, calls, today, spent>>
    BY <1>1 DEF loop, history, call, ledger
  <2>2. OfTheDay' = OfTheDay /\ OfTheMonth' = OfTheMonth /\ Leeway' = Leeway
    BY <2>1 DEF OfTheDay, OfTheMonth, StillToCome, Leeway
  <2> QED
    BY <2>1, <2>2 DEF Reserved, Slack
<1>2. CASE Midnight /\ UNCHANGED <<loop, history>>
  <2>1. /\ UNCHANGED <<at, daily, blind, point, source, bill, calls, spent>>
        /\ \A q \in Project : today'[q] = 0
    BY <1>2 DEF Midnight, loop, history, call
  <2>2. OfTheDay' = OfTheDay /\ OfTheMonth' = OfTheMonth /\ Leeway' = Leeway
    BY <2>1 DEF OfTheDay, OfTheMonth, StillToCome, Leeway
  <2>3. ASSUME NEW q \in Project
        PROVE  today'[q] + SumOver(OfTheDay', CallersOf(q)) < DayBudget + Slack(q)'
    <3>1. \A c \in CallersOf(q) : OfTheDay[c] \in Nat /\ Leeway[c] \in Nat /\ OfTheDay[c] <= Leeway[c]
      BY CallersAreFinite, ClaimsAreNumbers, LeewayIs DEF Reserved
    <3>2. today'[q] \in Nat /\ today'[q] < DayBudget /\ DayBudget \in Nat
      BY <2>1, Parameters
    <3>3. today'[q] + SumOver(OfTheDay, CallersOf(q)) < DayBudget + SumOver(Leeway, CallersOf(q))
      BY <3>1, <3>2, OneStepEach
    <3> QED
      BY <2>2, <3>3 DEF Slack
  <2>4. \A q \in Project : spent'[q] + SumOver(OfTheMonth', CallersOf(q)) < MonthBudget + Slack(q)'
    BY <2>1, <2>2 DEF Reserved, Slack
  <2>5. \A c \in Caller : OfTheDay'[c] <= Leeway'[c] /\ OfTheMonth'[c] <= Leeway'[c]
    BY <2>2 DEF Reserved
  <2> QED
    BY <2>3, <2>4, <2>5 DEF Reserved
<1>3. ASSUME NEW r \in Run, Start(r) \/ Loop(r)
      PROVE  Reserved'
  BY <1>i, <1>3, RunKeepsLeeway, SpendingKeepsReserved, Parameters
<1>4. ASSUME NEW c \in Caller \ Run, Arbitrate(c)
      PROVE  Reserved'
  BY <1>i, <1>4, RulingKeepsLeeway, SpendingKeepsReserved
<1>5. UNCHANGED avars => UNCHANGED <<loop, history, point, call, ledger>>
  BY DEF avars, mvars
<1>6. Evict /\ UNCHANGED <<loop, history>> => UNCHANGED <<loop, history, point, call, ledger>>
  BY DEF Evict
<1> QED
  BY <1>1, <1>2, <1>3, <1>4, <1>5, <1>6 DEF RunnerNext, Outside

LEMMA ReservedHolds == CallInv /\ CountInv /\ Reserved => BudgetsHold
<1> SUFFICES ASSUME CallInv, CountInv, Reserved, NEW q \in Project
             PROVE  today[q] < DayBudget + Slack(q) /\ spent[q] < MonthBudget + Slack(q)
  BY DEF BudgetsHold, Slack
<1>1. today[q] \in Nat /\ spent[q] \in Nat /\ DayBudget \in Nat /\ MonthBudget \in Nat
  BY Parameters DEF CallInv, TypeOK
<1>2. /\ SumOver(OfTheDay, CallersOf(q)) \in Nat /\ SumOver(OfTheMonth, CallersOf(q)) \in Nat
      /\ Slack(q) \in Nat
  <2>1. \A c \in CallersOf(q) : OfTheDay[c] \in Nat /\ OfTheMonth[c] \in Nat /\ Leeway[c] \in Nat
    BY ClaimsAreNumbers, LeewayIs, CallersAreFinite
  <2> QED
    BY <2>1, CallersAreFinite, SumIsFinite DEF Slack
<1>3. /\ today[q] + SumOver(OfTheDay, CallersOf(q)) < DayBudget + Slack(q)
      /\ spent[q] + SumOver(OfTheMonth, CallersOf(q)) < MonthBudget + Slack(q)
  BY DEF Reserved
<1> HIDE DEF Slack
<1> QED
  BY <1>1, <1>2, <1>3

-----------------------------------------------------------------------------
(* Refinement *)

Phase == [r \in Run |-> PhaseOf(r)]
Steps == [r \in Run |-> Reported(r)]
Used == [r \in Run |-> CallsOf(r)]
Asked == [r \in Run |-> calls[r]]

\* What the contract sees of a run.
Seen(r) == <<at[r], step[r], outcome[r], calls[r], replies[r], acts[r], action[r]>>

\* A step of one run moves nothing that the contract sees of another.
LEMMA RunsAreApart ==
  ASSUME CallInv, LoopTypes, ActTypes, NEW r \in Run, Start(r) \/ Loop(r),
         NEW s \in Run \ {r}
  PROVE  Seen(s)' = Seen(s)
<1> USE DEF LoopTypes, ActTypes, To, Terminate, Iterate, history
<1>2. at'[s] = at[s] /\ step'[s] = step[s] /\ outcome'[s] = outcome[s]
  BY DEF Start, Loop, ReadDay, ReadMonth, AwaitModel, ModelFailed, Reply, Act, Persist, loop
<1>3. action'[s] = action[s] /\ acts'[s] = acts[s] /\ replies'[s] = replies[s]
  BY DEF Start, Loop, ReadDay, ReadMonth, AwaitModel, ModelFailed, Reply, Act, Persist, loop
<1>4. calls'[s] = calls[s]
  BY RunCalls, CallsOfOthers, Parameters
<1> QED
  BY <1>2, <1>3, <1>4 DEF Seen

\* A step of one run, as the contract sees it.
LEMMA SeenMoves ==
  ASSUME CallInv, LoopTypes, CallInv', LoopTypes', NEW r \in Run,
         \A s \in Run \ {r} : Seen(s)' = Seen(s)
  PROVE  /\ Phase' = [Phase EXCEPT ![r] = PhaseOf(r)']
         /\ Steps' = [Steps EXCEPT ![r] = Reported(r)']
         /\ Used' = [Used EXCEPT ![r] = CallsOf(r)']
         /\ Asked' = [Asked EXCEPT ![r] = calls'[r]]
         /\ replies' = [replies EXCEPT ![r] = replies'[r]]
<1>1. /\ replies \in [Run -> Nat] /\ replies' \in [Run -> Nat]
  BY DEF LoopTypes
<1>2. ASSUME NEW s \in Run \ {r}
      PROVE  /\ at'[s] = at[s] /\ step'[s] = step[s] /\ outcome'[s] = outcome[s]
             /\ calls'[s] = calls[s] /\ replies'[s] = replies[s]
             /\ acts'[s] = acts[s] /\ action'[s] = action[s]
  BY <1>2 DEF Seen
<1>3. \A s \in Run \ {r} : /\ PhaseOf(s)' = PhaseOf(s) /\ Reported(s)' = Reported(s)
                           /\ CallsOf(s)' = CallsOf(s)
  BY <1>2 DEF PhaseOf, Reported, CallsOf
<1>4. Phase' = [Phase EXCEPT ![r] = PhaseOf(r)']
  BY <1>3 DEF Phase
<1>5. Steps' = [Steps EXCEPT ![r] = Reported(r)']
  BY <1>3 DEF Steps
<1>6. Used' = [Used EXCEPT ![r] = CallsOf(r)']
  BY <1>3 DEF Used
<1>7. Asked' = [Asked EXCEPT ![r] = calls'[r]] /\ replies' = [replies EXCEPT ![r] = replies'[r]]
  BY <1>1, <1>2 DEF Asked
<1> QED
  BY <1>4, <1>5, <1>6, <1>7

\* What the contract says of a run that is not over.
LEMMA SeenAt ==
  ASSUME CountInv, NEW r \in Run, at[r] # "over"
  PROVE  /\ Reported(r) = step[r] /\ step[r] \in Nat /\ step[r] < MaxSteps
         /\ outcome[r] = Pending
         /\ at[r] = "ready" => PhaseOf(r) = "ready"
         /\ at[r] \in {"day", "month"} => PhaseOf(r) = "deciding"
         /\ at[r] = "call" => PhaseOf(r) = "asking"
         /\ at[r] \in {"act", "persist"} => PhaseOf(r) = "acting"
         /\ at[r] = "act" => CallsOf(r) = Append(acts[r], action[r])
         /\ at[r] # "act" => CallsOf(r) = acts[r]
  BY Parameters DEF CountInv, LoopTypes, Counted, Reported, PhaseOf, CallsOf, Outcomes

\* The end of an iteration is what the contract calls going on.
LEMMA IterateGoesOn ==
  ASSUME LoopTypes, NEW r \in Run, Iterate(r), outcome[r] = Pending, Reported(r) = step[r]
  PROVE  /\ PhaseOf(r)' = IF step[r] + 1 < MaxSteps THEN "deciding" ELSE "max_steps"
         /\ Reported(r)' = step[r] + 1
         /\ at'[r] \in {"day", "over"}
<1>1. /\ step'[r] = step[r] + 1
      /\ step[r] + 1 < MaxSteps => at'[r] = "day" /\ outcome'[r] = Pending
      /\ ~(step[r] + 1 < MaxSteps) => at'[r] = "over" /\ outcome'[r] = "max_steps"
  BY DEF LoopTypes, Iterate, To
<1>2. Pending \notin {"completed", "no_progress"}
  BY Parameters DEF Outcomes
<1> QED
  BY <1>1, <1>2 DEF PhaseOf, Reported

\* _terminate ends the run with its status, and reports the step it was in for
\* two of them.
LEMMA TerminateEnds ==
  ASSUME LoopTypes, NEW r \in Run, NEW status \in Outcomes, Terminate(r, status)
  PROVE  /\ PhaseOf(r)' = status /\ at'[r] = "over"
         /\ Reported(r)' = IF status \in {"completed", "no_progress"} THEN step[r] + 1 ELSE step[r]
<1>1. at'[r] = "over" /\ outcome'[r] = status /\ step' = step
  BY DEF LoopTypes, Terminate, To
<1> QED
  BY <1>1 DEF PhaseOf, Reported

\* Every step of a run is a step of its contract, or none.
LEMMA RunRefines ==
  ASSUME CallInv, CountInv, WatchInv, CallInv', CountInv', WatchInv',
         NEW r \in Run, Start(r) \/ Loop(r)
  PROVE  Contract!Next \/ UNCHANGED Contract!cvars
<1> USE DEF Contract!Next, Contract!cvars, Contract!Turn
<1>i. LoopTypes /\ LoopTypes' /\ ActTypes /\ ActTypes'
  BY DEF CountInv, WatchInv
<1>m. /\ Phase' = [Phase EXCEPT ![r] = PhaseOf(r)']
      /\ Steps' = [Steps EXCEPT ![r] = Reported(r)']
      /\ Used' = [Used EXCEPT ![r] = CallsOf(r)']
      /\ Asked' = [Asked EXCEPT ![r] = calls'[r]]
      /\ replies' = [replies EXCEPT ![r] = replies'[r]]
  BY <1>i, RunsAreApart, SeenMoves
<1>p. Phase[r] = PhaseOf(r) /\ Steps[r] = Reported(r) /\ Used[r] = CallsOf(r) /\ Asked[r] = calls[r]
  BY DEF Phase, Steps, Used, Asked
<1>a. ASSUME Reported(r)' = Reported(r) PROVE Steps' = Steps
  BY <1>a, <1>m, <1>p DEF Steps
<1>b. ASSUME CallsOf(r)' = CallsOf(r) PROVE Used' = Used
  BY <1>b, <1>m, <1>p DEF Used
<1>c. ASSUME PhaseOf(r)' = PhaseOf(r) PROVE Phase' = Phase
  BY <1>c, <1>m, <1>p DEF Phase
<1>1. CASE Start(r)
  <2>1. /\ at[r] = "ready" /\ at'[r] = "day"
        /\ UNCHANGED <<step, action, outcome, acts, replies, calls>>
    BY <1>1, <1>i DEF Start, To, LoopTypes, history, mvars, call
  <2>2. /\ PhaseOf(r) = "ready" /\ PhaseOf(r)' = "deciding"
        /\ Reported(r)' = Reported(r) /\ CallsOf(r)' = CallsOf(r)
    BY <2>1 DEF PhaseOf, Reported, CallsOf
  <2>3. Contract!Begin(r)
    BY <1>m, <1>p, <1>a, <1>b, <2>1, <2>2 DEF Contract!Begin, Phase, Steps, Used, Asked
  <2> QED
    BY <2>3
<1>2. ASSUME at[r] \in {"day", "month"}, Ask(r), To(r, "call"),
             UNCHANGED <<step, action, outcome, acts, replies>>
      PROVE  Contract!Ask(r)
  <2>1. at'[r] = "call" /\ calls'[r] = calls[r] + 1
    BY <1>2, <1>i, CallsCount, Parameters DEF To, LoopTypes, CallInv, TypeOK
  <2>2. /\ PhaseOf(r) = "deciding" /\ PhaseOf(r)' = "asking"
        /\ Reported(r)' = Reported(r) /\ CallsOf(r)' = CallsOf(r)
    BY <1>2, <2>1 DEF PhaseOf, Reported, CallsOf
  <2> QED
    BY <1>2, <1>m, <1>p, <1>a, <1>b, <2>1, <2>2 DEF Contract!Ask, Phase, Steps, Used, Asked
<1>3. CASE ReadDay(r)
  <2>1. CASE To(r, "month") /\ UNCHANGED mvars
    <3>1. /\ at[r] = "day" /\ at'[r] = "month"
          /\ UNCHANGED <<step, action, outcome, acts, replies, calls>>
      BY <1>3, <1>i, <2>1 DEF ReadDay, To, LoopTypes, mvars, call
    <3>2. PhaseOf(r)' = PhaseOf(r) /\ Reported(r)' = Reported(r) /\ CallsOf(r)' = CallsOf(r)
      BY <3>1 DEF PhaseOf, Reported, CallsOf
    <3> QED
      BY <1>a, <1>b, <1>c, <3>1, <3>2 DEF Phase, Steps, Used, Asked
  <2>2. CASE Ask(r) /\ To(r, "call")
    BY <1>2, <1>3, <2>2 DEF ReadDay
  <2> QED
    BY <1>3, <2>1, <2>2 DEF ReadDay
<1>4. CASE ReadMonth(r)
  <2>1. CASE Terminate(r, "budget_exhausted") /\ UNCHANGED mvars
    <3>1. at[r] = "month" /\ UNCHANGED <<action, acts, replies, calls>>
      BY <1>4, <2>1 DEF ReadMonth, mvars, call
    <3>2. /\ PhaseOf(r)' = "budget_exhausted" /\ at'[r] = "over" /\ Reported(r)' = step[r]
      BY <1>i, <2>1, TerminateEnds DEF Outcomes
    <3>3. PhaseOf(r) = "deciding" /\ Reported(r) = step[r] /\ CallsOf(r)' = CallsOf(r)
      BY <3>1, <3>2, SeenAt DEF CallsOf
    <3>4. Contract!Exhaust(r)
      BY <1>m, <1>p, <1>a, <1>b, <3>1, <3>2, <3>3 DEF Contract!Exhaust, Phase, Steps, Used, Asked
    <3> QED
      BY <3>4
  <2>2. CASE Ask(r) /\ To(r, "call") /\ UNCHANGED <<step, outcome>>
    BY <1>2, <1>4, <2>2 DEF ReadMonth
  <2> QED
    BY <1>4, <2>1, <2>2 DEF ReadMonth
<1>5. CASE AwaitModel(r)
  <2>1. UNCHANGED <<at, step, outcome, calls, replies, acts, action>>
    BY <1>5, CallsCount, Parameters DEF AwaitModel, loop, history
  <2>2. PhaseOf(r)' = PhaseOf(r) /\ Reported(r)' = Reported(r) /\ CallsOf(r)' = CallsOf(r)
    BY <2>1 DEF PhaseOf, Reported, CallsOf
  <2> QED
    BY <1>a, <1>b, <1>c, <2>1, <2>2 DEF Phase, Steps, Used, Asked
<1>6. CASE ModelFailed(r)
  <2>1. at[r] = "call" /\ UNCHANGED <<action, acts, replies, calls>>
    BY <1>6 DEF ModelFailed, history, mvars, call
  <2>2. /\ PhaseOf(r)' = "failed" /\ at'[r] = "over" /\ Reported(r)' = step[r]
    BY <1>6, <1>i, TerminateEnds DEF ModelFailed, Outcomes
  <2>3. PhaseOf(r) = "asking" /\ Reported(r) = step[r] /\ CallsOf(r)' = CallsOf(r)
    BY <2>1, <2>2, SeenAt DEF CallsOf
  <2>4. Contract!Fail(r)
    BY <1>m, <1>p, <1>a, <1>b, <2>1, <2>2, <2>3 DEF Contract!Fail, Phase, Steps, Used, Asked
  <2> QED
    BY <2>4
<1>7. CASE Reply(r)
  <2> USE DEF Contract!Answer, Contract!EndStep, Contract!Onward
  <2>1. /\ at[r] = "call" /\ replies' = [replies EXCEPT ![r] = @ + 1]
        /\ UNCHANGED <<acts, calls>>
    BY <1>7 DEF Reply, call
  <2>2. /\ PhaseOf(r) = "asking" /\ Reported(r) = step[r] /\ outcome[r] = Pending
        /\ CallsOf(r) = acts[r]
    BY <2>1, SeenAt
  <2>3. CASE Iterate(r) /\ UNCHANGED action
    <3>1. /\ PhaseOf(r)' = IF step[r] + 1 < MaxSteps THEN "deciding" ELSE "max_steps"
          /\ Reported(r)' = step[r] + 1 /\ at'[r] # "act"
      BY <1>i, <2>2, <2>3, IterateGoesOn
    <3>2. Used' = Used
      BY <1>b, <2>1, <2>2, <3>1 DEF CallsOf
    <3>3. Contract!Answer(r)
      BY <1>m, <1>p, <2>1, <2>2, <3>1, <3>2 DEF Phase, Steps, Used, Asked
    <3> QED
      BY <3>3
  <2>4. CASE Terminate(r, "completed") /\ UNCHANGED action
    <3>1. PhaseOf(r)' = "completed" /\ Reported(r)' = step[r] + 1 /\ at'[r] # "act"
      BY <1>i, <2>4, TerminateEnds DEF Outcomes
    <3>2. Used' = Used
      BY <1>b, <2>1, <2>2, <3>1 DEF CallsOf
    <3>3. Contract!Answer(r)
      BY <1>m, <1>p, <2>1, <2>2, <3>1, <3>2 DEF Phase, Steps, Used, Asked
    <3> QED
      BY <3>3
  <2>5. CASE /\ \E a \in Action : action' = [action EXCEPT ![r] = a]
             /\ To(r, "act") /\ UNCHANGED <<step, outcome>>
    <3>1. PICK a \in Action : action' = [action EXCEPT ![r] = a]
      BY <2>5
    <3>2. at'[r] = "act" /\ action'[r] = a
      BY <1>i, <2>5, <3>1 DEF To, LoopTypes
    <3>3. /\ PhaseOf(r)' = "acting" /\ Reported(r)' = Reported(r)
          /\ CallsOf(r)' = Append(acts[r], a)
      BY <2>1, <2>5, <3>2 DEF PhaseOf, Reported, CallsOf
    <3>4. Used' = [Used EXCEPT ![r] = Append(@, a)]
      BY <1>m, <1>p, <2>2, <3>3
    <3>5. Contract!Answer(r)
      BY <1>m, <1>p, <1>a, <2>1, <2>2, <3>3, <3>4 DEF Phase, Steps, Used, Asked
    <3> QED
      BY <3>5
  <2> QED
    BY <1>7, <2>3, <2>4, <2>5 DEF Reply
<1>8. CASE Act(r)
  <2>1. /\ at[r] = "act" /\ at'[r] = "persist" /\ acts'[r] = Append(acts[r], action[r])
        /\ UNCHANGED <<step, outcome, action, calls, replies>>
    BY <1>8, <1>i DEF Act, To, LoopTypes, ActTypes, mvars, call
  <2>2. PhaseOf(r)' = PhaseOf(r) /\ Reported(r)' = Reported(r) /\ CallsOf(r)' = CallsOf(r)
    BY <2>1 DEF PhaseOf, Reported, CallsOf
  <2> QED
    BY <1>a, <1>b, <1>c, <2>1, <2>2 DEF Phase, Steps, Used, Asked
<1>9. CASE Persist(r)
  <2> DEFINE stuck == Stuck(Slide(recent[r], action[r]), action[r])
  <2>1. /\ at[r] = "persist" /\ UNCHANGED <<acts, calls, replies>>
        /\ recent'[r] = Slide(recent[r], action[r])
    BY <1>9, <1>i DEF Persist, ActTypes, history, call
  <2>2. /\ PhaseOf(r) = "acting" /\ Reported(r) = step[r] /\ outcome[r] = Pending
        /\ CallsOf(r) = acts[r]
    BY <2>1, SeenAt
  <2>3. stuck <=> Alike(acts[r], Len(acts[r]))
    BY <2>1, AfterSlide
  <2>4. stuck <=> Contract!Repeats(Used[r])
    BY <1>p, <2>2, <2>3 DEF Contract!Repeats, Alike
  <2>5. \/ stuck /\ Terminate(r, "no_progress")
        \/ ~stuck /\ Iterate(r)
    BY <1>9, <2>1 DEF Persist
  <2> HIDE DEF stuck
  <2>6. /\ PhaseOf(r)' = IF stuck THEN "no_progress"
                         ELSE IF step[r] + 1 < MaxSteps THEN "deciding" ELSE "max_steps"
        /\ Reported(r)' = step[r] + 1 /\ at'[r] # "act"
    BY <1>i, <2>2, <2>5, TerminateEnds, IterateGoesOn DEF Outcomes
  <2>7. Used' = Used
    BY <1>b, <2>1, <2>2, <2>6 DEF CallsOf
  <2>8. Contract!Observe(r)
    BY <1>m, <1>p, <2>1, <2>2, <2>4, <2>6, <2>7
       DEF Contract!Observe, Contract!EndStep, Contract!Onward, Phase, Steps, Used, Asked
  <2> QED
    BY <2>8
<1> QED
  BY <1>1, <1>3, <1>4, <1>5, <1>6, <1>7, <1>8, <1>9 DEF Loop

-----------------------------------------------------------------------------
(* The theorems *)

IInv == CallInv /\ CountInv /\ Spending /\ Reserved /\ WatchInv

LEMMA IInvAlways == RunnerSpec => []IInv
<1>1. RunnerInit => IInv
  BY CallInvInit, CountInit, SpendingInit, ReservedInit, WatchInit DEF RunnerInit, IInv
<1>2. IInv /\ [RunnerNext]_avars => IInv'
  BY CallsAndLedger, CountStep, SpendingStep, ReservedStep, WatchStep DEF IInv
<1> QED
  BY <1>1, <1>2, PTL DEF RunnerSpec

\* Runs, their calls and the ledger keep their types, and the loop its bounds
\* on steps and window. (AgentRunner.run)
THEOREM RunnerTypesKept == RunnerSpec => []RunnerTypeOK
<1>1. IInv => RunnerTypeOK
  <2> SUFFICES ASSUME IInv PROVE RunnerTypeOK
    OBVIOUS
  <2>1. TypeOK /\ LoopTypes /\ ActTypes /\ MaxSteps \in Nat /\ NoProgressLimit \in Nat
    BY Parameters DEF IInv, CallInv, CountInv, WatchInv
  <2>2. \A r \in Run : Len(recent[r]) <= NoProgressLimit
    <3> SUFFICES ASSUME NEW r \in Run PROVE Len(recent[r]) <= NoProgressLimit
      OBVIOUS
    <3>1. WindowIs(recent[r], acts[r], Noted(r)) /\ Noted(r) \in Int
      BY DEF IInv, WatchInv, Watches, Noted, ActTypes
    <3> QED
      BY <2>1, <3>1 DEF WindowIs
  <2>3. \A r \in Run : replies[r] <= MaxSteps /\ blind[r] <= MaxSteps
    <3> SUFFICES ASSUME NEW r \in Run PROVE replies[r] <= MaxSteps /\ blind[r] <= MaxSteps
      OBVIOUS
    <3>1. calls[r] \in 0..MaxSteps /\ step[r] \in Nat
      BY <2>1, Parameters DEF TypeOK, LoopTypes
    <3>2. replies[r] <= calls[r] /\ blind[r] <= calls[r] /\ replies[r] \in Nat /\ blind[r] \in Nat
      BY <2>1, <3>1 DEF IInv, CountInv, LoopTypes, Counted
    <3> QED
      BY <2>1, <3>1, <3>2
  <2> QED
    BY <2>1, <2>2, <2>3 DEF RunnerTypeOK, LoopTypes, ActTypes
<1> QED
  BY <1>1, IInvAlways, PTL

\* For every window and every sequence of replies, a run is stopped for lack of
\* progress exactly when its last tool calls were the same. (run)
THEOREM StoppedWhenStuck == RunnerSpec => []StopsWhenStuck
<1>1. IInv => StopsWhenStuck
  BY WatchStops DEF IInv
<1> QED
  BY <1>1, IInvAlways, PTL

\* What a run reports adds up, however its calls and queries fail. (run)
THEOREM RunsAddUp == RunnerSpec => []StepsAddUp
<1>1. IInv => StepsAddUp
  BY CountAddsUp DEF IInv
<1> QED
  BY <1>1, IInvAlways, PTL

\* No run is turned away for its budget before a budget's worth is in its
\* project's ledger, whoever has spent it and whatever midnight has passed
\* between its two queries. (run, getBudgetStatus)
THEOREM OnlySpentStopped == RunnerSpec => []OnlyTheSpentAreStopped
<1>1. IInv => OnlyTheSpentAreStopped
  BY SpendingStops DEF IInv
<1> QED
  BY <1>1, IInvAlways, PTL

\* However many runs spend on a project at once, on whatever costs, and whenever
\* midnight comes, each overshoots the day's and the month's budget by one step
\* at most, and by one more for every step whose budget could not be read; nothing
\* else comes on top but the rulings that arbitrations ask for.
\* (run, _overBudget, recordCost, arbitrateConflict)
THEOREM BudgetsAreKept == RunnerSpec => []BudgetsHold
<1>1. IInv => BudgetsHold
  BY ReservedHolds DEF IInv
<1> QED
  BY <1>1, IInvAlways, PTL

\* A run of the agent loop, with its window, its budget queries, two models and
\* payments as it goes, is a run of AgentContract, for every number of runs, window,
\* limit of steps and set of tool calls: the model is asked once a step and only
\* after the budget, the run gives up at the first tool call that makes
\* NoProgressLimit equal ones and at no other, and it reports the steps it took.
\* (run, _terminate)
THEOREM ContractKept == RunnerSpec => KeepsContract
<1>1. RunnerInit => Contract!Init
  <2> SUFFICES ASSUME RunnerInit PROVE Contract!Init
    OBVIOUS
  <2>1. ASSUME NEW r \in Run
        PROVE  PhaseOf(r) = "ready" /\ Reported(r) = 0 /\ CallsOf(r) = <<>>
    BY Parameters DEF RunnerInit, PhaseOf, Reported, CallsOf, Outcomes
  <2> QED
    BY <2>1, Parameters DEF RunnerInit, Init, Contract!Init
<1>2. IInv /\ IInv' /\ [RunnerNext]_avars => [Contract!Next]_Contract!cvars
  <2> SUFFICES ASSUME IInv, IInv', [RunnerNext]_avars
               PROVE  Contract!Next \/ UNCHANGED Contract!cvars
    OBVIOUS
  <2>1. ASSUME NEW r \in Run, Start(r) \/ Loop(r)
        PROVE  Contract!Next \/ UNCHANGED Contract!cvars
    BY <2>1, RunRefines DEF IInv
  <2>2. CASE UNCHANGED <<loop, history>> /\ \A r \in Run : calls'[r] = calls[r]
    BY <2>2 DEF loop, history, PhaseOf, Reported, CallsOf, Contract!cvars
  <2>3. ASSUME NEW c \in Caller \ Run, Arbitrate(c)
        PROVE  UNCHANGED <<loop, history>> /\ \A r \in Run : calls'[r] = calls[r]
    BY <2>3, CallsOfOthers, Parameters DEF Arbitrate, IInv
  <2> QED
    BY <2>1, <2>2, <2>3 DEF RunnerNext, Outside, Midnight, Evict, avars, mvars, call
<1> QED
  BY <1>1, <1>2, IInvAlways, PTL DEF RunnerSpec, KeepsContract, Contract!Spec
=============================================================================
