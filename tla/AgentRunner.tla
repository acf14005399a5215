----------------------------- MODULE AgentRunner -----------------------------
(***************************************************************************)
(* The agent loop, AgentRunner.run in                                      *)
(* src/src/orchestrator/agent-runner.js: check the budget, ask the model,  *)
(* parse its reply, act, observe, persist, until it finishes or a guard    *)
(* trips.                                                                  *)
(*                                                                         *)
(* Several runs are under way at once: executions are not kept apart, and  *)
(* those of one project share its ledger.  The model call in the middle of *)
(* a step is the one of ModelCalls.tla, a caller per run.  The other       *)
(* callers are the orchestrator's arbitrations, whose rulings are billed   *)
(* to the project without a look at its budget.                            *)
(***************************************************************************)
EXTENDS ModelCalls, SequencesExt

CONSTANTS Run,             \* the callers that are runs; the others arbitrate
          Action,          \* tool calls a model can ask for: tool and arguments
          Writes,          \* Writes[a]: paths the tool reports as written
          Path,
          MaxSteps,        \* maxSteps (12)
          NoProgressLimit, \* noProgressLimit (3)
          DayBudget,       \* dailyBudget, in the fractions of Dollar
          MonthBudget,     \* monthlyBudget
          MaxRulings,      \* bound: rulings of one arbitration
          Pending          \* no action chosen, no outcome yet

Outcomes == {"completed", "failed", "budget_exhausted", "max_steps", "no_progress"}

ASSUME AgentRunnerAssumption ==
  /\ Run \subseteq Caller
  /\ Writes \in [Action -> SUBSET Path]
  /\ MaxSteps \in Nat \ {0}
  /\ NoProgressLimit \in Nat \ {0}
  /\ DayBudget \in Nat \ {0} /\ MonthBudget \in Nat \ {0}
  /\ MaxCalls = MaxSteps
  /\ Pending \notin Action \cup Outcomes
  /\ \E most \in PrimaryCost : \A cost \in PrimaryCost : cost <= most
  /\ \E most \in OllamaCost : \A cost \in OllamaCost : cost <= most

VARIABLES
  at,       \* at[r]: the await run r is at
  step,     \* step[r]: the loop counter
  daily,    \* daily[r]: today's spending as getBudgetStatus read it
  action,   \* action[r]: the tool call of this step
  recent,   \* recent[r]: recentSignatures
  wrote,    \* wrote[r]: filesWritten
  bus,      \* bus[r]: filesWritten in the agent state on the Context Bus
  outcome,  \* outcome[r]: the status returned
  acts,     \* acts[r]: every tool call made, in order (history)
  replies,  \* replies[r]: answers got from the model (history)
  blind     \* blind[r]: steps taken although the budget could not be read (history)

loop == <<at, step, daily, action, recent, wrote, bus, outcome>>
history == <<acts, replies, blind>>
avars == <<loop, history, mvars>>

RunnerTypeOK ==
  /\ TypeOK
  /\ at \in [Run -> {"ready", "day", "month", "call", "act", "persist", "over"}]
  /\ step \in [Run -> 0..MaxSteps]
  /\ daily \in [Run -> Nat]
  /\ action \in [Run -> Action \cup {Pending}]
  /\ recent \in [Run -> Seq(Action)]
  /\ \A r \in Run : Len(recent[r]) <= NoProgressLimit
  /\ wrote \in [Run -> SUBSET Path]
  /\ bus \in [Run -> SUBSET Path]
  /\ outcome \in [Run -> Outcomes \cup {Pending}]
  /\ acts \in [Run -> Seq(Action)]
  /\ replies \in [Run -> 0..MaxSteps]
  /\ blind \in [Run -> 0..MaxSteps]

RunnerInit ==
  /\ Init
  /\ at = [r \in Run |-> "ready"]
  /\ step = [r \in Run |-> 0]
  /\ daily = [r \in Run |-> 0]
  /\ action = [r \in Run |-> Pending]
  /\ recent = [r \in Run |-> <<>>]
  /\ wrote = [r \in Run |-> {}]
  /\ bus = [r \in Run |-> {}]
  /\ outcome = [r \in Run |-> Pending]
  /\ acts = [r \in Run |-> <<>>]
  /\ replies = [r \in Run |-> 0]
  /\ blind = [r \in Run |-> 0]

To(r, place) == at' = [at EXCEPT ![r] = place]

\* _terminate
Terminate(r, status) ==
  /\ To(r, "over")
  /\ outcome' = [outcome EXCEPT ![r] = status]
  /\ UNCHANGED step

\* The end of an iteration: the next one, or the end of the loop.
Iterate(r) ==
  /\ step' = [step EXCEPT ![r] = @ + 1]
  /\ IF step[r] + 1 < MaxSteps
     THEN To(r, "day") /\ UNCHANGED outcome
     ELSE To(r, "over") /\ outcome' = [outcome EXCEPT ![r] = "max_steps"]

\* Two mistaken guards: a budget met to the cent is not exhausted, one that the
\* next cent would meet is.
ExhaustedLate(amount, budget) == amount > budget
ExhaustedSoon(amount, budget) == amount + 1 >= budget

Exhausted(amount, budget) == amount >= budget

-----------------------------------------------------------------------------
(* Budget guard *)

Start(r) ==
  /\ at[r] = "ready"
  /\ To(r, "day")
  /\ UNCHANGED <<step, daily, action, recent, wrote, bus, outcome, history, mvars>>

\* getDailyCost, the first query of getBudgetStatus. A budget that cannot be
\* read stops nobody: the step goes on to the model.
ReadDay(r) ==
  /\ at[r] = "day"
  /\ \/ /\ daily' = [daily EXCEPT ![r] = today[BilledTo[r]]]
        /\ To(r, "month")
        /\ UNCHANGED <<blind, mvars>>
     \/ /\ Fault
        /\ Ask(r)
        /\ To(r, "call")
        /\ blind' = [blind EXCEPT ![r] = @ + 1]
        /\ UNCHANGED daily
  /\ UNCHANGED <<step, action, recent, wrote, bus, outcome, acts, replies>>

\* A mistaken ReadMonth: a run out of budget waits for more.
ReadMonthAndWait(r) ==
  /\ at[r] = "month"
  /\ IF daily[r] < DayBudget /\ spent[BilledTo[r]] < MonthBudget
     THEN Ask(r) /\ To(r, "call") /\ UNCHANGED faults
     ELSE To(r, "day") /\ UNCHANGED mvars
  /\ UNCHANGED <<step, outcome, blind, daily, action, recent, wrote, bus, acts, replies>>

\* getMonthlyCost, the second one; then the guard. Model selection reads the
\* budget again, but the model it names is not the one that is asked.
ReadMonth(r) ==
  /\ at[r] = "month"
  /\ \/ /\ \/ Exhausted(daily[r], DayBudget)
           \/ Exhausted(spent[BilledTo[r]], MonthBudget)
        /\ Terminate(r, "budget_exhausted")
        /\ UNCHANGED <<blind, mvars>>
     \/ /\ ~Exhausted(daily[r], DayBudget)
        /\ ~Exhausted(spent[BilledTo[r]], MonthBudget)
        /\ Ask(r)
        /\ To(r, "call")
        /\ UNCHANGED <<step, outcome, blind, faults>>
     \/ /\ Fault
        /\ Ask(r)
        /\ To(r, "call")
        /\ blind' = [blind EXCEPT ![r] = @ + 1]
        /\ UNCHANGED <<step, outcome>>
  /\ UNCHANGED <<daily, action, recent, wrote, bus, acts, replies>>

-----------------------------------------------------------------------------
(* Plan, act, observe *)

\* The model call goes on.
AwaitModel(r) ==
  /\ at[r] = "call"
  /\ Call(r)
  /\ UNCHANGED <<loop, history>>

\* The call failed: so does the run.
ModelFailed(r) ==
  /\ at[r] = "call"
  /\ point[r] = "failed"
  /\ Terminate(r, "failed")
  /\ UNCHANGED <<daily, action, recent, wrote, bus, history, mvars>>

\* A mistaken Reply: an unparsable one is asked for again in the same step.
ReplyAgain(r) ==
  /\ at[r] = "call"
  /\ point[r] = "answered"
  /\ replies' = [replies EXCEPT ![r] = @ + 1]
  /\ \/ To(r, "day") /\ UNCHANGED <<step, outcome, action>>
     \/ Terminate(r, "completed") /\ UNCHANGED action
  /\ point' = [point EXCEPT ![r] = "idle"]
  /\ UNCHANGED <<daily, recent, wrote, bus, acts, blind,
                 call, ledger, metrics, days, faults>>

\* parseAction: no action in the reply, a finish, or a tool call.
Reply(r) ==
  /\ at[r] = "call"
  /\ point[r] = "answered"
  /\ replies' = [replies EXCEPT ![r] = @ + 1]
  /\ \/ Iterate(r) /\ UNCHANGED action
     \/ Terminate(r, "completed") /\ UNCHANGED action
     \/ /\ \E a \in Action : action' = [action EXCEPT ![r] = a]
        /\ To(r, "act")
        /\ UNCHANGED <<step, outcome>>
  /\ point' = [point EXCEPT ![r] = "idle"]
  /\ UNCHANGED <<daily, recent, wrote, bus, acts, blind,
                 call, ledger, metrics, days, faults>>

\* toolRegistry.invoke; a tool that fails reports no writes.
Act(r) ==
  /\ at[r] = "act"
  /\ acts' = [acts EXCEPT ![r] = Append(@, action[r])]
  /\ \/ wrote' = [wrote EXCEPT ![r] = @ \cup Writes[action[r]]]
     \/ UNCHANGED wrote
  /\ To(r, "persist")
  /\ UNCHANGED <<step, daily, action, recent, bus, outcome, replies, blind, mvars>>

\* A mistaken Slide: nothing leaves the window.
SlideNot(window, a) == Append(window, a)

\* The window of signatures after one more: the last NoProgressLimit of them.
Slide(window, a) ==
  LET longer == Append(window, a)
  IN IF Len(longer) > NoProgressLimit THEN Tail(longer) ELSE longer

\* A mistaken Stuck: the window need not be full.
StuckEarly(window, a) == ToSet(window) = {a}

Stuck(window, a) == Len(window) = NoProgressLimit /\ ToSet(window) = {a}

\* _persistStep, whose failure is only logged, and the no-progress guard.
Persist(r) ==
  /\ at[r] = "persist"
  /\ \/ bus' = [bus EXCEPT ![r] = wrote[r]] /\ UNCHANGED faults
     \/ Fault /\ UNCHANGED bus
  /\ recent' = [recent EXCEPT ![r] = Slide(@, action[r])]
  /\ action' = [action EXCEPT ![r] = Pending]
  /\ IF Stuck(recent'[r], action[r]) THEN Terminate(r, "no_progress") ELSE Iterate(r)
  /\ UNCHANGED <<daily, wrote, history, point, call, ledger, metrics, days>>

Loop(r) ==
  \/ ReadDay(r) \/ ReadMonth(r)
  \/ AwaitModel(r) \/ ModelFailed(r) \/ Reply(r)
  \/ Act(r) \/ Persist(r)

\* arbitrateConflict asks for one ruling after the other and bills the project
\* for each, whatever its budget.
Arbitrate(c) ==
  /\ \/ calls[c] < MaxRulings /\ Ask(c) /\ UNCHANGED faults
     \/ Call(c)
  /\ UNCHANGED <<loop, history>>

\* What nobody here does.
Outside == Midnight \/ Evict

RunnerNext ==
  \/ \E r \in Run : Start(r) \/ Loop(r)
  \/ \E c \in Caller \ Run : Arbitrate(c)
  \/ Outside /\ UNCHANGED <<loop, history>>

RunnerSpec == RunnerInit /\ [][RunnerNext]_avars

\* Queries, tools and model calls settle (see ModelCalls), and the event loop
\* serves them.
RunnerFairSpec == RunnerSpec /\ \A r \in Run : WF_avars(Loop(r))

-----------------------------------------------------------------------------
(* Properties *)

Over(r) == at[r] = "over"

\* acts[r] ends in n equal tool calls at position i.
SameUpTo(r, i, n) == i >= n /\ \A j \in (i - n + 1)..i : acts[r][j] = acts[r][i]

\* A run is stopped for lack of progress exactly when its last
\* NoProgressLimit tool calls were the same, never sooner, and never later,
\* whatever unparsable replies came in between. (run)
StopsWhenStuck ==
  \A r \in Run :
    /\ outcome[r] = "no_progress" => SameUpTo(r, Len(acts[r]), NoProgressLimit)
    /\ \A i \in 1..Len(acts[r]) :
         SameUpTo(r, i, NoProgressLimit) =>
           i = Len(acts[r]) /\ (at[r] = "persist" \/ outcome[r] = "no_progress")

\* The most one step can put into the ledger: one answer's cost or, with
\* counters that can fail after the row was inserted, both models'.
WorstStep ==
  IF HasBus THEN Max(PrimaryCost) + Max(OllamaCost) ELSE Max(PrimaryCost \cup OllamaCost)

\* What a caller may put into its project's ledger beyond the budget: a run one
\* step, and every step taken while the budget could not be read, an arbitration
\* all its rulings.
Leeway ==
  [c \in Caller |-> WorstStep * (IF c \in Run THEN 1 + blind[c] ELSE calls[c])]

\* However many runs spend on one project, each overshoots its budgets by one
\* step at most, save for the steps taken while the budget could not be read, and
\* nothing but the arbitrator's rulings comes on top of that.
\* (run, _overBudget, recordCost, arbitrateConflict)
BudgetsHold ==
  \A p \in Project :
    LET slack == SumOver(Leeway, CallersOf(p))
    IN /\ today[p] < DayBudget + slack
       /\ spent[p] < MonthBudget + slack

\* No run is turned away for its budget before a budget's worth is in the
\* project's ledger, and none that is turned away had asked the model in that step.
OnlyTheSpentAreStopped ==
  \A r \in Run : outcome[r] = "budget_exhausted" =>
    /\ spent[BilledTo[r]] >= Min({DayBudget, MonthBudget})
    /\ replies[r] = step[r]

\* What a run reports adds up: each step but the last got one reply from the
\* model, and the last one too unless the budget or the model stopped it.
StepsAddUp ==
  \A r \in Run :
    /\ calls[r] \in {replies[r], replies[r] + 1}
    /\ outcome[r] \in {"completed", "no_progress"} => replies[r] = step[r] + 1
    /\ outcome[r] = "max_steps" => replies[r] = MaxSteps

\* What a run is about, as its contract sees it.
PhaseOf(r) ==
  CASE at[r] = "ready" -> "ready"
    [] at[r] \in {"day", "month"} -> "deciding"
    [] at[r] = "call" -> "asking"
    [] at[r] \in {"act", "persist"} -> "acting"
    [] OTHER -> outcome[r]

\* The number of steps that a run reports: the one that finishes it, or in which it
\* gives up, counts, the one that the budget or the model stopped does not.
Reported(r) == IF outcome[r] \in {"completed", "no_progress"} THEN step[r] + 1 ELSE step[r]

\* The tool calls made, with the one that is about to be.
CallsOf(r) == IF at[r] = "act" THEN Append(acts[r], action[r]) ELSE acts[r]

Contract == INSTANCE AgentContract WITH
  phase <- [r \in Run |-> PhaseOf(r)],
  steps <- [r \in Run |-> Reported(r)],
  asked <- [r \in Run |-> calls[r]],
  answers <- replies,
  used <- [r \in Run |-> CallsOf(r)]

\* The loop with its window, its budget queries and its calls of two models that
\* pay as they go is a run of AgentContract: the model is asked once a step, after
\* the budget and before the tool, and the run gives up on a tool call that makes
\* NoProgressLimit equal ones, at that step, and on no other. (run)
KeepsContract == Contract!Spec

\* Every run that starts returns.
RunsEnd == \A r \in Run : at[r] # "ready" ~> Over(r)
=============================================================================
