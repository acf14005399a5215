----------------------------- MODULE ModelCalls -----------------------------
(***************************************************************************)
(* Asking a model and paying for it: ModelClient                           *)
(* (src/src/services/model-client.js) and TokenEconomics                   *)
(* (src/src/shared/token-economics.ts).                                    *)
(*                                                                         *)
(* A call goes to the primary model; whatever throws on the way, paying    *)
(* included, sends it to Ollama.  A cost is first inserted into            *)
(* cost_tracking, then added to two Redis counters with INCRBY, which      *)
(* takes integers only.  Callers interleave at every await, and Redis, at  *)
(* the limit of its memory, evicts whichever counter it likes.             *)
(***************************************************************************)
EXTENDS Integers, FiniteSets, FiniteSetsExt

CONSTANTS Caller,       \* concurrent users of the client
          Project,
          BilledTo,     \* BilledTo[c]: the project a caller's calls are billed to
          PrimaryCost,  \* possible costs of a primary answer, in fractions of a dollar
          OllamaCost,   \* possible costs of an Ollama answer
          Dollar,       \* fractions per dollar
          HasBus,       \* whether a ContextBus was handed to the constructors
          MaxCalls,     \* bound: calls of one caller
          MaxDays,      \* bound: days of the month that pass
          MaxFaults     \* bound: queries and increments that fail

ASSUME ModelCallsAssumption ==
  /\ IsFiniteSet(Caller) /\ IsFiniteSet(Project)
  /\ BilledTo \in [Caller -> Project]
  /\ PrimaryCost \subseteq Nat /\ OllamaCost \subseteq Nat
  /\ Dollar \in Nat \ {0}
  /\ HasBus \in BOOLEAN
  /\ MaxCalls \in Nat /\ MaxDays \in Nat /\ MaxFaults \in Nat

VARIABLES
  point,     \* point[c]: the await the call of c is at
  source,    \* source[c]: the model that answered last in this call
  bill,      \* bill[c]: the cost recordCost is recording
  calls,     \* calls[c]: calls made
  rows,      \* rows[c]: models that the present call inserted a row for
  answered,  \* answered[c]: models that answered in the present call (history)
  spent,     \* spent[p]: SUM(cost_usd) over this month's cost_tracking rows
  today,     \* today[p]: SUM(cost_usd) over today's
  counted,   \* counted[p]: metric:cost:{p}
  total,     \* metric:cost:total
  evicted,   \* what metric:cost:total held whenever it was evicted (history)
  days,      \* days that have passed
  faults

call == <<source, bill, calls, rows, answered>>
ledger == <<spent, today>>
metrics == <<counted, total, evicted>>
mvars == <<point, call, ledger, metrics, days, faults>>

AtRest == {"idle", "answered", "failed"}
Waiting == {"primary", "ollama", "fallback", "insert", "total", "project"}
Model == {"primary", "ollama"}

TypeOK ==
  /\ point \in [Caller -> AtRest \cup Waiting]
  /\ source \in [Caller -> Model \cup {"none"}]
  /\ bill \in [Caller -> PrimaryCost \cup OllamaCost \cup {0}]
  /\ calls \in [Caller -> 0..MaxCalls]
  /\ rows \in [Caller -> SUBSET Model]
  /\ answered \in [Caller -> SUBSET Model]
  /\ spent \in [Project -> Nat]
  /\ today \in [Project -> Nat]
  /\ counted \in [Project -> Nat]
  /\ total \in Nat
  /\ evicted \in Nat
  /\ days \in 0..MaxDays
  /\ faults \in 0..MaxFaults

Init ==
  /\ point = [c \in Caller |-> "idle"]
  /\ source = [c \in Caller |-> "none"]
  /\ bill = [c \in Caller |-> 0]
  /\ calls = [c \in Caller |-> 0]
  /\ rows = [c \in Caller |-> {}]
  /\ answered = [c \in Caller |-> {}]
  /\ spent = [p \in Project |-> 0]
  /\ today = [p \in Project |-> 0]
  /\ counted = [p \in Project |-> 0]
  /\ total = 0
  /\ evicted = 0
  /\ days = 0
  /\ faults = 0

Goto(c, p) == point' = [point EXCEPT ![c] = p]

Fault == faults < MaxFaults /\ faults' = faults + 1

\* What an exception leads to: the primary's catch turns to Ollama, Ollama's
\* catch gives up.
Throw(c) == Goto(c, IF source[c] = "ollama" THEN "failed" ELSE "ollama")

-----------------------------------------------------------------------------
(* The two models *)

Ask(c) ==
  /\ point[c] \in AtRest
  /\ calls[c] < MaxCalls
  /\ calls' = [calls EXCEPT ![c] = @ + 1]
  /\ source' = [source EXCEPT ![c] = "none"]
  /\ rows' = [rows EXCEPT ![c] = {}]
  /\ answered' = [answered EXCEPT ![c] = {}]
  /\ Goto(c, "primary")
  /\ UNCHANGED <<bill, ledger, metrics, days>>

\* A mistaken Answers: input and output tokens are both counted twice.
AnswersTwice(c, m, cost) ==
  /\ source' = [source EXCEPT ![c] = m]
  /\ answered' = [answered EXCEPT ![c] = @ \cup {m}]
  /\ bill' = [bill EXCEPT ![c] = 2 * cost]
  /\ UNCHANGED <<calls, rows, ledger, metrics, days, faults>>

\* Model m answers with an answer of the given cost.
Answers(c, m, cost) ==
  /\ source' = [source EXCEPT ![c] = m]
  /\ answered' = [answered EXCEPT ![c] = @ \cup {m}]
  /\ bill' = [bill EXCEPT ![c] = cost]
  /\ UNCHANGED <<calls, rows, ledger, metrics, days, faults>>

Primary(c) ==
  /\ point[c] = "primary"
  /\ \/ \E cost \in PrimaryCost : Answers(c, "primary", cost) /\ Goto(c, "insert")
     \/ Throw(c) /\ UNCHANGED <<call, ledger, metrics, days, faults>>

\* A mistaken Ollama: as long as neither has answered it starts all over.
OllamaOrPrimary(c) ==
  /\ point[c] = "ollama"
  /\ \/ /\ \E cost \in OllamaCost : Answers(c, "ollama", cost)
        /\ Goto(c, IF HasBus THEN "fallback" ELSE "insert")
     \/ /\ Goto(c, IF source[c] = "none" THEN "primary" ELSE "failed")
        /\ UNCHANGED <<call, ledger, metrics, days, faults>>

\* _fallbackToOllama. Ollama's answer is logged on the bus before it is paid.
Ollama(c) ==
  /\ point[c] = "ollama"
  /\ \/ /\ \E cost \in OllamaCost : Answers(c, "ollama", cost)
        /\ Goto(c, IF HasBus THEN "fallback" ELSE "insert")
     \/ /\ Goto(c, "failed")
        /\ UNCHANGED <<call, ledger, metrics, days, faults>>

CountFallback(c) ==
  /\ point[c] = "fallback"
  /\ \/ Goto(c, "insert") /\ UNCHANGED faults
     \/ Throw(c) /\ Fault
  /\ UNCHANGED <<call, ledger, metrics, days>>

-----------------------------------------------------------------------------
(* recordCost *)

\* A mistaken InsertRow: a failed INSERT is logged and forgotten.
InsertRowOrShrug(c) ==
  /\ point[c] = "insert"
  /\ \/ /\ spent' = [spent EXCEPT ![BilledTo[c]] = @ + bill[c]]
        /\ today' = [today EXCEPT ![BilledTo[c]] = @ + bill[c]]
        /\ rows' = [rows EXCEPT ![c] = @ \cup {source[c]}]
        /\ UNCHANGED faults
     \/ Fault /\ UNCHANGED <<ledger, rows>>
  /\ Goto(c, IF HasBus THEN "total" ELSE "answered")
  /\ UNCHANGED <<source, bill, calls, answered, metrics, days>>

\* INSERT INTO cost_tracking
InsertRow(c) ==
  /\ point[c] = "insert"
  /\ \/ /\ spent' = [spent EXCEPT ![BilledTo[c]] = @ + bill[c]]
        /\ today' = [today EXCEPT ![BilledTo[c]] = @ + bill[c]]
        /\ rows' = [rows EXCEPT ![c] = @ \cup {source[c]}]
        /\ Goto(c, IF HasBus THEN "total" ELSE "answered")
        /\ UNCHANGED faults
     \/ /\ Fault
        /\ Throw(c)
        /\ UNCHANGED <<ledger, rows>>
  /\ UNCHANGED <<source, bill, calls, answered, metrics, days>>

Whole(cost) == cost % Dollar = 0

\* A mistaken CountTotal: when the total cannot be raised the project's counter
\* still is.
CountTotalOrShrug(c) ==
  /\ point[c] = "total"
  /\ \/ Whole(bill[c]) /\ total' = total + bill[c] /\ UNCHANGED faults
     \/ Fault /\ UNCHANGED total
  /\ Goto(c, "project")
  /\ UNCHANGED <<call, ledger, counted, evicted, days>>

\* INCRBY metric:cost:total: Redis rejects an increment that is no integer.
CountTotal(c) ==
  /\ point[c] = "total"
  /\ \/ /\ Whole(bill[c])
        /\ total' = total + bill[c]
        /\ Goto(c, "project")
        /\ UNCHANGED faults
     \/ /\ ~Whole(bill[c])
        /\ Throw(c)
        /\ UNCHANGED <<total, faults>>
     \/ Fault /\ Throw(c) /\ UNCHANGED total
  /\ UNCHANGED <<call, ledger, counted, evicted, days>>

\* INCRBY metric:cost:{project}, of the same cost.
CountProject(c) ==
  /\ point[c] = "project"
  /\ \/ /\ counted' = [counted EXCEPT ![BilledTo[c]] = @ + bill[c]]
        /\ Goto(c, "answered")
        /\ UNCHANGED faults
     \/ Fault /\ Throw(c) /\ UNCHANGED counted
  /\ UNCHANGED <<call, ledger, total, evicted, days>>

Call(c) ==
  \/ Primary(c) \/ Ollama(c) \/ CountFallback(c)
  \/ InsertRow(c) \/ CountTotal(c) \/ CountProject(c)

\* getDailyCost sums the rows of the current date only. No step of Spec: a call
\* does not look at the day, but the budget of AgentRunner does.
Midnight ==
  /\ days < MaxDays
  /\ days' = days + 1
  /\ today' = [p \in Project |-> 0]
  /\ UNCHANGED <<point, call, spent, metrics, faults>>

\* Redis runs with maxmemory-policy allkeys-lru: any counter may be gone, and the
\* next INCRBY starts it from nothing.
Evict ==
  /\ HasBus
  /\ \/ /\ total > 0
        /\ total' = 0
        /\ evicted' = evicted + total
        /\ UNCHANGED counted
     \/ /\ \E p \in Project : counted[p] > 0 /\ counted' = [counted EXCEPT ![p] = 0]
        /\ UNCHANGED <<total, evicted>>
  /\ UNCHANGED <<point, call, ledger, days, faults>>

Next ==
  \/ \E c \in Caller : (Ask(c) /\ UNCHANGED faults) \/ Call(c)
  \/ Evict

Spec == Init /\ [][Next]_mvars

\* A model answers or its timeout ends the wait, PostgreSQL and Redis answer or
\* their connections break: a call moves on.
FairSpec == Spec /\ \A c \in Caller : WF_mvars(Call(c))

-----------------------------------------------------------------------------
(* Properties *)

\* The answer a caller gets is in the ledger under the model that gave it, and
\* no model that gave no answer is. (generateOrchestratorResponse, recordCost)
AnswersArePaid ==
  \A c \in Caller :
    /\ point[c] = "answered" => source[c] \in rows[c]
    /\ rows[c] \subseteq answered[c]

\* The sum of f over S, counted out unit by unit: a sum by recursion over S would
\* be beyond the provers.
SumOver(f, S) == Cardinality(UNION {{x} \X (1..f[x]) : x \in S})

CallersOf(p) == {c \in Caller : BilledTo[c] = p}

\* The metrics never run ahead of the ledger, nor the projects' counters of
\* the total and of what Redis has evicted of it, however the recordings of
\* different callers interleave and fail. (recordCost)
MetricsLagLedger ==
  /\ \A p \in Project : counted[p] <= spent[p]
  /\ total <= SumOver(spent, Project)
  /\ SumOver(counted, Project) <= total + evicted

\* A call that gives up says 'All models failed ... Primary and Ollama
\* unavailable' (model-client.js:456): neither model gave an answer.
FailureMeansUnavailable ==
  \A c \in Caller : point[c] = "failed" => answered[c] = {}

\* Every call comes back with an answer or an error.
CallsReturn == \A c \in Caller : point[c] \in Waiting ~> point[c] \in AtRest
=============================================================================
