# Zekka in TLA+

Specifications of the Zekka backend (`src/src/`): TLA+ modules, TLC
configurations that check them on small instances, and TLAPS proofs of the
results that hold for every instance. Paths below are relative to the
repository's `src/src/` unless they start with `src/`.

## The system

Zekka turns a project's requirements into software by running agents, loops
around a language model, through a staged workflow. It is a Node.js process
(Express) with PostgreSQL for what must last, Redis for what is shared, and a
workspace directory that the agents write to.

| Part | State it keeps | Operations | Interacts with |
|---|---|---|---|
| Workflow engine, `orchestrator/orchestrator.js` | `orchestration_projects`, `orchestration_tasks`; locals of each execution | `createProject`, `executeProject` → `executeStage` → `createTask`, `executeTask`, `resolveStageConflicts` → `checkForConflicts`, `arbitrateConflict`, `requeueTask` | agent loop (calls), Context Bus (footprints), model client (rulings), HTTP route (fire and forget) |
| Agent loop, `orchestrator/agent-runner.js`, `parse-action.js`, `tools/` | memory, footprint and action window of one run; files | `run`: budget, plan, parse, act, observe, persist | model client, tools, token economics, Context Bus |
| Model client, `services/model-client.js` | fallback counts | `generateOrchestratorResponse`, `generateArbitratorResponse`, streaming variants, `_fallbackToOllama` | external APIs, token economics, Context Bus |
| Token economics, `shared/token-economics.ts` | `cost_tracking` | `recordCost`, `getDailyCost`, `getMonthlyCost`, `getBudgetStatus`, `selectModel` | PostgreSQL, Context Bus counters |
| Context Bus, `shared/context-bus.ts` | Redis keys: contexts, locks, agent states, conflicts, counters | locks, agent states, conflicts, pub/sub, counters | everybody above |
| Arbitrator service, `arbitrator/server.js` | conflict records and the list of pending ones, on the bus | webhook, `/api/resolve`, `/api/conflicts` | Context Bus, model client, GitHub |
| Authentication, `services/auth.service.js`, `utils/session-manager.js`, `repositories/user.repository.js` | users; sessions in the memory of the process (the service makes its session manager without Redis) | login, refresh, logout, password change and reset | PostgreSQL |
| Migrations, `utils/migration-manager.js`, `cli/migrate.js` | lock row, bookkeeping table, the schema | migrate, rollback, status | PostgreSQL |
| Idempotency, `middleware/idempotency.js` | Redis markers and cached responses | one middleware | every write route that mounts it |
| Conversations, `services/conversation.service.js` | conversations, messages | send, stream, delete | idempotency in front, model client |
| Response cache, `utils/cache-manager.js` | Redis and a memory map | get, set, delete, getOrSet | external API client |
| External APIs, `utils/external-api-client.js`, `utils/circuit-breaker.js` | breaker state (opossum) | one method per provider | HTTP |
| Process lifecycle, `index.ts`, `app.js` | active requests | start-up, draining, shutdown | all |
| HTTP layer, CRUD services, audit, encryption, frontend | rows | handlers of one query | PostgreSQL |

What is hard, and what makes each part correct:

- **Executions are not kept apart.** `POST /execute` starts an execution and
  answers; two executions of one project interleave at every await and read and
  re-queue each other's tasks. Correct: each goes through its stages in order and
  sets every agent to work exactly once, exactly one writer of a path is kept, nobody is sent back for a path he
  did not write, and rows say `running` only while somebody runs.
- **Everything may reject.** The first update of `executeTask` and the updates
  in both `catch` blocks are unguarded; a footprint lapses after an hour; the
  process may die and nothing is recovered at start-up.
- **Paying is part of asking.** A cost is known after the answer; the ledger and
  two counters are updated one after the other inside the `try` whose `catch`
  asks the next model, and Redis may evict any of its counters. The arbitrator's
  rulings are billed to the project without a look at its budget. Correct: answers
  are in the ledger, counters do not lead it, every call returns, and concurrent
  runs overshoot a budget by a bounded amount, but for what the rulings cost.
- **A loop around a model** ends only because of its guards. Correct: it stops
  exactly when it repeats itself, and it always stops.
- **Sessions** are checked, and replaced, with awaits in between. Correct: no
  session outlives a password change but one stored by a request the change
  overtook; a token is exchanged once for each time it is sent, unless its requests
  overlap; the wrong passwords before a lock are bounded, but for those whose count
  is lost with a rejected query, and so are the sessions; old passwords stay out.
- **Migrations** hold a lock that is a row, and apply and record a migration over
  two connections. Correct: versions are recorded in order and without gaps, what
  is on record is in the database, no living process forgets the lock, who waits for
  it comes to an end, and two never run at once.
- **Markers and records with an expiry** (idempotency markers, conflict records)
  are read and written in separate commands, and Redis may drop them at any
  moment (`allkeys-lru`, `src/docker-compose.yml:116`). Correct: a marker
  protects unless both requests looked before either had written, and none is
  forgotten; list and records of conflicts differ only by what a fault has left.
- **Turns of a conversation** are two transactions with a model in between, while
  the conversation may be deleted. Correct: the delete takes every earlier message
  along, and every request is answered.

## Modules

| Module | Models | State ↔ code |
|---|---|---|
| `WorkflowContract` | what one execution promises | `phase`, `reached`, `turns`: the status an observer would give it, the stage it is at, how often each agent has been set to work |
| `AgentContract` | what one run of the agent loop promises | `phase`, `steps`, `asked`, `answers`, `used`: what the run is about or its outcome, the steps it reports, how often it asked and was answered, its tool calls |
| `Orchestrator` | the workflow engine, concurrent executions, process death | `status`, `row`, `note` are columns; `bus` the footprints in Redis; `disk` the last writer of each file; `pc`, `stage`, `agent` the await an execution is at and its loop counters; `wrote`, `unread`, `seen`, `contested`, `losers`, `ruling` its locals; `starts` (how often an agent was set to work on a task) and `missed` are history |
| `ModelCalls` | one call of the model client and `recordCost` | `point` the await; `source`, `bill`, `rows` the call's data; `spent`, `today` sums over `cost_tracking`; `counted`, `total` the Redis counters, which `Evict` drops one by one; `evicted` (what the total held whenever it was dropped) is history |
| `AgentRunner` | `run` and its guards, and the rulings of `arbitrateConflict`, extends `ModelCalls` | `at` the await; `step`, `recent`, `wrote` its locals; `outcome` the status it returns; `bus` the footprint it persists; callers outside `Run` arbitrate |
| `Migrations` | the migration manager as the CLI drives it, several processes | `lock`, `rows`, `schema`: lock row, bookkeeping rows, what is in the database; `pc`, `tries`, `todo` the await and locals of an invocation; `unmarked` and `unreleased` (whose own release was rejected) are history |
| `Sessions` | the account and sessions of one user, several requests at once | `password`, `past`, `failed`, `locked`, `reset` are columns of `users`; `store` is `memorySessions`; `job` the request in a slot, its await and locals; `worn`, `cut`, `raced`, `spent`, `misses`, `uncounted` are history |
| `Conversations` | turns of a conversation behind the idempotency middleware, and its delete | `conversation`, `message` are rows, `rowLock` the row lock of PostgreSQL; `shelf` the Redis entry of a key; `job`, `removal`, `swept` the awaits and locals of requests; `answer` what the client got; `late`, `loose`, `orphan` are history |
| `Arbitrator` | conflict records, their list, the webhooks that settle them, a reader | `record`, `pending` are Redis keys; `at` the await of a webhook; `said` the comment; `blank` the webhooks whose model answered `null`; `desk` the locals of a listing; `lost`, `unlisted`, `stranded` are history |
| `MCOrchestrator`, `MCRequeue`, `MCModelCalls`, `MCAgentRunner`, `MCMigrations`, `MCSessions`, `MCConversations`, `MCArbitrator` | small instances; `MCRequeue` adds a history variable of the tasks an execution found re-queued | |
| `OrchestratorProofs`, `ContractProofs`, `MigrationsProofs`, `ModelCallsProofs`, `AgentRunnerProofs`, `SessionsProofs`, `ConversationsProofs`, `ArbitratorProofs` | proofs | |

`Orchestrator` sees a run of the agent loop through its effect on shared state:
it writes at most `MaxSteps` files, persists its footprint after each one,
returns, and its final footprint is recorded. `AgentRunner` has the inside of a
run, several of them sharing a project's ledger, and is shown to implement
`AgentContract`, which has no window, no ledger and one model. `AgentRunner` contains
`ModelCalls`: a run is a caller and the model call in the middle of a step is
that module's. So are the calls of the orchestrator's arbitrator, which go through
the same client with the same project (`orchestrator/orchestrator.js:585-587`,
`services/model-client.js:112-167`, `429-438`) but ask nobody for a budget.

The other wirings of the model client: the conversation service makes one without
ledger and bus, whose calls bill nobody, and `Conversations` only knows that a turn
gets a reply or an apology; `Arbitrator` has a bus and no ledger. Neither puts anything
into a project's `cost_tracking`.

A stream is a turn of `Conversations` as far as its route takes it: the user's
message is stored, and the first event throws (see the divergences below). The
streaming code of the service and the model client is behind that event and is
not modelled.

History variables are read by no action but to keep them in bounds. They say which exceptions a
property allows: `loose` holds the keys for which Redis failed, an entry lapsed
under a request or two requests looked at the same time; `stranded` the
conflicts whose last commands failed; `unreleased` the processes whose own
`releaseLock` rejected, and `uncounted` the wrong passwords whose count was lost.

An action is the code between two awaits, with two exceptions that are named at
the actions: `AgentWrite` joins the file write with the footprint that follows
it, since nobody reads the workspace in between and a run that is cut off there
has not passed its stage; and the read-only awaits of a handler are part of the
step that uses them. Definitions called "A mistaken ..." are not used by any
specification: each is what a plausible slip in the definition after it would
look like, and says which property would notice.

Assumptions on the outside. A query or Redis command that rejects had no effect,
except in `createTask`, where the row may be there without the agent state. A
running agent's footprint does not lapse, since it is renewed at each tool call
and a run takes far less than the hour of its expiry. A month does not end during
the runs of `AgentRunner`. Costs are whole numbers of fractions of a dollar, in
place of `DECIMAL(12,6)`. A SQL migration is all or nothing (one multi-statement
query). `pg` hands `BIGINT` columns out as strings unless it is told otherwise;
`Migrations` covers both settings (`numeric`), since the code compares versions
as if they were numbers and the setting is not the repository's.
In `Sessions`, awaits of the in-memory store let no other request in, bcrypt's
answer depends only on the row read before it, and two refresh tokens differ. Bearer
tokens signed in one second are equal (`services/auth.service.js:692-707`), which
`Logout` allows for, and so are reset tokens (460-464), which carry the user and the
second alone: `MailReset` may send any token it has sent before again and put it back
into the row, one that has been exchanged as well. In
`Conversations`, transactions are READ COMMITTED, the tables have the columns
that `createMessageRecord` writes (`src/migrations/legacy/004_create_project_tables.sql`;
the fresh baseline 009 lacks some of them), and a command that rejects may have
been applied. The same holds in `Arbitrator`, where Redis also drops any key at
any time. The model's answer there is a verdict, no JSON, or JSON that is no object, of
which only `null` matters to what follows.
A query of `db.query` is tried up to three times when the connection is the trouble
(`config/database.js:148-181`, 251). In the parts modelled only reads go that way
(`getConversation` and the history of a conversation), so a retry repeats nothing; the
repository, the orchestrator, the migration manager and all transactions use the pool or
a client, which try once. "Rejects" means after the last try.
Files that the agents' tests change (`run_tests`) are in no footprint, in the code as in
the model, and `FootprintsTell` says nothing of them.

## Runs

| Run | Question | Bounds, and why they suffice |
|---|---|---|
| `Orchestrator_crew` | type; `OneKeeperPerPath`, `NotesAreJust`, `FootprintsTell`, `RunningHasRunner`, `RunningHasExecution` | two executions of one project, one stage with a crew of two, one path, one write per agent, one fault or lapse, one death of the process: a path has up to four writers from two executions, so each check can see any mix of finished, running, cut-off and re-queued tasks. The update that rejects in a `catch` after another rejection takes two faults and is covered by the theorems |
| `Orchestrator_stages` | `KeepsContract` (refinement of `WorkflowContract`), `ExecutionsEnd` | two executions, two stages, one agent each, one fault: an execution can be re-queued by the other in the stage it is in, has left, or has not reached |
| `Orchestrator_requeue` | what the comment on `requeueTask` says; violated | no faults and no crashes needed |
| `ModelCalls_paying` | type; `AnswersArePaid`, `MetricsLagLedger`, `CallsReturn` | two callers, two projects, two calls each, primary answers of half a dollar and a dollar, Ollama answers of a dollar (half a dollar: next row), one fault, any number of evictions. The end of a day is a step of `AgentRunner`, whose budgets look at the day |
| `ModelCalls_failure` | what the error of a failed call says; violated | costs of half a dollar, no faults |
| `AgentRunner_loop` | type; `StopsWhenStuck`, `KeepsContract` (refinement of `AgentContract`), `RunsEnd` | one run of five steps, two tool calls, window of three: the window fills, slides twice, and can be all but full of equal calls |
| `AgentRunner_budget` | `BudgetsHold`, `OnlyTheSpentAreStopped` | two runs of two steps and one ruling of the arbitrator on one project, costs of 2 (primary) and 1 (Ollama), day budget 2, month budget 3, one midnight, one fault: each budget can be the one that trips, and the ruling can come between a budget query and the cost of its step |
| `Migrations_bookkeeping` | type; `NoGaps`, `RecordedIsApplied`, `LockHasHolder`, `ProcessesEnd` | three processes, each with any of three commands; two versions, two attempts at the lock, so that a process waits for a held lock and takes it or gives up, one rejected query, one death: enough for one process to lose its lock to another that gave up and for a third to work beside it |
| `Migrations_exclusion` | what the module's header says of the lock; violated | no faults and no deaths needed |
| `Sessions_account` | type; `SessionsRestOnPassword`, `ExchangedOnce`, `MissesAreBounded`, `StoreIsBounded`, `NoReuse` | two requests at a time, two passwords, two sessions, lock at two failures, history of one, three token pairs, two changes, one reset token, which may be sent any number of times, before and after it has been exchanged, one wrong password whose count is lost: a request can be overtaken by a change and its successor refreshed, both changes can overlap, and the store is full after two logins. Two different reset tokens are left to the theorem. Requests and passwords are symmetric |
| `Conversations_turns` | type; `RunsOncePerKey`, `MarkerHasOwner`, `DeletesWhole`, `RequestsEnd` | two turns, sent or streamed, one key, two deletes, two faults or restarts, any number of lapses: each of two requests can be the late one, and a turn can fall between, before or after the deletes |
| `Arbitrator_webhooks` | type; `ListMatchesRecords`, `CommentTellsRecord`, `ListingIsJust`, `WebhooksEnd` | two webhooks, two faults or restarts, any number of listings and drops, verdicts or `null`: a listing reads one record before and one after a step of their webhooks |

`AgentRunner`'s runs have no Context Bus: with it, a fractional cost fails every
call (finding 2), and runs would all end at their first step.
Deadlock is not checked: all requests may have been served, all invocations of
the migration CLI may be over, and no further request need come. The properties of `Migrations` keep clear of mutual
exclusion on purpose: they are what remains true although the lock does not keep
processes apart.

Fairness. `Orchestrator` assumes weak fairness of each execution's next step:
every await settles and the event loop serves what has settled. Model calls have
timeouts (60 s, 120 s for Ollama); queries of the shared pool have one too
(`config/database.js`), those of the orchestrator's and the migration manager's own
pools and the commands of Redis do not: of the project's own PostgreSQL and Redis it is
assumed that they answer or that the connection breaks, upon which the drivers reject.
Requests, crashes, faults and lapses are not promised. `ModelCalls` and `AgentRunner`
assume the same of each call and each run; midnight, evictions and rulings are not
promised. `Migrations` assumes it of each invocation that has been started: its queries
settle and the timer of `acquireLock` fires; that a held lock is released is not
assumed. `Conversations` assumes it of each turn and delete; lapses and restarts are not
promised. `Arbitrator` assumes it of each webhook up to its comment: the request to
GitHub has no timeout (`arbitrator/server.js:250-259`), so nothing promises its end, and
`WebhooksEnd` ends where it begins. `Sessions` has no liveness property: its requests
have no loop and wait for nothing but queries.

## Findings

1. **Re-queued work is never redone** (`Orchestrator_requeue`).
   `requeueTask` resets a losing task to `pending` "so a subsequent execution
   pass redoes the work" (`orchestrator/orchestrator.js:603-604`), but an
   execution runs only the tasks it has created.
2. **Paying fails calls that were answered** (`ModelCalls_failure`).
   Costs are fractions of a dollar and go to `INCRBY`
   (`shared/context-bus.ts:501`), which takes integers; both models answer, both
   answers enter the ledger, and the call fails with "Primary and Ollama
   unavailable" (`services/model-client.js:456`).
3. **The migration lock does not exclude** (`Migrations_exclusion`). A process
   that cannot get the lock gives up and runs the `finally` block of `migrate`,
   which releases the lock (`utils/migration-manager.js:428-430`) of whoever holds
   it; the next process takes it and two run at once, contrary to "Migration
   locking to prevent concurrent runs" (`utils/migration-manager.js:9`).

Divergences met on the way that no run is about: `selectModel` degrades to
Ollama near the budget ("Automatically switches to Ollama when budget thresholds
are reached", `shared/token-economics.ts:46`) but the orchestrator's calls ignore
the model it names (`services/model-client.js:190-208`); `ARCHITECTURE.md:298-300`
speaks of parallel agents with file locks, while agents run one by one and nobody
requests a lock; `ARCHITECTURE.md:338` shows Claude as a first fallback, the code
has none; budgets of a project (`orchestrator/orchestrator.js:192-193`) are stored
and never read: the global budget is compared with each project's spending.
`DRY RUN MODE - No changes will be made` (`utils/migration-manager.js:267`) is
logged before the SQL is executed all the same, outside any transaction (276-282).
With `pg`'s default strings, `executedVersions.has` and `find`
(`utils/migration-manager.js:202`, `457`) never match: a second `migrate` starts
over at version 1 and stops at its `INSERT`, and `rollback` finds no file. A version that was rolled back can never be recorded again (`UNIQUE`, line 53).
"Invalidate all sessions except current" (`services/auth.service.js:422`) precedes a
call that invalidates all of them. The limit on bearer entries counts the refresh
entries as well, since every key starts with the prefix `''` it is given
(`utils/session-manager.js:547-565`): a login may end a session although fewer than
five are open. `Idempotency-Key`s are not scoped by user or route
(`middleware/idempotency.js:55`). "Manual conflict resolution endpoint"
(`arbitrator/server.js:266`) never resolves anything: it hands the conflict record to
`resolveConflict`, which reads `pullRequest.base.repo` of it and fails. A verdict
`manual`, and an answer that is no JSON, are recorded as `resolved`, taken off the list
and announced as "Conflict resolved automatically" (`arbitrator/server.js:196-212`, `129-134`).
"Cost tracking" (`arbitrator/server.js:240`) does not happen: its model client has no
ledger. The ids of conflicts whose records have expired stay on the list for ever
(`shared/context-bus.ts:440-454`). "This endpoint supports Server-Sent Events (SSE) for
streaming AI responses" (`controllers/conversations.controller.js:248`), but the route
hands `sendMessageStream` over unbound (`routes/conversations.routes.js:165`): `this` is
undefined, so the first event throws once the user's message is stored (controller
273), the event of the error throws again (291), and the error handler finds the headers
sent, whereupon the connection is cut. No model is ever asked; the unit tests call the
method on the controller
(`src/tests/unit/controllers/conversations.controller.test.js:98`). A model that answers
the JSON `null` has its conflict settled, and the pull request is told that it could not
be: the explanation is read after the update (`arbitrator/server.js:206-220`). A reset
token that has been used can be put back by a second request of the same second
(`services/auth.service.js:460-467`). A wrong password whose `UPDATE` rejects is not
counted (235-237). The arbitrator's rulings are billed to a project whose budget is spent
(`orchestrator/orchestrator.js:585-587`), and Redis may evict `metric:cost:total` while
the projects' counters stay, which then add up to more than the total.

## Proofs

About `Orchestrator`, for every set of executions, projects and
paths, every list of stages and crews, and every bound on steps, faults and
crashes, from the two named assumptions of that module.

- `TypeCorrect`: `TypeOK`, together with `Placed`: an execution at a point inside
  a stage has a stage number of at least one and an agent within that stage's
  crew. `TypeOK` alone is not inductive, since the next agent's number would not
  be known to be one.
- `RunningTasksAttended`: `RunningHasRunner`. It rests on `StepsAreLocal` (a step
  moves the control of one execution and counts at most one fault) and is
  inductive with `FaultsCounted`: at the points that only a fault leads to, a
  fault has been counted. Without it the second, unrecorded fault could not be
  told from the first.
- `RunningProjectsAttended`: `RunningHasExecution`, inductive with the types.
- `ContractKept`: `Spec => KeepsContract`, where the contract counts how often each agent
  is set to work, by the history `starts`: a task that is set to work again, re-queued or
  not, is no step of the contract. The inductive invariant is
  `AllStaged`: what a program point says of its crew (`Staged`: which agents
  of the present stage have been set to work) and that only tasks that were set
  to work are in footprints, checks and rulings (`OnlyWorked`), with `StartsCounted`:
  the tasks whose rows tell that they were set to work (`HasRun`) have been so once, the
  others never. `StepRefines` then maps each step to one of the contract or to a stutter.
- `WritesReachTheDetector`: `FootprintsTell`, inductive in `WritesKnown`: the last
  writer of a file has been set to work, knows of the file while it is at work, and
  has it in its footprint afterwards, unless that lapsed or its execution broke off
  in this stage and will not pass it.
- `RequeuesAreJust`: `NotesAreJust`, from `FairlyJudged`: all that a check has read,
  found contested or ruled is about tasks of its project and stage and paths that
  they had (`Sound`), which outlasts what other executions do to those tasks.
- `OneIsKept`: `OneKeeperPerPath`. The invariant `Judged` says of two tasks that have
  finished with one path that one of them is sent back, or that one of the two
  executions still owes it (`Owes`): it has not begun its check, has yet to read them,
  to rule on the path or to re-queue a loser. The execution that comes to its check
  last finds both footprints complete.

About `Migrations`, for every set of processes, every number of versions and every
bound, from `MigrationsAssumption`:

- `TypesKept`: `TypeOK`, which is inductive: who goes on waiting for the lock has had
  fewer attempts than `MaxTries`, and the count ends with `acquireLock`.
- `BookkeepingHasNoGaps`: `NoGaps`. The row a process is about to insert is
  justified by what it listed long before, so the inductive invariant `Ordered`
  relates each process's list to the rows as they are now: below a version still to
  do there are only versions to do or on record. It survives the other processes
  because a row, once there, stays (`RowsStay`).
- `RecordedApplied`: `RecordedIsApplied`, with `AppliedFirst`: a process about to
  insert a first row for a version has applied it and nobody has undone it since;
  that needs the part of `Ordered` about rollbacks, which only undo what is on record.
- `LockAccountedFor`: `LockHasHolder`, inductive with the types: every way through
  `migrate` and `rollback` ends in `Release`, and only a rejection there puts a process
  into `unreleased`.

About `Sessions`, for every number of requests at a time, every set of passwords,
and every value of the three limits and of the bounds, from `SessionsAssumption`
(the requests at a time are finitely many, which the count of misses needs):

- `SessionsRest`: `SessionsRestOnPassword`. A session is stored long after the
  request was let in, so the inductive `RestInv` says the same of each request that
  can still store one: it goes back to the present password, is marked as
  overtaken, or is excused as sessions are.
- `TokensExchangedOnce`: `ExchangedOnce`, inductive in `TokenInv`: an exchanged
  token that has not been sent again is nowhere to be had (`Gone`), tokens held have been
  issued (`Held`), and two requests with one token know of each other. Reset tokens need
  not differ.
- `MissesBounded`: `MissesAreBounded`, from `MissInv`: until the lock, misses are
  within the count in the row and those whose count was lost; after it, misses and the requests that still compare
  are together bounded.
- `StoreBounded`: `StoreIsBounded`, with `StoreInv`: kind and pair tell the entries
  apart, and none is newer than the last pair issued. Without it the eviction could
  take equal entries for none newer than the other and keep them all.
  `EnforceKeepsTheNewest` bounds what `Enforce` leaves, by an injection into the ranks.
- `PasswordsAreNew`: `NoReuse`, an action property. `WornInv` ties the stored history
  to all the passwords worn, and a request that has vetted its password since the last
  change to both.
- `TypesKept`: `TypeOK`, inductive with `TrailsAreShort` (a history an update is
  about to write has the length allowed).

About `Conversations`, for every number of turns, deletes, keys and faults, from
`ConversationsAssumption` (turns and the marker of nobody are none of the words
that stand for answers and the in-flight marker, which `shelf` and `answer` could
not tell apart):

- `OncePerKey` and `MarkersOwned`: `RunsOncePerKey` and `MarkerHasOwner`, from
  `KeyInv`. Its main part, `OneUnderWay`, says of a key whose protection has not
  failed that no two turns are under way with it, that the one that is has found no
  entry or has marked it, and that a success stays on the shelf; `WrappedOnTheWay` and
  `StoredOnTheWay` tie the answer and the messages of a turn to where it is.
- `DeletedWhole`: `DeletesWhole`, inductive with `LockKept` (who has updated the
  conversation's row holds it until the end of its transaction) and `SweptAll` (a
  delete that has swept still sees all there is).
- `TypesKept`: `TypeOK`, inductive with `LockKept` and `KeyInHand`.

About `Arbitrator`, for every set of conflicts and number of faults, from
`ArbitratorAssumption`:

- `ListAndRecordsAgree`: `ListMatchesRecords`, with `TakenOffOnceSettled`: whoever is
  about to take a conflict off the list has settled its record.
- `CommentsAreTrue`: `CommentTellsRecord`, with `OnTheWay`: what each await of a
  webhook implies of the record it will speak of, whatever the model answered.
- `ListingsAreJust`: `ListingIsJust`, with `ReadsTheDue`: a listing has left to read
  only what it may show.
- `TypesKept`: `TypeOK`, with `NotBefore`: before its webhook has come to the model a
  record is not settled.

About `ModelCalls`, for every number of callers, projects, calls and faults and all
costs, from `ModelCallsAssumption` (callers and projects are finitely many, or there
would be no sum of their costs):

- `PaidAnswers` and `TypesKept`: `AnswersArePaid` and `TypeOK`, inductive together
  with `PaidOnTheWay`: a cost is recorded for a model that has answered, and what
  comes after the insertion of its row finds it inserted.
- `MetricsBehindLedger`: `MetricsLagLedger`, from `Behind`: each counter with the bills
  that are on their way to it is within the ledger, and the projects' counters within the
  total, the bills between the two counters and what was evicted of the total. It speaks of sums over callers and
  projects, so the module begins with lemmas on `SumOver`: that it is a number, what a
  change of the function at one point does to it, and what smaller functions do.
  `SumOver` is the number of units that are summed, `Cardinality` of a disjoint union,
  since a sum by recursion over a set would be beyond the provers; an assumption of
  `MCModelCalls` has TLC compare it with `MapThenSumSet` of the community modules.

About `AgentRunner`, for every number of runs and tools, every window, all budgets, from
`AgentRunnerAssumption` (no tool call and no status is the value that stands for
"none yet"; there is a dearest answer of each model, or nothing would bound a step).
`CallsAndLedger` takes the invariant of the calls over from `ModelCallsProofs` and adds
that the ledger of a month only grows.

- `RunsAddUp` and `RunnerTypesKept`: `StepsAddUp` (which no run checks by itself: the
  refinement below implies it) and `RunnerTypeOK`, inductive with
  `Counted`: the await a run is at tells how many calls it has made, and how many
  answers it has got, in terms of its step.
- `OnlySpentStopped`: `OnlyTheSpentAreStopped`, from `Spending`: what a run has read
  of a day is in the month's ledger, whatever midnight does afterwards.
- `StoppedWhenStuck`: `StopsWhenStuck`, from `Watches`: the window holds the last of
  the tool calls noted in it, and no `NoProgressLimit` of them have been the same but
  at the end. The lemmas `SlideIs` and `StuckIs` say what the window does.
- `BudgetsAreKept`: `BudgetsHold`, from `Reserved`: the ledger together with all that
  the steps and rulings under way can still add (`StillToCome`, by the await their calls
  are at) keeps within the budget's slack (`Leeway`: a step for each run and blind step,
  and all the rulings of an arbitration). Only with the reserve is the step between the budget
  query and the row in the ledger accounted for when another run passes the same query.
- `ContractKept`: `RunnerSpec => KeepsContract`. `RunRefines` maps each step of a run to
  one of `AgentContract` or to a stutter; the no-progress guard, a test of the window,
  is the contract's test of all tool calls by `AfterSlide`, and what the contract sees
  of the other runs stays (`RunsAreApart`).

Only model-checked: that executions, calls, runs, migration processes, requests and
webhooks come to an end (`ExecutionsEnd`, `CallsReturn`, `RunsEnd`, `ProcessesEnd`,
`RequestsEnd`, `WebhooksEnd`), since liveness under fairness is out of the prover's
reach; and the three violated claims, which are counterexamples. Every invariant, every
action property and both refinements that the passing runs check are theorems.

## Plan

What could be stated and proved next: that the idempotency middleware with its route
implements a route that runs once per key, as a third refinement, and a contract for the
migration manager without its lock. Further afield, models of the parts below whose state
is more than one statement, as they get one.

## Not modelled

External APIs but for whether a call answers, and the circuit breaker
(third-party code; `breaker.execute` is called where opossum has `fire`, which only the
mocks of the tests hide); the HTTP layer and its per-request checks; websockets; the
CRUD services (projects, preferences, sources, tenants, analytics, GDPR), where a
handler is one statement; audit, encryption, vault and password policy; reports; the
archived code under `src/archive`; the web frontend. There is no protocol between
actors there that a model would tell apart, and they are most of the repository: the
definitions of this project stand for the part that has one.

Also left out: the response cache, whose only caller is `callGitHub`; the file locks of
the Context Bus, which nothing requests; the Redis variant of the session manager,
which nothing instantiates; streaming beyond the first event of its route; registration
and email verification; editing single messages; the draining of requests at shutdown,
whose outcome, requests cut off, is a restart in the modules. `src/migrations/runner.js` is a second migration runner, which
no script of `package.json` calls; it takes no lock.
