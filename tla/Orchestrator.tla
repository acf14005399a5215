---------------------------- MODULE Orchestrator ----------------------------
(***************************************************************************)
(* The workflow engine, src/src/orchestrator/orchestrator.js.              *)
(*                                                                         *)
(* POST /api/projects/:id/execute starts executeProject and answers at     *)
(* once (src/src/index.ts:551); nothing keeps two executions of a project  *)
(* apart.  Inside one execution everything is sequential: an action below  *)
(* is the code between two awaits that reach PostgreSQL, Redis or the      *)
(* workspace, and the actions of different executions interleave.          *)
(*                                                                         *)
(* An agent's run (AgentRunner.tla) is seen here through what it does to   *)
(* shared state: it writes files, records its footprint on the Context     *)
(* Bus, and returns a status.                                              *)
(***************************************************************************)
EXTENDS Integers

CONSTANTS Execution,  \* accepted execute requests
          Project,    \* orchestration_projects rows
          ProjectOf,  \* ProjectOf[e]: the project the request names
          NumStages,  \* length of the stage list (8 in the code)
          MaxAgents,  \* the largest crew (6 in the code)
          AgentsOf,   \* AgentsOf[s]: the crew of the s-th stage
          Path,       \* path strings agents pass to write_file
          File,       \* files of the workspace
          FileOf,     \* FileOf[p]: the file resolveInWorkspace turns p into
          MaxSteps,   \* tool calls of one agent run that write (maxSteps, 12)
          MaxFaults,  \* bound: calls that reject and footprints that lapse
          MaxCrashes, \* bound: deaths of the process
          None        \* no writer

Stage == 1..NumStages
Agent == 1..MaxAgents

ASSUME OrchestratorAssumption ==
  /\ NumStages \in Nat \ {0}
  /\ MaxAgents \in Nat \ {0}
  /\ AgentsOf \in [Stage -> Agent]
  /\ ProjectOf \in [Execution -> Project]
  /\ FileOf \in [Path -> File]
  /\ MaxSteps \in Nat \ {0}
  /\ MaxFaults \in Nat
  /\ MaxCrashes \in Nat

\* A task is named by the execution that created it, its stage and its agent;
\* createTask gives each one a fresh uuid.
Task == Execution \X Stage \X Agent

ASSUME NoneAssumption == None \notin Task \cup (Path \X Task)

VARIABLES
  status,    \* status[p]: orchestration_projects.status
  row,       \* row[t]: orchestration_tasks.status, "absent" before the INSERT
  note,      \* note[t]: error_message, <<path, winner>> of a lost conflict
  bus,       \* bus[t]: filesWritten of agent:{task}:{agent} in Redis
  disk,      \* disk[f]: the task that wrote f last
  pc,        \* pc[e]: the await execution e is at
  stage,     \* stage[e]: position in the stage list
  agent,     \* agent[e]: loop counter of executeStage
  step,      \* step[e]: writes made by the running agent
  wrote,     \* wrote[e]: filesWritten of the running agent
  unread,    \* unread[e]: rows checkForConflicts still has to look up
  seen,      \* seen[e]: <<task, path>> pairs found so far (byFile)
  contested, \* contested[e]: conflicts resolveStageConflicts has not ruled on
  losers,    \* losers[e]: losers of the present ruling still to re-queue
  ruling,    \* ruling[e]: the present ruling, <<path, winner>>
  missed,    \* tasks whose footprint lapsed or a check failed to read (history)
  starts,    \* starts[t]: how often an agent was set to work on t (history)
  faults, crashes

exec == <<pc, stage, agent>>
run == <<step, wrote>>
judge == <<unread, seen, contested, losers, ruling, missed>>
vars == <<status, row, note, bus, disk, exec, run, judge, starts, faults, crashes>>

Over == {"completed", "failed", "unrecorded", "crashed"}
Points == {"idle", "next", "create", "start", "agent", "record", "catchTask",
           "check", "scan", "rule", "requeue", "catch"} \cup Over
Active == Points \ (Over \cup {"idle"})

Rows == {"absent", "pending", "running", "completed", "failed"}

TypeTables ==
  /\ status \in [Project -> {"absent", "created", "running", "completed", "failed"}]
  /\ row \in [Task -> Rows]
  /\ note \in [Task -> (Path \X Task) \cup {None}]
  /\ starts \in [Task -> Nat]

TypeShared ==
  /\ bus \in [Task -> SUBSET Path]
  /\ disk \in [File -> Task \cup {None}]
  /\ missed \in SUBSET Task

TypeControl ==
  /\ pc \in [Execution -> Points]
  /\ stage \in [Execution -> 0..NumStages]
  /\ agent \in [Execution -> Agent]

TypeRun ==
  /\ step \in [Execution -> 0..MaxSteps]
  /\ wrote \in [Execution -> SUBSET Path]

TypeJudge ==
  /\ unread \in [Execution -> SUBSET Task]
  /\ seen \in [Execution -> SUBSET (Task \X Path)]
  /\ contested \in [Execution -> SUBSET Path]
  /\ losers \in [Execution -> SUBSET Task]
  /\ ruling \in [Execution -> (Path \X Task) \cup {None}]

TypeBounds ==
  /\ faults \in 0..MaxFaults
  /\ crashes \in 0..MaxCrashes

TypeOK ==
  TypeTables /\ TypeShared /\ TypeControl /\ TypeRun /\ TypeJudge /\ TypeBounds

Init ==
  /\ status = [p \in Project |-> "absent"]
  /\ row = [t \in Task |-> "absent"]
  /\ note = [t \in Task |-> None]
  /\ bus = [t \in Task |-> {}]
  /\ disk = [f \in File |-> None]
  /\ pc = [e \in Execution |-> "idle"]
  /\ stage = [e \in Execution |-> 0]
  /\ agent = [e \in Execution |-> 1]
  /\ step = [e \in Execution |-> 0]
  /\ wrote = [e \in Execution |-> {}]
  /\ unread = [e \in Execution |-> {}]
  /\ seen = [e \in Execution |-> {}]
  /\ contested = [e \in Execution |-> {}]
  /\ losers = [e \in Execution |-> {}]
  /\ ruling = [e \in Execution |-> None]
  /\ missed = {}
  /\ starts = [t \in Task |-> 0]
  /\ faults = 0
  /\ crashes = 0

Current(e) == <<e, stage[e], agent[e]>>

Goto(e, point) == pc' = [pc EXCEPT ![e] = point]

\* Something goes wrong outside: a query or a Redis command rejects, or a key
\* lapses.
Fault == faults < MaxFaults /\ faults' = faults + 1
NoFault == UNCHANGED faults

-----------------------------------------------------------------------------
(* createProject and executeProject *)

\* POST /api/projects: the row is inserted; the context set on the bus
\* afterwards only feeds the goal text.
CreateProject(p) ==
  /\ status[p] = "absent"
  /\ status' = [status EXCEPT ![p] = "created"]
  /\ UNCHANGED <<row, note, bus, disk, exec, run, judge, starts, faults, crashes>>

\* executeProject: status 'running', whatever the status was.
Begin(e) ==
  /\ pc[e] = "idle"
  /\ status[ProjectOf[e]] # "absent"
  /\ \/ /\ status' = [status EXCEPT ![ProjectOf[e]] = "running"]
        /\ Goto(e, "next")
        /\ NoFault
     \/ /\ Fault
        /\ Goto(e, "catch")
        /\ UNCHANGED status
  /\ UNCHANGED <<row, note, bus, disk, stage, agent, run, judge, starts, crashes>>

\* The for loop takes the next stage and executeStage selects its model.
EnterStage(e) ==
  /\ pc[e] = "next"
  /\ stage[e] < NumStages
  /\ \/ /\ stage' = [stage EXCEPT ![e] = @ + 1]
        /\ agent' = [agent EXCEPT ![e] = 1]
        /\ Goto(e, "create")
        /\ NoFault
     \/ /\ Fault
        /\ Goto(e, "catch")
        /\ UNCHANGED <<stage, agent>>
  /\ UNCHANGED <<status, row, note, bus, disk, run, judge, starts, crashes>>

\* After the last stage: status 'completed'.
Finish(e) ==
  /\ pc[e] = "next"
  /\ stage[e] = NumStages
  /\ \/ /\ status' = [status EXCEPT ![ProjectOf[e]] = "completed"]
        /\ Goto(e, "completed")
        /\ NoFault
     \/ /\ Fault
        /\ Goto(e, "catch")
        /\ UNCHANGED status
  /\ UNCHANGED <<row, note, bus, disk, stage, agent, run, judge, starts, crashes>>

\* A mistaken Catch: the project's row is left as it is.
CatchSilently(e) ==
  /\ pc[e] = "catch"
  /\ Goto(e, "failed")
  /\ UNCHANGED <<status, row, note, bus, disk, stage, agent, run, judge, starts, faults, crashes>>

\* executeProject's catch: status 'failed'; if that update rejects too, the
\* execution is over and the row keeps what it said.
Catch(e) ==
  /\ pc[e] = "catch"
  /\ \/ /\ status' = [status EXCEPT ![ProjectOf[e]] = "failed"]
        /\ Goto(e, "failed")
        /\ NoFault
     \/ /\ Fault
        /\ Goto(e, "unrecorded")
        /\ UNCHANGED status
  /\ UNCHANGED <<row, note, bus, disk, stage, agent, run, judge, starts, crashes>>

-----------------------------------------------------------------------------
(* executeStage and executeTask *)

\* executeStage's first loop. The INSERT or the agent state may fail; either
\* way createTask throws, with or without a row left behind.
CreateTask(e) ==
  /\ pc[e] = "create"
  /\ \/ /\ row' = [row EXCEPT ![Current(e)] = "pending"]
        /\ bus' = [bus EXCEPT ![Current(e)] = {}]
        /\ NoFault
        /\ IF agent[e] < AgentsOf[stage[e]]
           THEN agent' = [agent EXCEPT ![e] = @ + 1] /\ UNCHANGED pc
           ELSE agent' = [agent EXCEPT ![e] = 1] /\ Goto(e, "start")
     \/ /\ Fault
        /\ \/ UNCHANGED row
           \/ row' = [row EXCEPT ![Current(e)] = "pending"]
        /\ Goto(e, "catch")
        /\ UNCHANGED <<bus, agent>>
  /\ UNCHANGED <<status, note, disk, stage, run, judge, starts, crashes>>

\* executeTask up to the agent's run. The first update is outside the try, the
\* reads that follow are inside it.
StartTask(e) ==
  /\ pc[e] = "start"
  /\ \/ /\ row' = [row EXCEPT ![Current(e)] = "running"]
        /\ starts' = [starts EXCEPT ![Current(e)] = @ + 1]
        /\ \/ Goto(e, "agent") /\ NoFault
           \/ Goto(e, "catchTask") /\ Fault
     \/ /\ Fault
        /\ Goto(e, "catch")
        /\ UNCHANGED <<row, starts>>
  /\ UNCHANGED <<status, note, bus, disk, stage, agent, run, judge, crashes>>

\* The agent calls write_file, and AgentRunner persists the footprint so far;
\* a Redis error there is only logged.
AgentWrite(e, p) ==
  /\ pc[e] = "agent"
  /\ step[e] < MaxSteps
  /\ step' = [step EXCEPT ![e] = @ + 1]
  /\ disk' = [disk EXCEPT ![FileOf[p]] = Current(e)]
  /\ wrote' = [wrote EXCEPT ![e] = @ \cup {p}]
  /\ \/ bus' = [bus EXCEPT ![Current(e)] = wrote'[e]] /\ NoFault
     \/ UNCHANGED bus /\ Fault
  /\ UNCHANGED <<status, row, note, exec, judge, starts, crashes>>

\* run() returns: its locals are gone.
EndRun(e) ==
  /\ step' = [step EXCEPT ![e] = 0]
  /\ wrote' = [wrote EXCEPT ![e] = {}]

\* A mistaken ReportTask: the final agent state says nothing of the files.
ReportTaskBare(e) ==
  /\ pc[e] = "agent"
  /\ bus' = [bus EXCEPT ![Current(e)] = {}]
  /\ Goto(e, "record")
  /\ EndRun(e)
  /\ UNCHANGED <<status, row, note, disk, stage, agent, judge, starts, faults, crashes>>

\* The run returns, completed or not, and its footprint goes to the bus.
ReportTask(e) ==
  /\ pc[e] = "agent"
  /\ \/ /\ bus' = [bus EXCEPT ![Current(e)] = wrote[e]]
        /\ Goto(e, "record")
        /\ NoFault
     \/ /\ Fault
        /\ Goto(e, "catchTask")
        /\ UNCHANGED bus
  /\ EndRun(e)
  /\ UNCHANGED <<status, row, note, disk, stage, agent, judge, starts, crashes>>

\* A mistaken RecordTask: the loop runs one past the crew.
RecordTaskPastCrew(e) ==
  /\ pc[e] = "record"
  /\ row' = [row EXCEPT ![Current(e)] = "completed"]
  /\ agent' = [agent EXCEPT ![e] = @ + 1]
  /\ Goto(e, IF agent[e] <= AgentsOf[stage[e]] THEN "start" ELSE "check")
  /\ UNCHANGED <<status, note, bus, disk, stage, run, judge, starts, faults, crashes>>

\* The row gets the outcome; then the next agent, or the conflict check.
RecordTask(e) ==
  /\ pc[e] = "record"
  /\ \/ /\ \E outcome \in {"completed", "failed"} :
             row' = [row EXCEPT ![Current(e)] = outcome]
        /\ NoFault
        /\ IF agent[e] < AgentsOf[stage[e]]
           THEN agent' = [agent EXCEPT ![e] = @ + 1] /\ Goto(e, "start")
           ELSE Goto(e, "check") /\ UNCHANGED agent
     \/ /\ Fault
        /\ Goto(e, "catchTask")
        /\ UNCHANGED <<row, agent>>
  /\ UNCHANGED <<status, note, bus, disk, stage, run, judge, starts, crashes>>

\* A mistaken CatchTask: rethrows without a word to the row.
CatchTaskSilently(e) ==
  /\ pc[e] = "catchTask"
  /\ Goto(e, "catch")
  /\ UNCHANGED <<status, row, note, bus, disk, stage, agent, run, judge, starts, faults, crashes>>

\* executeTask's catch: status 'failed' with the error's message, then rethrow.
CatchTask(e) ==
  /\ pc[e] = "catchTask"
  /\ \/ /\ row' = [row EXCEPT ![Current(e)] = "failed"]
        /\ note' = [note EXCEPT ![Current(e)] = None]
        /\ NoFault
     \/ /\ Fault
        /\ UNCHANGED <<row, note>>
  /\ Goto(e, "catch")
  /\ UNCHANGED <<status, bus, disk, stage, agent, run, judge, starts, crashes>>

-----------------------------------------------------------------------------
(* checkForConflicts, arbitrateConflict, requeueTask *)

\* A mistaken StageRows: an execution sees its own tasks only.
OwnStageRows(e) ==
  {t \in Task : row[t] # "absent" /\ t[1] = e /\ t[2] = stage[e]}

\* The rows of this project and stage, whichever execution created them.
StageRows(e) ==
  {t \in Task : /\ row[t] # "absent"
                /\ ProjectOf[t[1]] = ProjectOf[e]
                /\ t[2] = stage[e]}

\* Paths that two tasks or more have in their footprints.
Contested(pairs) ==
  {p \in Path : \E x, y \in pairs : x # y /\ x[2] = p /\ y[2] = p}

Candidates(e, p) == {t \in Task : <<t, p>> \in seen[e]}

\* SELECT task_id, agent_name ... WHERE project_id = $1 AND stage = $2
CheckForConflicts(e) ==
  /\ pc[e] = "check"
  /\ \/ /\ unread' = [unread EXCEPT ![e] = StageRows(e)]
        /\ seen' = [seen EXCEPT ![e] = {}]
        /\ Goto(e, "scan")
        /\ NoFault
     \/ /\ Fault
        /\ Goto(e, "catch")
        /\ UNCHANGED <<unread, seen>>
  /\ UNCHANGED <<status, row, note, bus, disk, stage, agent, run, contested,
                 losers, ruling, missed, starts, crashes>>

\* resolveStageConflicts returns or throws: its locals are gone.
EndCheck(e) ==
  /\ unread' = [unread EXCEPT ![e] = {}]
  /\ seen' = [seen EXCEPT ![e] = {}]
  /\ contested' = [contested EXCEPT ![e] = {}]
  /\ losers' = [losers EXCEPT ![e] = {}]
  /\ ruling' = [ruling EXCEPT ![e] = None]

\* getAgentState of one row; a Redis error counts as an empty footprint. After
\* the last row the conflicts are known.
ReadFootprint(e, t) ==
  /\ pc[e] = "scan"
  /\ t \in unread[e]
  /\ \E found \in {seen[e] \cup ({t} \X bus[t]), seen[e]} :
        /\ \/ found = seen[e] \cup ({t} \X bus[t]) /\ NoFault /\ UNCHANGED missed
           \/ found = seen[e] /\ Fault /\ missed' = missed \cup {t}
        /\ \/ /\ unread[e] # {t}
              /\ unread' = [unread EXCEPT ![e] = @ \ {t}]
              /\ seen' = [seen EXCEPT ![e] = found]
              /\ UNCHANGED <<pc, contested, losers, ruling>>
           \/ /\ unread[e] = {t}
              /\ Contested(found) # {}
              /\ unread' = [unread EXCEPT ![e] = {}]
              /\ seen' = [seen EXCEPT ![e] = found]
              /\ contested' = [contested EXCEPT ![e] = Contested(found)]
              /\ Goto(e, "rule")
              /\ UNCHANGED <<losers, ruling>>
           \/ /\ unread[e] = {t}
              /\ Contested(found) = {}
              /\ EndCheck(e)
              /\ Goto(e, "next")
  /\ UNCHANGED <<status, row, note, bus, disk, stage, agent, run, starts, crashes>>

\* A mistaken Arbitrate: the winner is re-queued with the losers.
ArbitrateForNobody(e, p, w) ==
  /\ pc[e] = "rule"
  /\ p \in contested[e]
  /\ w \in Candidates(e, p)
  /\ contested' = [contested EXCEPT ![e] = @ \ {p}]
  /\ losers' = [losers EXCEPT ![e] = Candidates(e, p)]
  /\ ruling' = [ruling EXCEPT ![e] = <<p, w>>]
  /\ Goto(e, "requeue")
  /\ UNCHANGED <<status, row, note, bus, disk, stage, agent, run, unread, seen,
                 missed, starts, faults, crashes>>

\* The Arbitrator model picks a winner. A failed call, an unreadable reply or
\* a name that is no candidate keeps the first one, in the rows' order, which
\* the query leaves open: any candidate may win.
Arbitrate(e, p, w) ==
  /\ pc[e] = "rule"
  /\ p \in contested[e]
  /\ w \in Candidates(e, p)
  /\ contested' = [contested EXCEPT ![e] = @ \ {p}]
  /\ losers' = [losers EXCEPT ![e] = Candidates(e, p) \ {w}]
  /\ ruling' = [ruling EXCEPT ![e] = <<p, w>>]
  /\ Goto(e, "requeue")
  /\ UNCHANGED <<status, row, note, bus, disk, stage, agent, run, unread, seen,
                 missed, starts, faults, crashes>>

\* A mistaken RequeueTask: after the last loser the stage is checked again.
RequeueAndRecheck(e, t) ==
  /\ pc[e] = "requeue"
  /\ t \in losers[e]
  /\ row' = [row EXCEPT ![t] = "pending"]
  /\ note' = [note EXCEPT ![t] = ruling[e]]
  /\ IF losers[e] = {t} /\ contested[e] = {}
     THEN EndCheck(e) /\ Goto(e, "check")
     ELSE /\ losers' = [losers EXCEPT ![e] = @ \ {t}]
          /\ Goto(e, IF losers[e] = {t} THEN "rule" ELSE "requeue")
          /\ UNCHANGED <<unread, seen, contested, ruling>>
  /\ UNCHANGED <<status, bus, disk, stage, agent, run, missed, starts, faults, crashes>>

\* A mistaken RequeueTask: a loser of one's own is set to work again at once.
RequeueAndRerun(e, t) ==
  /\ pc[e] = "requeue"
  /\ t \in losers[e]
  /\ row' = [row EXCEPT ![t] = "pending"]
  /\ note' = [note EXCEPT ![t] = ruling[e]]
  /\ EndCheck(e)
  /\ IF t[1] = e
     THEN agent' = [agent EXCEPT ![e] = t[3]] /\ Goto(e, "start")
     ELSE UNCHANGED agent /\ Goto(e, "next")
  /\ UNCHANGED <<status, bus, disk, stage, run, missed, starts, faults, crashes>>

\* requeueTask: back to 'pending', whatever the row says by now. After the
\* last loser comes the next conflict, or the next stage.
RequeueTask(e, t) ==
  /\ pc[e] = "requeue"
  /\ t \in losers[e]
  /\ \/ /\ row' = [row EXCEPT ![t] = "pending"]
        /\ note' = [note EXCEPT ![t] = ruling[e]]
        /\ NoFault
        /\ \/ /\ losers[e] = {t} /\ contested[e] = {}
              /\ EndCheck(e)
              /\ Goto(e, "next")
           \/ /\ losers[e] # {t} \/ contested[e] # {}
              /\ losers' = [losers EXCEPT ![e] = @ \ {t}]
              /\ Goto(e, IF losers[e] = {t} THEN "rule" ELSE "requeue")
              /\ UNCHANGED <<unread, seen, contested, ruling>>
     \/ /\ Fault
        /\ EndCheck(e)
        /\ Goto(e, "catch")
        /\ UNCHANGED <<row, note>>
  /\ UNCHANGED <<status, bus, disk, stage, agent, run, missed, starts, crashes>>

-----------------------------------------------------------------------------
(* The environment *)

\* An agent state lapses an hour after it was last set (EX 3600). A running
\* agent keeps renewing its own.
Expire(t) ==
  /\ bus[t] # {}
  /\ pc[t[1]] = "agent" => t # Current(t[1])
  /\ Fault
  /\ bus' = [bus EXCEPT ![t] = {}]
  /\ missed' = missed \cup {t}
  /\ UNCHANGED <<status, row, note, disk, exec, run, unread, seen, contested,
                 losers, ruling, starts, crashes>>

\* The process dies, and every local with it; rows, Redis and the workspace
\* stay as they are.
Crash ==
  /\ crashes < MaxCrashes
  /\ \E e \in Execution : pc[e] \in Active
  /\ crashes' = crashes + 1
  /\ pc' = [e \in Execution |-> IF pc[e] \in Active THEN "crashed" ELSE pc[e]]
  /\ step' = [e \in Execution |-> 0]
  /\ wrote' = [e \in Execution |-> {}]
  /\ unread' = [e \in Execution |-> {}]
  /\ seen' = [e \in Execution |-> {}]
  /\ contested' = [e \in Execution |-> {}]
  /\ losers' = [e \in Execution |-> {}]
  /\ ruling' = [e \in Execution |-> None]
  /\ UNCHANGED <<status, row, note, bus, disk, stage, agent, missed, starts, faults>>

Advance(e) ==
  \/ EnterStage(e) \/ Finish(e) \/ Catch(e)
  \/ CreateTask(e) \/ StartTask(e)
  \/ \E p \in Path : AgentWrite(e, p)
  \/ ReportTask(e) \/ RecordTask(e) \/ CatchTask(e)
  \/ CheckForConflicts(e)
  \/ \E t \in Task : ReadFootprint(e, t)
  \/ \E p \in Path, w \in Task : Arbitrate(e, p, w)
  \/ \E t \in Task : RequeueTask(e, t)

Next ==
  \/ \E p \in Project : CreateProject(p)
  \/ \E e \in Execution : Begin(e) \/ Advance(e)
  \/ \E t \in Task : Expire(t)
  \/ Crash

Spec == Init /\ [][Next]_vars

\* Every await of an execution settles: model calls time out, PostgreSQL and
\* Redis answer or their connections break, and the event loop serves them. No
\* request and no crash is promised.
FairSpec == Spec /\ \A e \in Execution : WF_vars(Advance(e))

-----------------------------------------------------------------------------
(* Properties *)

\* A row says 'running' only while its execution is at that very agent, unless
\* the process died there or two calls in a row failed, the one that broke
\* the task off and the one that should have recorded it. (executeTask)
RunningHasRunner ==
  \A t \in Task : row[t] = "running" =>
    /\ t = Current(t[1])
    /\ \/ pc[t[1]] \in {"agent", "record", "catchTask", "crashed"}
       \/ pc[t[1]] \in {"catch", "failed", "unrecorded"} /\ faults >= 2

\* A project says 'running' only while one of its executions is under way,
\* unless one was cut off: by the death of the process or because the update
\* in executeProject's catch was rejected as well.
RunningHasExecution ==
  \A p \in Project : status[p] = "running" =>
    \E e \in Execution : /\ ProjectOf[e] = p
                         /\ pc[e] \in Active \cup {"unrecorded", "crashed"}

\* Execution e has left stage s behind, its conflicts resolved.
Passed(e, s) ==
  \/ stage[e] > s
  \/ stage[e] = s /\ pc[e] \in {"next", "completed"}

\* Of two tasks of a stage with the same path in their footprints one at most
\* is kept, the other is back to 'pending', as soon as the executions of both
\* have passed the stage, in whatever order they wrote, checked, ruled and
\* recorded. (resolveStageConflicts; footprints that lapsed or could not be
\* read are excused.)
OneKeeperPerPath ==
  \A t, u \in Task :
    /\ t # u /\ t[2] = u[2] /\ ProjectOf[t[1]] = ProjectOf[u[1]]
    /\ Passed(t[1], t[2]) /\ Passed(u[1], u[2])
    /\ bus[t] \cap bus[u] # {}
    /\ {t, u} \cap missed = {}
    => row[t] = "pending" \/ row[u] = "pending"

\* The note on a re-queued row names another task of the same project and
\* stage and a path that both had in their footprints (where these have not
\* lapsed): nobody is sent back for a path it did not write, or to itself.
NotesAreJust ==
  \A t \in Task : note[t] # None =>
    LET p == note[t][1]
        w == note[t][2]
    IN /\ w # t /\ w[2] = t[2] /\ ProjectOf[w[1]] = ProjectOf[t[1]]
       /\ \A u \in {t, w} \ missed : p \in bus[u]

\* A file of the workspace is in the footprint of the task that wrote it last,
\* by the time that task's execution has had the stage checked: no write
\* escapes the conflict detector. (AgentRunner.run, executeTask)
FootprintsTell ==
  \A f \in File, t \in Task \ missed :
    disk[f] = t /\ Passed(t[1], t[2]) => \E p \in bus[t] : FileOf[p] = f

PhaseOf(point) ==
  CASE point = "idle" -> "idle"
    [] point = "completed" -> "completed"
    [] point \in {"failed", "unrecorded"} -> "failed"
    [] point = "crashed" -> "lost"
    [] OTHER -> "running"

Contract == INSTANCE WorkflowContract WITH
  phase <- [e \in Execution |-> PhaseOf(pc[e])],
  reached <- stage,
  turns <- starts

\* Stage by stage, every agent of a stage set to work exactly once, complete
\* only after the last: the executions keep their contract although they
\* re-queue their own and each other's tasks. (executeProject, executeStage,
\* executeTask, requeueTask)
KeepsContract == Contract!Spec

\* An execution that began comes to an end: no order of faults, rulings and
\* re-queues keeps it going round.
ExecutionsEnd ==
  \A e \in Execution : pc[e] \in Active ~> pc[e] \in Over
=============================================================================
