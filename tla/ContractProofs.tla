--------------------------- MODULE ContractProofs ---------------------------
(***************************************************************************)
(* Orchestrator.tla implements WorkflowContract.tla, and its conflict      *)
(* detector does what it is there for: every write reaches it, every       *)
(* ruling is just, and one task at most keeps a path. For any number of    *)
(* executions, projects, stages, agents, paths, faults and crashes.        *)
(***************************************************************************)
EXTENDS OrchestratorProofs

\* The tasks an agent has been set to work on, now or earlier, as their rows
\* tell: a re-queued task is known by its note.
HasRun == {t \in Task : row[t] \in {"running", "completed", "failed"} \/ note[t] # None}

\* None of them was set to work twice, and no other at all.
StartsCounted == \A t \in Task : starts[t] = IF t \in HasRun THEN 1 ELSE 0

\* Of the crew of the stage e is at, the first n have been set to work.
Progress(e, n) ==
  \A t \in Task : t[1] = e /\ t[2] = stage[e] => (t \in HasRun <=> t[3] <= n)

\* Earlier stages have been worked on in full, later ones not at all, the
\* present one as far as the program point says.
Staged(e) ==
  /\ \A t \in Task : t[1] = e /\ t[2] < stage[e] /\ t[3] <= AgentsOf[t[2]] => t \in HasRun
  /\ \A t \in Task : t[1] = e /\ t[2] > stage[e] => t \notin HasRun
  /\ pc[e] = "create" => Progress(e, 0)
  /\ pc[e] = "start" => Progress(e, agent[e] - 1)
  /\ pc[e] \in {"agent", "record", "catchTask"} => Progress(e, agent[e])
  /\ pc[e] \in Judging \cup {"next"} /\ stage[e] > 0 => Progress(e, AgentsOf[stage[e]])

\* Only tasks that an agent worked on have a footprint, stand in a conflict or
\* lose one; a loser is told why.
OnlyWorked ==
  /\ \A t \in Task : bus[t] # {} => t \in HasRun
  /\ \A e \in Execution :
       /\ \A x \in seen[e] : x[1] \in HasRun
       /\ losers[e] \subseteq HasRun
       /\ losers[e] # {} => ruling[e] # None

AllStaged == OnlyWorked /\ \A e \in Execution : Staged(e)

-----------------------------------------------------------------------------
(* What a step does to the tasks that have run *)

\* For execution e, as far as Staged(e) goes, nothing has changed.
SameFor(e) ==
  /\ pc'[e] = pc[e] /\ stage'[e] = stage[e] /\ agent'[e] = agent[e]
  /\ \A t \in Task : t[1] = e => (t \in HasRun' <=> t \in HasRun)

\* What a program point says of its crew depends on that execution alone.
LEMMA StagedKept ==
  ASSUME NEW e \in Execution, Staged(e), SameFor(e)
  PROVE  Staged(e)'
  BY DEF Staged, SameFor, Progress

\* A step of e at a point inside a stage that leaves HasRun alone: what is left
\* to show of Staged(e) is how far the new program point claims to be.
LEMMA StagedMoved ==
  ASSUME NEW e \in Execution, Staged(e), stage' = stage, HasRun' = HasRun,
         pc'[e] = "create" => Progress(e, 0),
         pc'[e] = "start" => Progress(e, agent'[e] - 1),
         pc'[e] \in {"agent", "record", "catchTask"} => Progress(e, agent'[e]),
         pc'[e] \in Judging \cup {"next"} /\ stage[e] > 0 => Progress(e, AgentsOf[stage[e]])
  PROVE  Staged(e)'
  BY DEF Staged, Progress

\* A step of one execution that sets no other's agents to work keeps what the
\* others' program points say.
LEMMA OthersStaged ==
  ASSUME NEW e \in Execution, OthersStay(e), \A d \in Execution : Staged(d),
         \A t \in Task : t[1] # e => (t \in HasRun' <=> t \in HasRun)
  PROVE  \A d \in Execution \ {e} : Staged(d)'
  BY DEF Staged, OthersStay, Progress

\* Where an execution is at an agent, its task exists and has run or not as the
\* program point says.
LEMMA CurrentTask ==
  ASSUME TypeOK, Placed, NEW e \in Execution, Staged(e), pc[e] \in Working
  PROVE  /\ Current(e) \in Task
         /\ pc[e] \in {"create", "start"} => Current(e) \notin HasRun
         /\ pc[e] \in {"agent", "record", "catchTask"} => Current(e) \in HasRun
<1> USE OrchestratorAssumption
<1>1. stage[e] \in Stage /\ agent[e] \in Agent
  BY DEF TypeOK, TypeControl, Placed
<1>2. Current(e) \in Task
  BY <1>1 DEF Current, Task
<1>3. Current(e)[1] = e /\ Current(e)[2] = stage[e] /\ Current(e)[3] = agent[e]
  BY DEF Current
<1>4. agent[e] \in Nat \ {0}
  BY <1>1 DEF Agent
<1> QED
  BY <1>2, <1>3, <1>4 DEF Staged, Progress

\* The steps that set nobody to work leave HasRun alone.
LEMMA RanByOthers ==
  ASSUME TypeOK, Placed, AllStaged, NEW e \in Execution, Begin(e) \/ Advance(e),
         ~StartTask(e)
  PROVE  HasRun' = HasRun
<1> USE DEF TypeOK, TypeTables, HasRun
<1>1. ASSUME row' = row, note' = note
      PROVE  HasRun' = HasRun
  BY <1>1
<1>2. CASE CreateTask(e)
  <2>1. Current(e) \in Task /\ Current(e) \notin HasRun
    BY <1>2, CurrentTask DEF CreateTask, Working, AllStaged
  <2>2. note' = note /\ (row' = row \/ row' = [row EXCEPT ![Current(e)] = "pending"])
    BY <1>2 DEF CreateTask
  <2> QED
    BY <2>1, <2>2
<1>3. CASE RecordTask(e)
  <2>1. Current(e) \in Task /\ Current(e) \in HasRun
    BY <1>3, CurrentTask DEF RecordTask, Working, AllStaged
  <2>2. /\ note' = note
        /\ \/ row' = row
           \/ \E outcome \in {"completed", "failed"} :
                row' = [row EXCEPT ![Current(e)] = outcome]
    BY <1>3 DEF RecordTask
  <2> QED
    BY <2>1, <2>2
<1>4. CASE CatchTask(e)
  <2>1. Current(e) \in Task /\ Current(e) \in HasRun
    BY <1>4, CurrentTask DEF CatchTask, Working, AllStaged
  <2>2. \/ row' = row /\ note' = note
        \/ /\ row' = [row EXCEPT ![Current(e)] = "failed"]
           /\ note' = [note EXCEPT ![Current(e)] = None]
    BY <1>4 DEF CatchTask
  <2> QED
    BY <2>1, <2>2
<1>5. ASSUME NEW t \in Task, RequeueTask(e, t)
      PROVE  HasRun' = HasRun
  <2>1. t \in HasRun /\ ruling[e] # None
    BY <1>5 DEF RequeueTask, AllStaged, OnlyWorked
  <2>2. \/ row' = row /\ note' = note
        \/ /\ row' = [row EXCEPT ![t] = "pending"]
           /\ note' = [note EXCEPT ![t] = ruling[e]]
    BY <1>5 DEF RequeueTask
  <2> QED
    BY <2>1, <2>2
<1> QED
  BY <1>1, <1>2, <1>3, <1>4, <1>5
     DEF Advance, Begin, EnterStage, Finish, Catch, AgentWrite, ReportTask,
         CheckForConflicts, ReadFootprint, Arbitrate

\* Setting an agent to work adds its task.
LEMMA RanByStart ==
  ASSUME TypeOK, Placed, AllStaged, NEW e \in Execution, StartTask(e)
  PROVE  /\ Current(e) \in Task \ HasRun
         /\ \/ HasRun' = HasRun /\ starts' = starts /\ pc'[e] = "catch"
            \/ /\ HasRun' = HasRun \cup {Current(e)}
               /\ starts' = [starts EXCEPT ![Current(e)] = @ + 1]
               /\ pc'[e] \in {"agent", "catchTask"}
<1>1. Current(e) \in Task \ HasRun
  BY CurrentTask DEF StartTask, Working, AllStaged
<1>2. /\ note' = note
      /\ \/ row' = row /\ starts' = starts /\ pc'[e] = "catch"
         \/ /\ row' = [row EXCEPT ![Current(e)] = "running"]
            /\ starts' = [starts EXCEPT ![Current(e)] = @ + 1]
            /\ pc'[e] \in {"agent", "catchTask"}
  BY DEF StartTask, Goto, TypeOK, TypeControl
<1> QED
  BY <1>1, <1>2 DEF HasRun, TypeOK, TypeTables

\* Nothing else in an execution counts as a start.
LEMMA StartsByOthers ==
  ASSUME NEW e \in Execution, Begin(e) \/ Advance(e), ~StartTask(e)
  PROVE  starts' = starts
  BY DEF Advance, Begin, EnterStage, Finish, Catch, CreateTask, AgentWrite, ReportTask,
         RecordTask, CatchTask, CheckForConflicts, ReadFootprint, Arbitrate, RequeueTask

-----------------------------------------------------------------------------
(* The invariant *)

\* An execution's own step keeps what its program point says of its crew.
LEMMA StagedStep ==
  ASSUME TypeOK, Placed, AllStaged, NEW e \in Execution, Begin(e) \/ Advance(e)
  PROVE  Staged(e)'
<1> USE OrchestratorAssumption DEF TypeOK, TypeControl
<1>1. Staged(e)
  BY DEF AllStaged
<1>2. CASE StartTask(e)
  <2>1. pc[e] = "start" /\ stage' = stage /\ agent' = agent /\ Progress(e, agent[e] - 1)
    BY <1>1, <1>2 DEF StartTask, Staged
  <2>2. agent[e] \in Nat /\ stage[e] \in Nat
    BY DEF Agent
  <2>3. CASE HasRun' = HasRun /\ pc'[e] = "catch"
    BY <1>1, <2>1, <2>3, StagedMoved DEF Judging
  <2>4. CASE HasRun' = HasRun \cup {Current(e)} /\ pc'[e] \in {"agent", "catchTask"}
    <3>1. Current(e)[1] = e /\ Current(e)[2] = stage[e] /\ Current(e)[3] = agent[e]
      BY DEF Current
    <3>2. \A t \in Task : t[1] = e /\ t[2] # stage[e] => (t \in HasRun' <=> t \in HasRun)
      BY <2>4, <3>1
    <3>3. ASSUME NEW t \in Task, t[1] = e, t[2] = stage[e]
          PROVE  t \in HasRun' <=> t[3] <= agent[e]
      <4>1. t[3] \in Nat /\ (t \in HasRun <=> t[3] <= agent[e] - 1)
        BY <2>1, <3>3 DEF Progress, Task, Agent
      <4>2. t = Current(e) <=> t[3] = agent[e]
        BY <3>3 DEF Current, Task
      <4> QED
        BY <2>2, <2>4, <4>1, <4>2
    <3>4. Progress(e, agent[e])'
      BY <2>1, <3>3 DEF Progress
    <3> QED
      BY <1>1, <2>1, <2>2, <2>4, <3>2, <3>4 DEF Staged, Judging, Task, Stage
  <2> QED
    BY <1>2, <2>3, <2>4, RanByStart
<1>3. CASE ~StartTask(e)
  <2>1. HasRun' = HasRun
    BY <1>3, RanByOthers
  <2>2. CASE EnterStage(e)
    <3>1. pc[e] = "next"
      BY <2>2 DEF EnterStage
    <3>2. CASE stage' = stage /\ pc'[e] = "catch"
      BY <1>1, <2>1, <3>2, StagedMoved DEF Judging
    <3>3. CASE stage'[e] = stage[e] + 1 /\ pc'[e] = "create"
      <4>1. stage[e] \in Nat
        OBVIOUS
      <4>2. \A t \in Task : t[1] = e /\ t[2] <= stage[e] /\ t[3] <= AgentsOf[t[2]] => t \in HasRun
        <5> SUFFICES ASSUME NEW t \in Task, t[1] = e, t[2] <= stage[e], t[3] <= AgentsOf[t[2]]
                     PROVE  t \in HasRun
          OBVIOUS
        <5>1. t[2] \in Nat \ {0}
          BY DEF Task, Stage
        <5>2. CASE t[2] < stage[e]
          BY <1>1, <5>2 DEF Staged
        <5>3. CASE t[2] = stage[e]
          <6>1. Progress(e, AgentsOf[stage[e]])
            BY <1>1, <3>1, <4>1, <5>1, <5>3 DEF Staged
          <6> QED
            BY <5>3, <6>1 DEF Progress
        <5> QED
          BY <4>1, <5>1, <5>2, <5>3
      <4>3. \A t \in Task : t[1] = e /\ t[2] > stage[e] => t \notin HasRun
        BY <1>1 DEF Staged
      <4>4. \A t \in Task : t[2] \in Nat /\ t[3] \in Nat \ {0}
        BY DEF Task, Stage, Agent
      <4> QED
        BY <2>1, <3>3, <4>1, <4>2, <4>3, <4>4 DEF Staged, Progress, Judging
    <3> QED
      BY <2>2, <3>2, <3>3 DEF EnterStage, Goto
  <2>3. CASE ~EnterStage(e)
    <3>1. stage' = stage
      BY <1>3, <2>3 DEF Advance, Begin, Finish, Catch, CreateTask, AgentWrite, ReportTask,
         RecordTask, CatchTask, CheckForConflicts, ReadFootprint, Arbitrate, RequeueTask, exec
    <3>2. CASE Begin(e) \/ Finish(e) \/ Catch(e) \/ CatchTask(e)
      <4>1. \/ pc'[e] \in Over \cup {"catch"}
            \/ pc'[e] = "next" /\ stage[e] = 0
        BY <3>2 DEF Begin, Finish, Catch, CatchTask, Goto, Over, Placed
      <4> QED
        BY <1>1, <2>1, <3>1, <4>1, StagedMoved DEF Over, Judging
    <3>3. CASE CreateTask(e)
      <4>1. pc[e] = "create" /\ Progress(e, 0)
        BY <1>1, <3>3 DEF CreateTask, Staged
      <4>2. \/ pc'[e] = "create"
            \/ pc'[e] = "start" /\ agent'[e] - 1 = 0
            \/ pc'[e] = "catch"
        BY <3>3 DEF CreateTask, Goto
      <4> QED
        BY <1>1, <2>1, <3>1, <4>1, <4>2, StagedMoved DEF Judging
    <3>4. CASE ReportTask(e) \/ \E p \in Path : AgentWrite(e, p)
      <4>1. Progress(e, agent[e])
        BY <1>1, <3>4 DEF ReportTask, AgentWrite, Staged
      <4>2. pc'[e] \in {"agent", "record", "catchTask"} /\ agent' = agent
        BY <3>4 DEF ReportTask, AgentWrite, Goto, exec
      <4> QED
        BY <1>1, <2>1, <3>1, <4>1, <4>2, StagedMoved DEF Judging
    <3>5. CASE RecordTask(e)
      <4>1. Progress(e, agent[e])
        BY <1>1, <3>5 DEF RecordTask, Staged
      <4>2. agent[e] \in Nat /\ AgentsOf[stage[e]] \in Nat /\ agent[e] <= AgentsOf[stage[e]]
        BY <3>5 DEF RecordTask, Placed, Working, Agent
      <4>3. \/ pc'[e] = "start" /\ agent'[e] - 1 = agent[e]
            \/ pc'[e] = "check" /\ ~(agent[e] < AgentsOf[stage[e]])
            \/ pc'[e] = "catchTask" /\ agent' = agent
        BY <3>5, <4>2 DEF RecordTask, Goto
      <4>4. CASE pc'[e] = "start" /\ agent'[e] - 1 = agent[e]
        BY <1>1, <2>1, <3>1, <4>1, <4>4, StagedMoved DEF Judging
      <4>5. CASE pc'[e] = "check" /\ ~(agent[e] < AgentsOf[stage[e]])
        <5>1. agent[e] = AgentsOf[stage[e]]
          BY <4>2, <4>5
        <5> QED
          BY <1>1, <2>1, <3>1, <4>1, <4>5, <5>1, StagedMoved DEF Judging
      <4>6. CASE pc'[e] = "catchTask" /\ agent' = agent
        BY <1>1, <2>1, <3>1, <4>1, <4>6, StagedMoved DEF Judging
      <4> QED
        BY <4>3, <4>4, <4>5, <4>6
    <3>6. CASE \/ CheckForConflicts(e)
               \/ \E t \in Task : ReadFootprint(e, t)
               \/ \E p \in Path, w \in Task : Arbitrate(e, p, w)
               \/ \E t \in Task : RequeueTask(e, t)
      <4>1. pc[e] \in Judging /\ pc'[e] \in Judging \cup {"next", "catch"}
        <5>1. CASE CheckForConflicts(e)
          BY <5>1 DEF CheckForConflicts, Goto, Judging
        <5>2. CASE \E t \in Task : ReadFootprint(e, t)
          BY <5>2 DEF ReadFootprint, Goto, Judging
        <5>3. CASE \E p \in Path, w \in Task : Arbitrate(e, p, w)
          BY <5>3 DEF Arbitrate, Goto, Judging
        <5>4. CASE \E t \in Task : RequeueTask(e, t)
          BY <5>4 DEF RequeueTask, Goto, Judging
        <5> QED
          BY <3>6, <5>1, <5>2, <5>3, <5>4
      <4>2. stage[e] > 0 => Progress(e, AgentsOf[stage[e]])
        BY <1>1, <4>1 DEF Staged
      <4> QED
        BY <1>1, <2>1, <3>1, <4>1, <4>2, StagedMoved DEF Judging
    <3> QED
      BY <1>3, <2>3, <3>2, <3>3, <3>4, <3>5, <3>6 DEF Advance
  <2> QED
    BY <2>2, <2>3
<1> QED
  BY <1>2, <1>3

\* A step of an execution re-queues tasks that have been worked on only.
LEMMA OnlyWorkedStep ==
  ASSUME TypeOK, Placed, AllStaged, NEW e \in Execution, Begin(e) \/ Advance(e)
  PROVE  OnlyWorked'
<1> USE DEF TypeOK, TypeShared, TypeJudge
<1>1. HasRun \subseteq HasRun'
  BY RanByOthers, RanByStart
<1>2. OnlyWorked
  BY DEF AllStaged
<1>3. ASSUME bus' = bus, seen' = seen, losers' = losers, ruling' = ruling
      PROVE  OnlyWorked'
  BY <1>1, <1>2, <1>3 DEF OnlyWorked
<1>4. CASE \/ CreateTask(e) \/ ReportTask(e)
           \/ \E p \in Path : AgentWrite(e, p)
  <2>1. seen' = seen /\ losers' = losers /\ ruling' = ruling
    BY <1>4 DEF CreateTask, ReportTask, AgentWrite, judge
  <2>2. ASSUME NEW t \in Task, bus'[t] # {}, bus[t] = {}
        PROVE  t = Current(e) /\ pc[e] = "agent"
    <3>1. CASE CreateTask(e)
      BY <2>2, <3>1 DEF CreateTask
    <3>2. CASE ReportTask(e)
      BY <2>2, <3>2 DEF ReportTask
    <3>3. CASE \E p \in Path : AgentWrite(e, p)
      BY <2>2, <3>3 DEF AgentWrite
    <3> QED
      BY <1>4, <3>1, <3>2, <3>3
  <2>3. pc[e] = "agent" => Current(e) \in HasRun
    BY CurrentTask DEF Working, AllStaged
  <2> QED
    BY <1>1, <1>2, <2>1, <2>3, <2>2 DEF OnlyWorked
<1>5. CASE CheckForConflicts(e)
  <2>1. /\ bus' = bus /\ losers' = losers /\ ruling' = ruling
        /\ seen' = seen \/ seen' = [seen EXCEPT ![e] = {}]
    BY <1>5 DEF CheckForConflicts
  <2> QED
    BY <1>1, <1>2, <2>1 DEF OnlyWorked
<1>6. ASSUME NEW t \in Task, ReadFootprint(e, t)
      PROVE  OnlyWorked'
  <2>1. PICK found \in {seen[e] \cup ({t} \X bus[t]), seen[e]} :
          /\ seen' = [seen EXCEPT ![e] = found] \/ seen' = [seen EXCEPT ![e] = {}]
          /\ losers' = losers \/ losers' = [losers EXCEPT ![e] = {}]
          /\ \/ losers' = losers /\ ruling' = ruling
             \/ /\ losers' = [losers EXCEPT ![e] = {}]
                /\ ruling' = [ruling EXCEPT ![e] = None]
    BY <1>6 DEF ReadFootprint, EndCheck
  <2>2. bus' = bus
    BY <1>6 DEF ReadFootprint
  <2>3. \A x \in found : x[1] \in HasRun
    BY <1>2, <2>1 DEF OnlyWorked
  <2>4. \A d \in Execution : \A x \in seen'[d] : x[1] \in HasRun
    BY <1>2, <2>1, <2>3 DEF OnlyWorked
  <2>5. \A d \in Execution : losers'[d] \subseteq HasRun /\ (losers'[d] # {} => ruling'[d] # None)
    BY <1>2, <2>1 DEF OnlyWorked
  <2> QED
    BY <1>1, <1>2, <2>2, <2>4, <2>5 DEF OnlyWorked
<1>7. ASSUME NEW p \in Path, NEW w \in Task, Arbitrate(e, p, w)
      PROVE  OnlyWorked'
  <2>1. /\ bus' = bus /\ seen' = seen
        /\ losers' = [losers EXCEPT ![e] = Candidates(e, p) \ {w}]
        /\ ruling' = [ruling EXCEPT ![e] = <<p, w>>]
    BY <1>7 DEF Arbitrate
  <2>2. Candidates(e, p) \subseteq HasRun
    BY <1>2 DEF OnlyWorked, Candidates
  <2>3. <<p, w>> # None
    BY NoneAssumption
  <2> QED
    BY <1>1, <1>2, <2>1, <2>2, <2>3 DEF OnlyWorked
<1>8. ASSUME NEW t \in Task, RequeueTask(e, t)
      PROVE  OnlyWorked'
  <2>1. /\ bus' = bus
        /\ seen' = seen \/ seen' = [seen EXCEPT ![e] = {}]
        /\ \/ /\ losers' = [losers EXCEPT ![e] = @ \ {t}]
              /\ ruling' = ruling
           \/ losers' = [losers EXCEPT ![e] = {}] /\ ruling' = [ruling EXCEPT ![e] = None]
    BY <1>8 DEF RequeueTask, EndCheck
  <2> QED
    BY <1>1, <1>2, <2>1 DEF OnlyWorked
<1> QED
  BY <1>3, <1>4, <1>5, <1>6, <1>7, <1>8
     DEF Advance, Begin, EnterStage, Finish, Catch, StartTask, RecordTask, CatchTask, judge

\* AllStaged is inductive.
LEMMA AllStagedStep ==
  TypeOK /\ Placed /\ AllStaged /\ [Next]_vars => AllStaged'
<1> SUFFICES ASSUME TypeOK, Placed, AllStaged, [Next]_vars
             PROVE  AllStaged'
  OBVIOUS
<1>1. ASSUME NEW e \in Execution, Begin(e) \/ Advance(e)
      PROVE  AllStaged'
  <2>1. OnlyWorked' /\ Staged(e)'
    BY <1>1, OnlyWorkedStep, StagedStep
  <2>2. \A t \in Task : t[1] # e => (t \in HasRun' <=> t \in HasRun)
    <3>1. Current(e)[1] = e
      BY DEF Current
    <3> QED
      BY <1>1, <3>1, RanByOthers, RanByStart
  <2>3. \A d \in Execution \ {e} : Staged(d)'
    BY <1>1, <2>2, StepsAreLocal, OthersStaged DEF AllStaged
  <2> QED
    BY <2>1, <2>3 DEF AllStaged
<1>2. ASSUME HasRun' = HasRun, stage' = stage, agent' = agent,
             \A e \in Execution : pc'[e] \in {pc[e], "crashed"},
             \A t \in Task : bus'[t] \in {bus[t], {}},
             seen' = seen \/ seen' = [e \in Execution |-> {}],
             \/ losers' = losers /\ ruling' = ruling
             \/ losers' = [e \in Execution |-> {}]
      PROVE  AllStaged'
  <2>1. OnlyWorked'
    BY <1>2 DEF AllStaged, OnlyWorked
  <2>2. ASSUME NEW e \in Execution
        PROVE  Staged(e)'
    BY <1>2 DEF AllStaged, Staged, Progress, Judging
  <2> QED
    BY <2>1, <2>2 DEF AllStaged
<1>3. ASSUME NEW p \in Project, CreateProject(p)
      PROVE  AllStaged'
  BY <1>2, <1>3 DEF CreateProject, HasRun, exec, judge
<1>4. ASSUME NEW t \in Task, Expire(t)
      PROVE  AllStaged'
  BY <1>2, <1>4 DEF Expire, HasRun, exec, TypeOK, TypeShared
<1>5. ASSUME Crash
      PROVE  AllStaged'
  BY <1>2, <1>5 DEF Crash, HasRun
<1>6. CASE UNCHANGED vars
  BY <1>2, <1>6 DEF vars, HasRun, exec, judge
<1> QED
  BY <1>1, <1>3, <1>4, <1>5, <1>6 DEF Next

\* The invariant holds: a stage's agents are set to work in order, each once,
\* and a re-queued task still counts as worked on.
LEMMA StagedAlways == Spec => []AllStaged
<1>1. Init => AllStaged
  BY DEF Init, AllStaged, OnlyWorked, Staged, HasRun, Judging, Task, Stage
<1> QED
  BY <1>1, TypeCorrect, AllStagedStep, PTL DEF Spec

\* StartsCounted is inductive: where a task is started it has never run, and
\* re-queueing it leaves it counted as run.
LEMMA StartsCountedStep ==
  TypeOK /\ Placed /\ AllStaged /\ StartsCounted /\ [Next]_vars => StartsCounted'
<1> SUFFICES ASSUME TypeOK, Placed, AllStaged, StartsCounted, [Next]_vars
             PROVE  StartsCounted'
  OBVIOUS
<1>1. CASE HasRun' = HasRun /\ starts' = starts
  BY <1>1 DEF StartsCounted
<1>2. ASSUME NEW e \in Execution, Begin(e) \/ Advance(e)
      PROVE  StartsCounted'
  <2>1. CASE ~StartTask(e)
    BY <1>1, <1>2, <2>1, RanByOthers, StartsByOthers
  <2>2. CASE StartTask(e)
    <3>1. CASE /\ HasRun' = HasRun \cup {Current(e)}
               /\ starts' = [starts EXCEPT ![Current(e)] = @ + 1]
      <4>1. Current(e) \in Task \ HasRun
        BY <2>2, RanByStart
      <4>2. starts[Current(e)] = 0
        BY <4>1 DEF StartsCounted
      <4> QED
        BY <3>1, <4>1, <4>2 DEF StartsCounted, TypeOK, TypeTables
    <3> QED
      BY <1>1, <2>2, <3>1, RanByStart
  <2> QED
    BY <2>1, <2>2
<1>3. CASE \/ \E p \in Project : CreateProject(p)
           \/ \E t \in Task : Expire(t)
           \/ Crash
           \/ UNCHANGED vars
  BY <1>1, <1>3 DEF CreateProject, Expire, Crash, vars, HasRun
<1> QED
  BY <1>2, <1>3 DEF Next

\* No task is set to work twice.
LEMMA StartsAlwaysCounted == Spec => []StartsCounted
<1>1. Init => StartsCounted
  BY DEF Init, StartsCounted, HasRun
<1> QED
  BY <1>1, TypeCorrect, StagedAlways, StartsCountedStep, PTL DEF Spec

-----------------------------------------------------------------------------
(* Refinement *)

Phase == [e \in Execution |-> PhaseOf(pc[e])]

\* The phase the contract sees, read off the program point.
LEMMA PhaseAt ==
  ASSUME TypeOK, NEW e \in Execution
  PROVE  /\ Phase[e] = "idle" <=> pc[e] = "idle"
         /\ Phase[e] = "running" <=> pc[e] \in Active
         /\ pc[e] = "completed" => Phase[e] = "completed"
         /\ pc[e] \in {"failed", "unrecorded"} => Phase[e] = "failed"
         /\ pc[e] = "crashed" => Phase[e] = "lost"
<1>1. pc[e] \in Points
  BY DEF TypeOK, TypeControl
<1>2. Phase[e] = PhaseOf(pc[e])
  BY DEF Phase
<1> QED
  BY <1>1, <1>2 DEF PhaseOf, Points, Active, Over

\* A step inside an execution that neither begins nor ends it.
LEMMA PhaseStays ==
  ASSUME NEW e \in Execution, OthersStay(e), pc[e] \in Active, pc'[e] \in Active
  PROVE  Phase' = Phase
<1>1. PhaseOf(pc'[e]) = "running" /\ PhaseOf(pc[e]) = "running"
  BY DEF PhaseOf, Active, Points, Over
<1>2. \A d \in Execution : PhaseOf(pc'[d]) = PhaseOf(pc[d])
  BY <1>1 DEF OthersStay
<1> QED
  BY <1>2 DEF Phase

\* A step of one execution moves its own phase and no other.
LEMMA PhaseMoves ==
  ASSUME NEW e \in Execution, OthersStay(e)
  PROVE  Phase' = [Phase EXCEPT ![e] = PhaseOf(pc'[e])]
  BY DEF Phase, OthersStay

\* Every step of an execution is a step of its contract, or none.
LEMMA StepRefines ==
  ASSUME TypeOK, Placed, AllStaged, StartsCounted, NEW e \in Execution, Begin(e) \/ Advance(e)
  PROVE  Contract!Next \/ UNCHANGED Contract!cvars
<1> USE OrchestratorAssumption
<1> USE DEF Contract!Next, Contract!cvars
<1>1. OthersStay(e) /\ Phase' = [Phase EXCEPT ![e] = PhaseOf(pc'[e])]
  BY StepsAreLocal, PhaseMoves
<1>2. Staged(e)
  BY DEF AllStaged
<1>3. CASE Begin(e)
  <2>1. Phase[e] = "idle" /\ PhaseOf(pc'[e]) = "running"
    BY <1>3, PhaseAt DEF Begin, Goto, PhaseOf, TypeOK, TypeControl
  <2>2. stage' = stage /\ starts' = starts
    BY <1>3, StartsByOthers DEF Begin, StartTask
  <2>3. Contract!Accept(e)
    BY <1>1, <2>1, <2>2 DEF Contract!Accept, Phase
  <2> QED
    BY <2>3
<1>4. CASE StartTask(e)
  <2>1. Phase' = Phase
    BY <1>1, <1>4, PhaseStays DEF StartTask, Goto, Active, Points, Over, TypeOK, TypeControl
  <2>2. stage' = stage /\ pc[e] = "start" /\ stage[e] \in Stage /\ agent[e] \in 1..AgentsOf[stage[e]]
    BY <1>4 DEF StartTask, Placed, Working
  <2>3. CASE starts' = starts
    BY <2>1, <2>2, <2>3 DEF Phase
  <2>4. CASE starts' = [starts EXCEPT ![Current(e)] = @ + 1]
    <3>1. Current(e) \in Contract!Crew(e, stage[e]) /\ starts[Current(e)] = 0
      <4>1. Current(e) \in Task \ HasRun
        BY <1>4, RanByStart
      <4>2. Current(e)[1] = e /\ Current(e)[2] = stage[e] /\ Current(e)[3] = agent[e]
        BY DEF Current
      <4>3. agent[e] <= AgentsOf[stage[e]]
        BY <2>2 DEF Agent
      <4> QED
        BY <4>1, <4>2, <4>3
           DEF Contract!Crew, Contract!AgentRun, Contract!Stage, Contract!Agent, Task, Stage,
               Agent, StartsCounted
    <3>2. Phase[e] = "running" /\ stage[e] > 0
      BY <2>2, PhaseAt DEF Active, Points, Over, Stage
    <3>3. Current(e) \in Contract!AgentRun
      BY <3>1 DEF Contract!Crew
    <3>4. Contract!SetToWork(e, Current(e))
      BY <2>1, <2>2, <2>4, <3>1, <3>2 DEF Contract!SetToWork, Phase
    <3> QED
      BY <3>3, <3>4
  <2> QED
    BY <1>4, <2>3, <2>4, RanByStart
<1>5. CASE EnterStage(e)
  <2>1. starts' = starts /\ Phase' = Phase
    BY <1>1, <1>5, StartsByOthers, PhaseStays
       DEF EnterStage, StartTask, Goto, Active, Points, Over, TypeOK, TypeControl
  <2>2. CASE stage' = stage
    BY <2>1, <2>2 DEF Phase
  <2>3. CASE stage' = [stage EXCEPT ![e] = @ + 1]
    <3>1. pc[e] = "next" /\ stage[e] < NumStages /\ Phase[e] = "running"
      BY <1>5, PhaseAt DEF EnterStage, Active, Points, Over
    <3>2. stage[e] > 0 => Contract!Crew(e, stage[e]) \subseteq Contract!Worked
      BY <1>2, <3>1 DEF Staged, Progress, StartsCounted, Contract!Crew, Contract!Worked,
                        Contract!AgentRun, Contract!Stage, Contract!Agent, Task, Stage, Agent
    <3>3. Contract!EnterStage(e)
      BY <2>1, <2>3, <3>1, <3>2 DEF Contract!EnterStage, Phase
    <3> QED
      BY <3>3
  <2> QED
    BY <1>5, <2>2, <2>3 DEF EnterStage
<1>6. CASE Finish(e)
  <2>1. starts' = starts /\ stage' = stage
    BY <1>6, StartsByOthers DEF Finish, StartTask
  <2>2. pc[e] = "next" /\ stage[e] = NumStages /\ Phase[e] = "running"
    BY <1>6, PhaseAt DEF Finish, Active, Points, Over
  <2>3. CASE pc'[e] = "catch"
    <3>1. Phase' = Phase
      BY <1>1, <2>2, <2>3, PhaseStays DEF Active, Points, Over
    <3> QED
      BY <2>1, <3>1 DEF Phase
  <2>4. CASE pc'[e] = "completed"
    <3>1. Contract!Crew(e, NumStages) \subseteq Contract!Worked
      BY <1>2, <2>2 DEF Staged, Progress, StartsCounted, Contract!Crew, Contract!Worked,
                        Contract!AgentRun, Contract!Stage, Contract!Agent, Task, Stage, Agent
    <3>2. PhaseOf(pc'[e]) = "completed"
      BY <2>4 DEF PhaseOf
    <3>3. Contract!Complete(e)
      BY <1>1, <2>1, <2>2, <3>1, <3>2 DEF Contract!Complete, Phase
    <3> QED
      BY <3>3
  <2> QED
    BY <1>6, <2>3, <2>4 DEF Finish, Goto, TypeOK, TypeControl
<1>7. CASE Catch(e)
  <2>1. starts' = starts /\ stage' = stage
    BY <1>7, StartsByOthers DEF Catch, StartTask
  <2>2. Phase[e] = "running" /\ PhaseOf(pc'[e]) = "failed"
    BY <1>7, PhaseAt DEF Catch, Goto, PhaseOf, Active, Points, Over, TypeOK, TypeControl
  <2>3. Contract!Fail(e)
    BY <1>1, <2>1, <2>2 DEF Contract!Fail, Phase
  <2> QED
    BY <2>3
<1>8. ASSUME ~StartTask(e), stage' = stage, pc[e] \in Active, pc'[e] \in Active
      PROVE  UNCHANGED Contract!cvars
  BY <1>1, <1>8, StartsByOthers, PhaseStays DEF Phase
<1>9. CASE \/ CreateTask(e) \/ ReportTask(e) \/ RecordTask(e) \/ CatchTask(e)
           \/ \E p \in Path : AgentWrite(e, p)
  <2>1. ~StartTask(e) /\ stage' = stage /\ pc[e] \in Active
    BY <1>9 DEF CreateTask, ReportTask, RecordTask, CatchTask, AgentWrite, StartTask, exec,
                Active, Points, Over
  <2>2. pc'[e] \in Active
    BY <1>9 DEF CreateTask, ReportTask, RecordTask, CatchTask, AgentWrite, exec, Goto,
                Active, Points, Over, TypeOK, TypeControl
  <2> QED
    BY <1>8, <2>1, <2>2
<1>10. CASE \/ CheckForConflicts(e)
            \/ \E t \in Task : ReadFootprint(e, t)
            \/ \E p \in Path, w \in Task : Arbitrate(e, p, w)
            \/ \E t \in Task : RequeueTask(e, t)
  <2>1. ~StartTask(e) /\ stage' = stage /\ pc[e] \in Active
    BY <1>10 DEF CheckForConflicts, ReadFootprint, Arbitrate, RequeueTask, StartTask,
                 Active, Points, Over
  <2>2. pc'[e] \in Active
    BY <1>10 DEF CheckForConflicts, ReadFootprint, Arbitrate, RequeueTask, Goto,
                 Active, Points, Over, TypeOK, TypeControl
  <2> QED
    BY <1>8, <2>1, <2>2
<1> QED
  BY <1>3, <1>4, <1>5, <1>6, <1>7, <1>9, <1>10 DEF Advance

\* The workflow engine implements its contract: stage by stage, every agent of
\* a stage set to work exactly once (the starts are counted, so a second one
\* would show), complete only after the last stage, whatever the executions do
\* to each other's rows and files meanwhile.
\* (executeProject, executeStage, executeTask, requeueTask)
THEOREM ContractKept == Spec => KeepsContract
<1>1. Init => Contract!Init
  BY OrchestratorAssumption, PhaseAt
     DEF Init, Contract!Init, Task, Contract!AgentRun, Stage, Agent,
         Contract!Stage, Contract!Agent, PhaseOf, Points, Over, Active
<1>2. TypeOK /\ Placed /\ AllStaged /\ StartsCounted /\ [Next]_vars
        => [Contract!Next]_Contract!cvars
  <2> SUFFICES ASSUME TypeOK, Placed, AllStaged, StartsCounted, [Next]_vars
               PROVE  Contract!Next \/ UNCHANGED Contract!cvars
    OBVIOUS
  <2>1. ASSUME NEW e \in Execution, Begin(e) \/ Advance(e)
        PROVE  Contract!Next \/ UNCHANGED Contract!cvars
    BY <2>1, StepRefines
  <2>2. ASSUME NEW p \in Project, CreateProject(p)
        PROVE  UNCHANGED Contract!cvars
    BY <2>2 DEF CreateProject, exec, Contract!cvars
  <2>3. ASSUME NEW t \in Task, Expire(t)
        PROVE  UNCHANGED Contract!cvars
    BY <2>3 DEF Expire, exec, Contract!cvars
  <2>4. ASSUME Crash
        PROVE  Contract!Next
    <3>1. stage' = stage /\ starts' = starts
      BY <2>4 DEF Crash
    <3>2. \A e \in Execution :
            PhaseOf(pc'[e]) = IF PhaseOf(pc[e]) = "running" THEN "lost" ELSE PhaseOf(pc[e])
      <4>1. TAKE e \in Execution
      <4>2. Phase[e] = PhaseOf(pc[e])
        BY DEF Phase
      <4>3. CASE pc[e] \in Active
        BY <2>4, <4>2, <4>3, PhaseAt DEF Crash, PhaseOf
      <4>4. CASE pc[e] \notin Active
        BY <2>4, <4>2, <4>4, PhaseAt DEF Crash
      <4> QED
        BY <4>3, <4>4
    <3>3. Contract!Die
      BY <3>1, <3>2 DEF Contract!Die
    <3> QED
      BY <3>3 DEF Contract!Next
  <2>5. CASE UNCHANGED vars
    BY <2>5 DEF vars, exec, Contract!cvars
  <2> QED
    BY <2>1, <2>2, <2>3, <2>4, <2>5 DEF Next
<1> QED
  BY <1>1, <1>2, TypeCorrect, StagedAlways, StartsAlwaysCounted, PTL
     DEF Spec, KeepsContract, Contract!Spec

-----------------------------------------------------------------------------
(* What the agents wrote *)

\* An agent is at work on t.
AtWork(t) == pc[t[1]] = "agent" /\ t = Current(t[1])

\* Where an execution is, or ends, after something broke it off.
Broken == {"catchTask", "catch", "failed", "unrecorded", "crashed"}

\* The execution of t broke off in the stage of t: it will not pass it.
Doomed(t) == stage[t[1]] = t[2] /\ pc[t[1]] \in Broken

\* A running agent's footprint on the bus is behind what it knows itself.
BusBehind == \A t \in Task : AtWork(t) => bus[t] \subseteq wrote[t[1]]

\* The last writer of a file was set to work; it knows of the file while it is
\* at work, and afterwards the bus does.
WriteTold(f, t) ==
  /\ t \in HasRun
  /\ AtWork(t) => \E p \in wrote[t[1]] : FileOf[p] = f
  /\ ~AtWork(t) => t \in missed \/ Doomed(t) \/ \E p \in bus[t] : FileOf[p] = f

WritesTold == \A f \in File, t \in Task : disk[f] = t => WriteTold(f, t)

HaveRows == \A t \in HasRun : row[t] # "absent"

WritesKnown == BusBehind /\ WritesTold /\ HaveRows

\* A task that has run keeps its footprint, or is known to have lost it.
FootprintKept(t) ==
  t \in HasRun =>
    /\ t \in HasRun'
    /\ t \in missed => t \in missed'
    /\ t \notin missed' => bus[t] \subseteq bus'[t]

\* No step of an execution takes a task out of those that have run.
LEMMA HasRunGrows ==
  ASSUME TypeOK, Placed, AllStaged, NEW e \in Execution, Begin(e) \/ Advance(e)
  PROVE  HasRun \subseteq HasRun'
  BY RanByOthers, RanByStart

\* No step removes a row.
LEMMA RowsStay ==
  ASSUME TypeOK, [Next]_vars
  PROVE  \A t \in Task : row[t] # "absent" => row'[t] # "absent"
<1> USE DEF TypeOK, TypeTables
<1>1. ASSUME NEW e \in Execution, Begin(e) \/ Advance(e)
      PROVE  \A t \in Task : row[t] # "absent" => row'[t] # "absent"
  BY <1>1 DEF Advance, Begin, EnterStage, Finish, Catch, CreateTask, StartTask, AgentWrite,
     ReportTask, RecordTask, CatchTask, CheckForConflicts, ReadFootprint, Arbitrate, RequeueTask
<1> QED
  BY <1>1 DEF Next, CreateProject, Expire, Crash, vars
\* Steps of an execution that has no agent at work before or after.
LEMMA WritesFrame ==
  ASSUME NEW e \in Execution, OthersStay(e), BusBehind, WritesTold,
         bus' = bus, disk' = disk, wrote' = wrote,
         missed \subseteq missed', HasRun \subseteq HasRun',
         pc[e] # "agent", pc'[e] # "agent",
         pc[e] \in Broken => pc'[e] \in Broken /\ stage'[e] = stage[e]
  PROVE  BusBehind' /\ WritesTold'
<1>1. ASSUME NEW t \in Task
      PROVE  AtWork(t)' <=> AtWork(t)
  BY DEF AtWork, OthersStay, Current, Task
<1>2. ASSUME NEW t \in Task, Doomed(t)
      PROVE  Doomed(t)'
  BY <1>2 DEF Doomed, OthersStay, Task, Broken
<1>3. BusBehind'
  BY <1>1 DEF BusBehind
<1>4. ASSUME NEW f \in File, NEW t \in Task, disk'[f] = t
      PROVE  WriteTold(f, t)'
  BY <1>1, <1>2, <1>4 DEF WritesTold, WriteTold
<1> QED
  BY <1>3, <1>4 DEF WritesTold

\* Steps that change the footprint of the task e is at, and of no other.
LEMMA WritesStep ==
  ASSUME TypeOK, Placed, AllStaged, WritesKnown, NEW e \in Execution, Begin(e) \/ Advance(e)
  PROVE  BusBehind' /\ WritesTold'
<1> USE DEF TypeOK, TypeControl, TypeShared, TypeRun
<1>1. OthersStay(e) /\ HasRun \subseteq HasRun'
  BY StepsAreLocal, HasRunGrows
<1>2. BusBehind /\ WritesTold
  BY DEF WritesKnown
<1>3. \A t \in Task : t[1] # e => (AtWork(t)' <=> AtWork(t)) /\ (Doomed(t) => Doomed(t)')
  BY <1>1 DEF OthersStay, AtWork, Doomed, Broken, Current, Task
<1>4. Current(e)[1] = e /\ Current(e)[2] = stage[e]
  BY DEF Current
<1>5. CASE CreateTask(e)
  <2>1. Current(e) \in Task /\ Current(e) \notin HasRun
    BY <1>5, CurrentTask DEF CreateTask, Working, AllStaged
  <2>2. /\ disk' = disk /\ wrote' = wrote /\ missed' = missed /\ stage' = stage
        /\ bus' = bus \/ bus' = [bus EXCEPT ![Current(e)] = {}]
        /\ pc[e] = "create" /\ pc'[e] # "agent"
    BY <1>5 DEF CreateTask, run, judge, Goto
  <2>3. \A t \in Task : t[1] = e => ~AtWork(t) /\ ~AtWork(t)' /\ ~Doomed(t)
    BY <2>2 DEF AtWork, Doomed, Broken
  <2>4. BusBehind'
    BY <1>2, <1>3, <2>1, <2>2, <2>3 DEF BusBehind
  <2>5. ASSUME NEW f \in File, NEW t \in Task, disk'[f] = t
        PROVE  WriteTold(f, t)'
    <3>1. WriteTold(f, t) /\ t # Current(e) /\ bus'[t] = bus[t]
      BY <1>2, <2>1, <2>2, <2>5 DEF WritesTold, WriteTold
    <3> QED
      BY <1>1, <1>3, <2>2, <2>3, <3>1 DEF WriteTold
  <2> QED
    BY <2>4, <2>5 DEF WritesTold
<1>6. CASE StartTask(e)
  <2>1. Current(e) \in Task /\ Current(e) \notin HasRun
    BY <1>6, CurrentTask DEF StartTask, Working, AllStaged
  <2>2. /\ disk' = disk /\ wrote' = wrote /\ missed' = missed /\ stage' = stage /\ agent' = agent
        /\ bus' = bus /\ pc[e] = "start"
    BY <1>6 DEF StartTask, run, judge
  <2>3. Current(e)' = Current(e) /\ bus[Current(e)] = {}
    BY <2>1, <2>2 DEF Current, AllStaged, OnlyWorked
  <2>4. \A t \in Task : t[1] = e => ~AtWork(t) /\ ~Doomed(t) /\ (AtWork(t)' => t = Current(e))
    BY <2>2, <2>3 DEF AtWork, Doomed, Broken
  <2>5. BusBehind'
    BY <1>2, <1>3, <2>2, <2>3, <2>4 DEF BusBehind
  <2>6. ASSUME NEW f \in File, NEW t \in Task, disk'[f] = t
        PROVE  WriteTold(f, t)'
    <3>1. WriteTold(f, t) /\ t # Current(e)
      BY <1>2, <2>1, <2>2, <2>6 DEF WritesTold, WriteTold
    <3> QED
      BY <1>1, <1>3, <2>2, <2>4, <3>1 DEF WriteTold
  <2> QED
    BY <2>5, <2>6 DEF WritesTold
<1>7. ASSUME NEW q \in Path, AgentWrite(e, q)
      PROVE  BusBehind' /\ WritesTold'
  <2>1. Current(e) \in Task /\ Current(e) \in HasRun
    BY <1>7, CurrentTask DEF AgentWrite, Working, AllStaged
  <2>2. /\ pc' = pc /\ stage' = stage /\ agent' = agent /\ missed' = missed
        /\ pc[e] = "agent"
        /\ disk' = [disk EXCEPT ![FileOf[q]] = Current(e)]
        /\ wrote' = [wrote EXCEPT ![e] = @ \cup {q}]
        /\ bus' = bus \/ bus' = [bus EXCEPT ![Current(e)] = wrote'[e]]
    BY <1>7 DEF AgentWrite, exec, judge
  <2>3. \A t \in Task : (AtWork(t)' <=> AtWork(t)) /\ (Doomed(t)' <=> Doomed(t))
    BY <2>2 DEF AtWork, Doomed, Broken, Current
  <2>4. \A t \in Task : t[1] = e => (AtWork(t) <=> t = Current(e))
    BY <2>2, <1>4 DEF AtWork
  <2>5. \A d \in Execution : wrote[d] \subseteq wrote'[d]
    BY <2>2
  <2>6. AtWork(Current(e))
    BY <1>4, <2>1, <2>4
  <2>7. BusBehind'
    <3> SUFFICES ASSUME NEW t \in Task, AtWork(t)
                 PROVE  bus'[t] \subseteq wrote'[t[1]]
      BY <2>3 DEF BusBehind
    <3>1. t[1] \in Execution
      BY DEF Task
    <3>2. CASE bus'[t] = bus[t]
      BY <1>2, <2>5, <3>1, <3>2 DEF BusBehind
    <3>3. CASE t = Current(e) /\ bus'[t] = wrote'[e]
      BY <1>4, <3>3
    <3> QED
      BY <2>2, <3>2, <3>3
  <2>8. ASSUME NEW f \in File, NEW t \in Task, disk'[f] = t
        PROVE  WriteTold(f, t)'
    <3>1. t[1] \in Execution
      BY DEF Task
    <3>2. CASE t = Current(e)
      <4>1. \E p \in wrote'[t[1]] : FileOf[p] = f
        <5>1. CASE f = FileOf[q]
          BY <1>4, <2>2, <3>2, <5>1
        <5>2. CASE f # FileOf[q]
          <6>1. disk[f] = t
            BY <2>2, <2>8, <5>2
          <6> QED
            BY <1>2, <2>5, <2>6, <3>1, <3>2, <6>1 DEF WritesTold, WriteTold
        <5> QED
          BY <5>1, <5>2
      <4> QED
        BY <1>1, <2>1, <2>3, <2>6, <3>2, <4>1 DEF WriteTold
    <3>3. CASE t # Current(e)
      <4>1. disk[f] = t /\ bus'[t] = bus[t]
        BY <2>2, <2>8, <3>3
      <4>2. WriteTold(f, t)
        BY <1>2, <4>1 DEF WritesTold
      <4> QED
        BY <1>1, <2>2, <2>3, <2>5, <3>1, <4>1, <4>2 DEF WriteTold
    <3> QED
      BY <3>2, <3>3
  <2> QED
    BY <2>7, <2>8 DEF WritesTold
<1>8. CASE ReportTask(e)
  <2>1. Current(e) \in Task /\ Current(e) \in HasRun
    BY <1>8, CurrentTask DEF ReportTask, Working, AllStaged
  <2>2. /\ disk' = disk /\ stage' = stage /\ agent' = agent /\ missed' = missed
        /\ wrote' = [wrote EXCEPT ![e] = {}]
        /\ pc[e] = "agent"
        /\ \/ pc'[e] = "record" /\ bus' = [bus EXCEPT ![Current(e)] = wrote[e]]
           \/ pc'[e] = "catchTask" /\ bus' = bus
    BY <1>8 DEF ReportTask, EndRun, Goto, judge
  <2>3. \A t \in Task : t[1] = e => ~AtWork(t)' /\ ~Doomed(t) /\ (AtWork(t) <=> t = Current(e))
    BY <1>4, <2>2 DEF AtWork, Doomed, Broken
  <2>4. \A t \in Task : t[1] # e => bus'[t] = bus[t] /\ wrote'[t[1]] = wrote[t[1]]
    BY <1>4, <2>2 DEF Task
  <2>5. BusBehind'
    BY <1>2, <1>3, <2>3, <2>4 DEF BusBehind
  <2>6. ASSUME NEW f \in File, NEW t \in Task, disk'[f] = t
        PROVE  WriteTold(f, t)'
    <3>1. WriteTold(f, t)
      BY <1>2, <2>2, <2>6 DEF WritesTold
    <3>2. CASE t[1] # e
      BY <1>1, <1>3, <2>2, <2>4, <3>1, <3>2 DEF WriteTold
    <3>3. CASE t = Current(e)
      <4>1. \/ bus'[t] = wrote[e]
            \/ Doomed(t)'
        BY <1>4, <2>1, <2>2, <3>3 DEF Doomed, Broken
      <4> QED
        BY <1>1, <1>4, <2>3, <3>1, <3>3, <4>1 DEF WriteTold
    <3>4. CASE t[1] = e /\ t # Current(e)
      <4>1. bus'[t] = bus[t]
        BY <2>2, <3>4
      <4> QED
        BY <1>1, <2>2, <2>3, <3>1, <3>4, <4>1 DEF WriteTold
    <3> QED
      BY <3>2, <3>3, <3>4
  <2> QED
    BY <2>5, <2>6 DEF WritesTold
<1>9. ASSUME bus' = bus, disk' = disk, wrote' = wrote, missed \subseteq missed',
             pc[e] # "agent", pc'[e] # "agent",
             pc[e] \in Broken => pc'[e] \in Broken /\ stage'[e] = stage[e]
      PROVE  BusBehind' /\ WritesTold'
  BY <1>1, <1>2, <1>9, WritesFrame
<1>10. CASE Begin(e) \/ EnterStage(e) \/ Finish(e)
  BY <1>9, <1>10 DEF Begin, EnterStage, Finish, Goto, run, judge, Broken
<1>11. CASE Catch(e) \/ RecordTask(e) \/ CatchTask(e)
  BY <1>9, <1>11 DEF Catch, RecordTask, CatchTask, Goto, run, judge, Broken
<1>12. CASE \/ CheckForConflicts(e)
            \/ \E t \in Task : ReadFootprint(e, t)
            \/ \E p \in Path, w \in Task : Arbitrate(e, p, w)
            \/ \E t \in Task : RequeueTask(e, t)
  BY <1>9, <1>12 DEF CheckForConflicts, ReadFootprint, Arbitrate, RequeueTask, Goto, run, Broken
<1> QED
  BY <1>5, <1>6, <1>7, <1>8, <1>10, <1>11, <1>12 DEF Advance
\* A footprint only grows, except that it may lapse: a running agent reports no
\* less than it reported on the way, and nobody else writes to it.
LEMMA FootprintsKept ==
  ASSUME TypeOK, Placed, AllStaged, WritesKnown, [Next]_vars
  PROVE  \A t \in Task : FootprintKept(t)
<1> USE DEF TypeOK, TypeControl, TypeShared, TypeRun, FootprintKept
<1>1. ASSUME NEW e \in Execution, Begin(e) \/ Advance(e)
      PROVE  \A t \in Task : FootprintKept(t)
  <2>1. HasRun \subseteq HasRun'
    BY <1>1, HasRunGrows
  <2>2. CASE CreateTask(e)
    <3>1. Current(e) \notin HasRun
      BY <2>2, CurrentTask DEF CreateTask, Working, AllStaged
    <3>2. missed' = missed /\ (bus' = bus \/ bus' = [bus EXCEPT ![Current(e)] = {}])
      BY <2>2 DEF CreateTask, judge
    <3> QED
      BY <2>1, <3>1, <3>2
  <2>3. CASE ReportTask(e) \/ \E p \in Path : AgentWrite(e, p)
    <3>1. Current(e) \in Task /\ Current(e)[1] = e
      BY <2>3, CurrentTask DEF ReportTask, AgentWrite, Working, AllStaged, Current
    <3>2. bus[Current(e)] \subseteq wrote[e]
      BY <2>3, <3>1 DEF ReportTask, AgentWrite, WritesKnown, BusBehind, AtWork
    <3>3. missed' = missed
      BY <2>3 DEF ReportTask, AgentWrite, judge
    <3>4. \/ bus' = bus
          \/ \E files : wrote[e] \subseteq files /\ bus' = [bus EXCEPT ![Current(e)] = files]
      <4>1. CASE ReportTask(e)
        BY <4>1 DEF ReportTask
      <4>2. ASSUME NEW p \in Path, AgentWrite(e, p)
            PROVE  wrote[e] \subseteq wrote'[e] /\ (bus' = bus \/ bus' = [bus EXCEPT ![Current(e)] = wrote'[e]])
        BY <4>2 DEF AgentWrite
      <4> QED
        BY <2>3, <4>1, <4>2
    <3> QED
      BY <2>1, <3>1, <3>2, <3>3, <3>4
  <2>4. CASE bus' = bus /\ missed \subseteq missed'
    BY <2>1, <2>4
  <2> QED
    BY <1>1, <2>2, <2>3, <2>4
       DEF Advance, Begin, EnterStage, Finish, Catch, StartTask, RecordTask, CatchTask,
           CheckForConflicts, ReadFootprint, Arbitrate, RequeueTask, judge
<1>2. ASSUME NEW t \in Task, Expire(t)
      PROVE  \A u \in Task : FootprintKept(u)
  BY <1>2 DEF Expire, HasRun
<1>3. CASE (\E p \in Project : CreateProject(p)) \/ Crash \/ UNCHANGED vars
  BY <1>3 DEF CreateProject, Crash, vars, judge, HasRun
<1> QED
  BY <1>1, <1>2, <1>3 DEF Next

\* WritesKnown is inductive.
LEMMA WritesKnownStep ==
  TypeOK /\ Placed /\ AllStaged /\ WritesKnown /\ [Next]_vars => WritesKnown'
<1> SUFFICES ASSUME TypeOK, Placed, AllStaged, WritesKnown, [Next]_vars
             PROVE  WritesKnown'
  OBVIOUS
<1> USE DEF TypeOK, TypeTables, TypeControl, TypeShared
<1>1. BusBehind /\ WritesTold /\ HaveRows
  BY DEF WritesKnown
<1>2. HaveRows'
  <2>1. ASSUME NEW t \in Task, t \in HasRun', t \notin HasRun
        PROVE  row'[t] # "absent"
    <3>1. \A e \in Execution : StartTask(e) => row'[t] # "absent"
      BY <2>1 DEF StartTask, HasRun
    <3>2. \A e \in Execution : Begin(e) \/ Advance(e) => StartTask(e)
      BY <2>1, RanByOthers
    <3> QED
      BY <2>1, <3>1, <3>2 DEF Next, CreateProject, Expire, Crash, vars, HasRun
  <2>2. HasRun' \subseteq Task
    BY DEF HasRun
  <2> QED
    BY <1>1, <2>1, <2>2, RowsStay DEF HaveRows, HasRun
<1>3. ASSUME NEW e \in Execution, Begin(e) \/ Advance(e)
      PROVE  BusBehind' /\ WritesTold'
  BY <1>3, WritesStep
<1>4. ASSUME NEW t \in Task, Expire(t)
      PROVE  BusBehind' /\ WritesTold'
  <2>1. /\ disk' = disk /\ wrote' = wrote /\ pc' = pc /\ stage' = stage /\ agent' = agent
        /\ row' = row /\ note' = note
        /\ bus' = [bus EXCEPT ![t] = {}] /\ missed' = missed \cup {t}
    BY <1>4 DEF Expire, exec, run
  <2>2. HasRun' = HasRun
    BY <2>1 DEF HasRun
  <2>3. \A u \in Task : (AtWork(u)' <=> AtWork(u)) /\ (Doomed(u)' <=> Doomed(u))
    BY <2>1 DEF AtWork, Doomed, Broken, Current
  <2>4. BusBehind'
    BY <1>1, <2>1, <2>3 DEF BusBehind
  <2>5. ASSUME NEW f \in File, NEW u \in Task, disk'[f] = u
        PROVE  WriteTold(f, u)'
    BY <1>1, <2>1, <2>2, <2>3, <2>5 DEF WritesTold, WriteTold
  <2> QED
    BY <2>4, <2>5 DEF WritesTold
<1>5. ASSUME Crash
      PROVE  BusBehind' /\ WritesTold'
  <2>1. /\ disk' = disk /\ stage' = stage /\ agent' = agent /\ bus' = bus
        /\ missed' = missed /\ HasRun' = HasRun
        /\ \A e \in Execution : pc'[e] = IF pc[e] \in Active THEN "crashed" ELSE pc[e]
    BY <1>5 DEF Crash, HasRun
  <2>2. ASSUME NEW t \in Task
        PROVE  /\ ~AtWork(t)'
               /\ Doomed(t) => Doomed(t)'
               /\ AtWork(t) => Doomed(t)'
    <3>1. t[1] \in Execution
      BY DEF Task
    <3>2. AtWork(t) => stage[t[1]] = t[2]
      BY DEF AtWork, Current
    <3> QED
      BY <2>1, <3>1, <3>2 DEF AtWork, Doomed, Broken, Active, Points, Over
  <2>3. BusBehind'
    BY <2>2 DEF BusBehind
  <2>4. ASSUME NEW f \in File, NEW t \in Task, disk'[f] = t
        PROVE  WriteTold(f, t)'
    BY <1>1, <2>1, <2>2, <2>4 DEF WritesTold, WriteTold
  <2> QED
    BY <2>3, <2>4 DEF WritesTold
<1>6. ASSUME (\E p \in Project : CreateProject(p)) \/ UNCHANGED vars
      PROVE  BusBehind' /\ WritesTold'
  <2>1. /\ disk' = disk /\ wrote' = wrote /\ pc' = pc /\ stage' = stage /\ agent' = agent
        /\ row' = row /\ note' = note /\ bus' = bus /\ missed' = missed
    BY <1>6 DEF CreateProject, vars, exec, run, judge
  <2>2. HasRun' = HasRun
    BY <2>1 DEF HasRun
  <2>3. \A u \in Task : (AtWork(u)' <=> AtWork(u)) /\ (Doomed(u)' <=> Doomed(u))
    BY <2>1 DEF AtWork, Doomed, Broken, Current
  <2>4. BusBehind'
    BY <1>1, <2>1, <2>3 DEF BusBehind
  <2>5. ASSUME NEW f \in File, NEW u \in Task, disk'[f] = u
        PROVE  WriteTold(f, u)'
    BY <1>1, <2>1, <2>2, <2>3, <2>5 DEF WritesTold, WriteTold
  <2> QED
    BY <2>4, <2>5 DEF WritesTold
<1> QED
  BY <1>2, <1>3, <1>4, <1>5, <1>6 DEF Next, WritesKnown

\* The invariant holds: what an agent wrote it reports, or its execution never
\* passes the stage.
LEMMA WritesKnownAlways == Spec => []WritesKnown
<1>1. Init => WritesKnown
  BY NoneAssumption
     DEF Init, WritesKnown, BusBehind, WritesTold, HaveRows, HasRun, AtWork
<1> QED
  BY <1>1, TypeCorrect, StagedAlways, WritesKnownStep, PTL DEF Spec

\* A file of the workspace is in the footprint of the task that wrote it last,
\* by the time that task's execution has had the stage checked, whatever was
\* lost on the way to Redis. (AgentRunner.run, executeTask)
THEOREM WritesReachTheDetector == Spec => []FootprintsTell
<1>1. TypeOK /\ WritesKnown => FootprintsTell
  <2> SUFFICES ASSUME TypeOK, WritesKnown, NEW f \in File, NEW t \in Task \ missed,
                      disk[f] = t, Passed(t[1], t[2])
               PROVE  \E p \in bus[t] : FileOf[p] = f
    BY DEF FootprintsTell
  <2>1. t[1] \in Execution /\ t[2] \in Nat /\ stage[t[1]] \in Nat
    BY OrchestratorAssumption DEF Task, Stage, TypeOK, TypeControl
  <2>2. ~AtWork(t) /\ ~Doomed(t)
    BY <2>1 DEF Passed, AtWork, Doomed, Broken, Current
  <2> QED
    BY <2>2 DEF WritesKnown, WritesTold, WriteTold
<1> QED
  BY <1>1, TypeCorrect, WritesKnownAlways, PTL
-----------------------------------------------------------------------------
(* Rulings and notes *)

\* t is a task of the project and stage that e is at.
Peer(e, t) == ProjectOf[t[1]] = ProjectOf[e] /\ t[2] = stage[e]

\* p is in the footprint of t, or was before that lapsed.
Had(t, p) == t \in HasRun /\ (p \in bus[t] \/ t \in missed)

\* What e has found and ruled is about its peers and what they had; a loser
\* lost to another task over a path both had. Outside the check it holds nothing.
Sound(e) ==
  /\ pc[e] \notin {"scan", "rule", "requeue"} =>
       unread[e] = {} /\ seen[e] = {} /\ losers[e] = {}
  /\ \A t \in unread[e] : Peer(e, t)
  /\ \A x \in seen[e] : Peer(e, x[1]) /\ Had(x[1], x[2])
  /\ \A t \in losers[e] :
       /\ t # ruling[e][2]
       /\ {<<t, ruling[e][1]>>, <<ruling[e][2], ruling[e][1]>>} \subseteq seen[e]

\* The note on t, if it has one, names a peer and a path both had.
JustNote(t) ==
  note[t] # None =>
    LET p == note[t][1]
        w == note[t][2]
    IN /\ w # t /\ w[2] = t[2] /\ ProjectOf[w[1]] = ProjectOf[t[1]]
       /\ Had(t, p) /\ Had(w, p)

FairlyJudged == (\A e \in Execution : Sound(e)) /\ (\A t \in Task : JustNote(t))

\* An execution's own steps leave what the others have read and ruled alone.
OthersJudge(e) ==
  \A d \in Execution \ {e} :
    /\ unread'[d] = unread[d] /\ seen'[d] = seen[d] /\ contested'[d] = contested[d]
    /\ losers'[d] = losers[d] /\ ruling'[d] = ruling[d]

LEMMA JudgingIsLocal ==
  ASSUME TypeOK, NEW e \in Execution, Begin(e) \/ Advance(e)
  PROVE  OthersJudge(e)
<1> USE DEF OthersJudge, TypeOK, TypeJudge
<1>1. CASE judge' = judge
  BY <1>1 DEF judge
<1>2. CASE CheckForConflicts(e)
  BY <1>2 DEF CheckForConflicts
<1>3. CASE \E t \in Task : ReadFootprint(e, t)
  BY <1>3 DEF ReadFootprint, EndCheck
<1>4. CASE \E p \in Path, w \in Task : Arbitrate(e, p, w)
  BY <1>4 DEF Arbitrate
<1>5. CASE \E t \in Task : RequeueTask(e, t)
  BY <1>5 DEF RequeueTask, EndCheck
<1> QED
  BY <1>1, <1>2, <1>3, <1>4, <1>5
     DEF Advance, Begin, EnterStage, Finish, Catch, CreateTask, StartTask, AgentWrite,
         ReportTask, RecordTask, CatchTask, judge

\* What a task had it goes on having had.
LEMMA HadKept ==
  ASSUME NEW t \in Task, FootprintKept(t), NEW p, Had(t, p)
  PROVE  Had(t, p)'
  BY DEF FootprintKept, Had

\* An execution that holds nothing is sound.
LEMMA NothingHeld ==
  ASSUME NEW e \in Execution, unread'[e] = {}, seen'[e] = {}, losers'[e] = {}
  PROVE  Sound(e)'
  BY DEF Sound

\* An execution that is left alone stays sound: footprints only grow or lapse.
LEMMA SoundKept ==
  ASSUME TypeOK, NEW e \in Execution, Sound(e), \A t \in Task : FootprintKept(t),
         unread'[e] = unread[e], seen'[e] = seen[e], losers'[e] = losers[e],
         ruling'[e] = ruling[e], stage'[e] = stage[e], pc'[e] = pc[e]
  PROVE  Sound(e)'
<1>1. ASSUME NEW x \in seen[e]
      PROVE  Peer(e, x[1])' /\ Had(x[1], x[2])'
  <2>1. x[1] \in Task
    BY DEF TypeOK, TypeJudge
  <2> QED
    BY <2>1, HadKept DEF Sound, Peer
<1> QED
  BY <1>1 DEF Sound, Peer

\* An execution's own step keeps it sound.
LEMMA SoundStep ==
  ASSUME TypeOK, AllStaged, NEW e \in Execution, Sound(e), Begin(e) \/ Advance(e),
         \A t \in Task : FootprintKept(t)
  PROVE  Sound(e)'
<1> USE DEF TypeOK, TypeControl, TypeJudge, TypeShared
<1>1. CASE /\ judge' = judge
           /\ pc[e] \notin {"scan", "rule", "requeue"}
  BY <1>1, NothingHeld DEF Sound, judge
<1>2. CASE CheckForConflicts(e)
  <2>1. pc[e] = "check" /\ losers' = losers /\ stage' = stage
    BY <1>2 DEF CheckForConflicts
  <2>2. unread[e] = {} /\ seen[e] = {} /\ losers[e] = {}
    BY <2>1 DEF Sound
  <2>3. \/ unread' = unread /\ seen' = seen
        \/ unread'[e] = StageRows(e) /\ seen'[e] = {} /\ pc'[e] = "scan"
    BY <1>2 DEF CheckForConflicts, Goto
  <2>4. CASE unread' = unread /\ seen' = seen
    BY <2>1, <2>2, <2>4, NothingHeld
  <2>5. CASE unread'[e] = StageRows(e) /\ seen'[e] = {} /\ pc'[e] = "scan"
    BY <2>1, <2>2, <2>5 DEF Sound, StageRows, Peer
  <2> QED
    BY <2>3, <2>4, <2>5
<1>3. ASSUME NEW t \in Task, ReadFootprint(e, t)
      PROVE  Sound(e)'
  <2>1. t \in unread[e] /\ stage' = stage /\ bus' = bus /\ pc[e] = "scan"
    BY <1>3 DEF ReadFootprint
  <2>2. PICK found \in {seen[e] \cup ({t} \X bus[t]), seen[e]} :
          /\ \/ pc'[e] \in {"scan", "rule"} /\ seen'[e] = found /\ unread'[e] \subseteq unread[e]
             \/ seen'[e] = {} /\ unread'[e] = {}
          /\ losers'[e] = losers[e] \/ losers'[e] = {}
          /\ losers'[e] # {} => ruling'[e] = ruling[e] /\ seen'[e] = found
    <3>1. ASSUME NEW found, unread[e] # {t},
                 unread' = [unread EXCEPT ![e] = @ \ {t}], seen' = [seen EXCEPT ![e] = found],
                 UNCHANGED <<pc, contested, losers, ruling>>
          PROVE  /\ pc'[e] = "scan" /\ seen'[e] = found /\ unread'[e] \subseteq unread[e]
                 /\ losers'[e] = losers[e] /\ ruling'[e] = ruling[e]
      BY <2>1, <3>1
    <3> QED
      BY <1>3, <2>1, <3>1 DEF ReadFootprint, EndCheck, Goto
  <2>3. ASSUME NEW x \in found
        PROVE  Peer(e, x[1])' /\ Had(x[1], x[2])'
    <3>1. CASE x \in seen[e]
      <4>1. x[1] \in Task
        BY <3>1
      <4> QED
        BY <2>1, <3>1, <4>1, HadKept DEF Sound, Peer
    <3>2. CASE x \in {t} \X bus[t]
      <4>1. x[1] = t /\ x[2] \in bus[t] /\ t \in HasRun
        BY <3>2 DEF AllStaged, OnlyWorked
      <4> QED
        BY <2>1, <4>1 DEF Sound, Peer, Had, FootprintKept
    <3> QED
      BY <2>2, <3>1, <3>2
  <2>4. seen[e] \subseteq found
    BY <2>2
  <2> QED
    BY <2>1, <2>2, <2>3, <2>4 DEF Sound, Peer
<1>4. ASSUME NEW p \in Path, NEW w \in Task, Arbitrate(e, p, w)
      PROVE  Sound(e)'
  <2>1. /\ stage' = stage /\ unread' = unread /\ seen' = seen /\ pc'[e] = "requeue"
        /\ losers'[e] = Candidates(e, p) \ {w} /\ ruling'[e] = <<p, w>>
        /\ w \in Candidates(e, p)
    BY <1>4 DEF Arbitrate, Goto
  <2>2. \A x \in seen[e] : Peer(e, x[1])' /\ Had(x[1], x[2])'
    <3>1. \A x \in seen[e] : x[1] \in Task
      OBVIOUS
    <3> QED
      BY <2>1, <3>1, HadKept DEF Sound, Peer
  <2>3. \A t \in losers'[e] : t # w /\ {<<t, p>>, <<w, p>>} \subseteq seen[e]
    BY <2>1 DEF Candidates
  <2> QED
    BY <2>1, <2>2, <2>3 DEF Sound, Peer
<1>5. ASSUME NEW t \in Task, RequeueTask(e, t)
      PROVE  Sound(e)'
  <2>1. stage' = stage /\ pc[e] = "requeue"
    BY <1>5 DEF RequeueTask
  <2>2. \/ unread'[e] = {} /\ seen'[e] = {} /\ losers'[e] = {}
        \/ /\ unread' = unread /\ seen' = seen /\ ruling' = ruling
           /\ losers'[e] = losers[e] \ {t} /\ pc'[e] \in {"rule", "requeue"}
    BY <1>5 DEF RequeueTask, EndCheck, Goto
  <2>3. \A x \in seen[e] : Peer(e, x[1])' /\ Had(x[1], x[2])'
    <3>1. \A x \in seen[e] : x[1] \in Task
      OBVIOUS
    <3> QED
      BY <2>1, <3>1, HadKept DEF Sound, Peer
  <2> QED
    BY <2>1, <2>2, <2>3, NothingHeld DEF Sound, Peer
<1> QED
  BY <1>1, <1>2, <1>3, <1>4, <1>5
     DEF Advance, Begin, EnterStage, Finish, Catch, CreateTask, StartTask, AgentWrite,
         ReportTask, RecordTask, CatchTask, judge
\* A note that stays is as just as it was.
LEMMA NoteKept ==
  ASSUME TypeOK, NEW t \in Task, JustNote(t), note'[t] = note[t],
         \A u \in Task : FootprintKept(u)
  PROVE  JustNote(t)'
<1>1. CASE note[t] = None
  BY <1>1 DEF JustNote
<1>2. CASE note[t] # None
  <2>1. note[t][2] \in Task
    BY <1>2 DEF TypeOK, TypeTables
  <2>2. Had(t, note[t][1])' /\ Had(note[t][2], note[t][1])'
    BY <1>2, <2>1, HadKept DEF JustNote
  <2> QED
    BY <1>2, <2>2 DEF JustNote
<1> QED
  BY <1>1, <1>2

\* A note that a sound execution writes is just.
LEMMA NoteWritten ==
  ASSUME TypeOK, NEW e \in Execution, Sound(e), NEW t \in Task, RequeueTask(e, t),
         \A u \in Task : FootprintKept(u), \A u \in Task : JustNote(u)
  PROVE  \A u \in Task : JustNote(u)'
<1> USE DEF TypeOK, TypeTables, TypeJudge
<1>1. \/ note' = note
      \/ note' = [note EXCEPT ![t] = ruling[e]]
  BY DEF RequeueTask
<1>2. CASE note' = [note EXCEPT ![t] = ruling[e]]
  <2>1. ASSUME NEW p, p = ruling[e][1], NEW w, w = ruling[e][2]
        PROVE  JustNote(t)'
    <3>1. t # w /\ <<t, p>> \in seen[e] /\ <<w, p>> \in seen[e]
      BY <2>1 DEF RequeueTask, Sound
    <3>2. w \in Task /\ Peer(e, t) /\ Peer(e, w) /\ Had(t, p) /\ Had(w, p)
      BY <3>1 DEF Sound
    <3>3. Had(t, p)' /\ Had(w, p)'
      BY <3>2, HadKept
    <3>4. note'[t][1] = p /\ note'[t][2] = w
      BY <1>2, <2>1
    <3> QED
      BY <3>1, <3>2, <3>3, <3>4 DEF JustNote, Peer
  <2>5. JustNote(t)'
    BY <2>1
  <2>6. ASSUME NEW u \in Task, u # t
        PROVE  JustNote(u)'
    BY <1>2, <2>6, NoteKept
  <2> QED
    BY <2>5, <2>6
<1>3. CASE note' = note
  BY <1>3, NoteKept
<1> QED
  BY <1>1, <1>2, <1>3

\* FairlyJudged is inductive.
LEMMA FairlyJudgedStep ==
  TypeOK /\ Placed /\ AllStaged /\ WritesKnown /\ FairlyJudged /\ [Next]_vars => FairlyJudged'
<1> SUFFICES ASSUME TypeOK, Placed, AllStaged, WritesKnown, FairlyJudged, [Next]_vars
             PROVE  FairlyJudged'
  OBVIOUS
<1> USE DEF TypeOK, TypeTables
<1>1. \A t \in Task : FootprintKept(t)
  BY FootprintsKept
<1>2. (\A e \in Execution : Sound(e)) /\ (\A t \in Task : JustNote(t))
  BY DEF FairlyJudged
<1>3. ASSUME NEW e \in Execution, Begin(e) \/ Advance(e)
      PROVE  FairlyJudged'
  <2>1. Sound(e)'
    BY <1>1, <1>2, <1>3, SoundStep
  <2>2. ASSUME NEW d \in Execution \ {e}
        PROVE  Sound(d)'
    BY <1>1, <1>2, <1>3, <2>2, StepsAreLocal, JudgingIsLocal, SoundKept DEF OthersStay, OthersJudge
  <2>3. \A t \in Task : JustNote(t)'
    <3>1. CASE \A t \in Task : note'[t] \in {note[t], None}
      <4>1. ASSUME NEW t \in Task, note'[t] = None
            PROVE  JustNote(t)'
        BY <4>1 DEF JustNote
      <4> QED
        BY <1>1, <1>2, <3>1, <4>1, NoteKept
    <3>2. CASE \E t \in Task : RequeueTask(e, t)
      BY <1>1, <1>2, <3>2, NoteWritten
    <3> QED
      BY <1>3, <3>1, <3>2
         DEF Advance, Begin, EnterStage, Finish, Catch, CreateTask, StartTask, AgentWrite,
             ReportTask, RecordTask, CatchTask, CheckForConflicts, ReadFootprint, Arbitrate
  <2> QED
    BY <2>1, <2>2, <2>3 DEF FairlyJudged
<1>4. ASSUME note' = note,
             \/ UNCHANGED <<unread, seen, losers, ruling, stage, pc>>
             \/ \A e \in Execution : unread'[e] = {} /\ seen'[e] = {} /\ losers'[e] = {}
      PROVE  FairlyJudged'
  <2>1. \A t \in Task : JustNote(t)'
    BY <1>1, <1>2, <1>4, NoteKept
  <2>2. \A e \in Execution : Sound(e)'
    BY <1>1, <1>2, <1>4, SoundKept, NothingHeld
  <2> QED
    BY <2>1, <2>2 DEF FairlyJudged
<1>5. CASE (\E p \in Project : CreateProject(p)) \/ (\E t \in Task : Expire(t)) \/ Crash
  BY <1>4, <1>5 DEF CreateProject, Expire, Crash, exec, judge
<1>6. CASE UNCHANGED vars
  BY <1>4, <1>6 DEF vars, exec, judge
<1> QED
  BY <1>3, <1>5, <1>6 DEF Next

\* The invariant holds: what a check reads, rules and writes down is about tasks
\* of its own project and stage and paths these did write.
LEMMA FairlyJudgedAlways == Spec => []FairlyJudged
<1>1. Init => FairlyJudged
  BY DEF Init, FairlyJudged, Sound, JustNote
<1> QED
  BY <1>1, TypeCorrect, StagedAlways, WritesKnownAlways, FairlyJudgedStep, PTL DEF Spec

\* The note on a re-queued row names another task of the same project and
\* stage and a path that both had in their footprints, however the checks of
\* several executions interleave. (arbitrateConflict, requeueTask)
THEOREM RequeuesAreJust == Spec => []NotesAreJust
<1>1. TypeOK /\ FairlyJudged => NotesAreJust
  BY DEF FairlyJudged, JustNote, Had, NotesAreJust
<1> QED
  BY <1>1, TypeCorrect, FairlyJudgedAlways, PTL
-----------------------------------------------------------------------------
(* One keeper per path *)

\* The execution of t has the agents of its stage behind it.
Finished(t) ==
  \/ stage[t[1]] > t[2]
  \/ /\ stage[t[1]] = t[2]
     /\ pc[t[1]] \in {"check", "scan", "rule", "requeue", "next", "completed"}

\* t and u, whose agents are through, both have p in their footprints.
Clash(t, u, p) ==
  /\ t # u /\ t[2] = u[2] /\ ProjectOf[t[1]] = ProjectOf[u[1]]
  /\ Finished(t) /\ Finished(u)
  /\ p \in bus[t] /\ p \in bus[u]
  /\ t \notin missed /\ u \notin missed

Settled(t, u) == row[t] = "pending" \/ row[u] = "pending"

\* The check of e is still going to send t or u back: it has yet to read them,
\* to rule on p, or to re-queue one of them.
Owes(e, t, u, p) ==
  /\ stage[e] = t[2]
  /\ \/ pc[e] = "check"
     \/ pc[e] = "scan" /\ \A x \in {t, u} : x \in unread[e] \/ <<x, p>> \in seen[e]
     \/ /\ pc[e] \in {"rule", "requeue"}
        /\ p \in contested[e]
        /\ <<t, p>> \in seen[e] /\ <<u, p>> \in seen[e]
     \/ pc[e] = "requeue" /\ (t \in losers[e] \/ u \in losers[e])

\* The execution that comes to its check last finds both footprints complete.
Judged ==
  \A t, u \in Task, p \in Path :
    Clash(t, u, p) => Settled(t, u) \/ Owes(t[1], t, u, p) \/ Owes(u[1], t, u, p)

\* What a task whose agent is through had done to it: its footprint does not
\* change unless it lapses, its row not unless it is re-queued.
LEMMA FinishedStays ==
  ASSUME TypeOK, Placed, NEW e \in Execution, Begin(e) \/ Advance(e),
         NEW t \in Task, Finished(t)
  PROVE  /\ bus'[t] = bus[t]
         /\ row[t] = "pending" => row'[t] = "pending"
<1> USE DEF TypeOK, TypeTables, TypeShared
<1>1. pc[e] \in {"create", "start", "agent", "record", "catchTask"} => t # Current(e)
  <2> SUFFICES ASSUME pc[e] \in {"create", "start", "agent", "record", "catchTask"},
                      t = Current(e)
               PROVE  FALSE
    OBVIOUS
  <2>1. stage[e] \in Nat /\ t[1] = e /\ t[2] = stage[e]
    BY OrchestratorAssumption DEF TypeControl, Current
  <2> QED
    BY <2>1 DEF Finished
<1>2. CASE CreateTask(e)
  BY <1>1, <1>2 DEF CreateTask
<1>3. CASE StartTask(e)
  BY <1>1, <1>3 DEF StartTask
<1>4. CASE \E p \in Path : AgentWrite(e, p)
  BY <1>1, <1>4 DEF AgentWrite
<1>5. CASE ReportTask(e)
  BY <1>1, <1>5 DEF ReportTask
<1>6. CASE RecordTask(e)
  BY <1>1, <1>6 DEF RecordTask
<1>7. CASE CatchTask(e)
  BY <1>1, <1>7 DEF CatchTask
<1>8. CASE \E x \in Task : RequeueTask(e, x)
  BY <1>8 DEF RequeueTask
<1>9. CASE bus' = bus /\ row' = row
  BY <1>9
<1> QED
  BY <1>2, <1>3, <1>4, <1>5, <1>6, <1>7, <1>8, <1>9
     DEF Advance, Begin, EnterStage, Finish, Catch, CheckForConflicts, ReadFootprint, Arbitrate

\* A task's agents get behind its execution when that comes to the check.
LEMMA FinishedNewly ==
  ASSUME TypeOK, Placed, NEW e \in Execution, Begin(e) \/ Advance(e),
         NEW t \in Task, Finished(t)', ~Finished(t)
  PROVE  t[1] = e /\ RecordTask(e) /\ stage'[e] = t[2] /\ pc'[e] = "check"
<1> USE OrchestratorAssumption DEF TypeOK, TypeControl
<1>1. t[1] \in Execution /\ t[2] \in Nat \ {0} /\ stage[t[1]] \in Nat
  BY DEF Task, Stage
<1>2. t[1] = e
  BY <1>1, StepsAreLocal DEF OthersStay, Finished
<1>3. CASE EnterStage(e)
  BY <1>1, <1>2, <1>3 DEF EnterStage, Goto, Finished
<1>4. CASE RecordTask(e)
  BY <1>1, <1>2, <1>4 DEF RecordTask, Goto, Finished
<1>5. CASE stage' = stage /\ ~EnterStage(e) /\ ~RecordTask(e)
  <2>1. pc'[e] \in {"check", "scan", "rule", "requeue", "next", "completed"}
        /\ pc[e] \notin {"check", "scan", "rule", "requeue", "next", "completed"}
        /\ stage[e] = t[2]
    BY <1>1, <1>2, <1>5 DEF Finished
  <2>2. pc[e] # "idle"
    BY <1>1, <2>1 DEF Placed
  <2> QED
    BY <1>5, <2>1, <2>2
       DEF Advance, Begin, Finish, Catch, CreateTask, StartTask, AgentWrite, ReportTask, CatchTask,
           CheckForConflicts, ReadFootprint, Arbitrate, RequeueTask, Goto, exec
<1> QED
  BY <1>3, <1>4, <1>5
     DEF Advance, Begin, Finish, Catch, CreateTask, StartTask, AgentWrite, ReportTask, CatchTask,
         RecordTask, CheckForConflicts, ReadFootprint, Arbitrate, RequeueTask, exec
\* A check that owes a ruling goes on owing it until it has re-queued t or u.
LEMMA OwesStep ==
  ASSUME TypeOK, AllStaged, WritesKnown, NEW e \in Execution, Begin(e) \/ Advance(e),
         NEW t \in Task, NEW u \in Task, NEW p \in Path, Owes(e, t, u, p),
         t[1] = e \/ u[1] = e, Finished(t)', Finished(u)',
         t # u, t[2] = u[2], ProjectOf[t[1]] = ProjectOf[u[1]],
         p \in bus[t], p \in bus[u], t \notin missed', u \notin missed'
  PROVE  Settled(t, u)' \/ Owes(e, t, u, p)'
<1> USE DEF TypeOK, TypeTables, TypeControl, TypeJudge
<1>1. stage[e] = t[2] /\ pc[e] \in {"check", "scan", "rule", "requeue"}
  BY DEF Owes
<1>2. stage' = stage
  BY <1>1 DEF Advance, Begin, EnterStage, Finish, Catch, CreateTask, StartTask, AgentWrite,
     ReportTask, RecordTask, CatchTask, CheckForConflicts, ReadFootprint, Arbitrate, RequeueTask, exec
<1>3. pc'[e] \in {"check", "scan", "rule", "requeue", "next", "completed"}
  <2>1. stage[e] \in Nat
    BY OrchestratorAssumption
  <2> QED
    BY <1>1, <1>2, <2>1 DEF Finished
<1>4. CASE CheckForConflicts(e)
  <2>1. unread'[e] = StageRows(e) /\ pc'[e] = "scan"
    BY <1>3, <1>4 DEF CheckForConflicts, Goto
  <2>2. row[t] # "absent" /\ row[u] # "absent"
    BY DEF AllStaged, OnlyWorked, WritesKnown, HaveRows
  <2>3. t \in StageRows(e) /\ u \in StageRows(e)
    BY <1>1, <2>2 DEF StageRows
  <2> QED
    BY <1>1, <1>2, <2>1, <2>3 DEF Owes
<1>5. ASSUME NEW x \in Task, ReadFootprint(e, x)
      PROVE  Owes(e, t, u, p)'
  <2>1. pc[e] = "scan" /\ \A y \in {t, u} : y \in unread[e] \/ <<y, p>> \in seen[e]
    BY <1>5 DEF ReadFootprint, Owes
  <2>2. PICK found \in {seen[e] \cup ({x} \X bus[x]), seen[e]} :
          /\ x \notin missed' => found = seen[e] \cup ({x} \X bus[x])
          /\ \/ /\ unread[e] # {x}
                /\ unread' = [unread EXCEPT ![e] = @ \ {x}]
                /\ seen' = [seen EXCEPT ![e] = found]
                /\ pc' = pc
             \/ /\ unread[e] = {x}
                /\ seen' = [seen EXCEPT ![e] = found]
                /\ contested' = [contested EXCEPT ![e] = Contested(found)]
                /\ pc' = [pc EXCEPT ![e] = "rule"]
             \/ unread[e] = {x} /\ Contested(found) = {}
    BY <1>5 DEF ReadFootprint, Goto
  <2>3. ASSUME NEW y \in {t, u}
        PROVE  y \in unread[e] \ {x} \/ <<y, p>> \in found
    <3>1. CASE y = x
      BY <2>2, <3>1
    <3>2. CASE y # x
      BY <2>1, <2>2, <3>2
    <3> QED
      BY <3>1, <3>2
  <2>4. CASE unread[e] # {x}
    BY <1>1, <1>2, <2>1, <2>2, <2>3, <2>4 DEF Owes
  <2>5. CASE unread[e] = {x}
    <3>1. <<t, p>> \in found /\ <<u, p>> \in found
      BY <2>3, <2>5
    <3>2. p \in Contested(found)
      BY <3>1 DEF Contested
    <3> QED
      BY <1>1, <1>2, <2>2, <2>5, <3>1, <3>2 DEF Owes
  <2> QED
    BY <2>4, <2>5
<1>6. ASSUME NEW q \in Path, NEW w \in Task, Arbitrate(e, q, w)
      PROVE  Owes(e, t, u, p)'
  <2>1. p \in contested[e] /\ <<t, p>> \in seen[e] /\ <<u, p>> \in seen[e]
    BY <1>6 DEF Arbitrate, Owes
  <2>2. /\ seen' = seen /\ pc'[e] = "requeue"
        /\ contested'[e] = contested[e] \ {q}
        /\ losers'[e] = Candidates(e, q) \ {w}
    BY <1>6 DEF Arbitrate, Goto
  <2>3. CASE q = p
    <3>1. t \in losers'[e] \/ u \in losers'[e]
      BY <2>1, <2>2, <2>3 DEF Candidates
    <3> QED
      BY <1>1, <1>2, <2>2, <3>1 DEF Owes
  <2>4. CASE q # p
    BY <1>1, <1>2, <2>1, <2>2, <2>4 DEF Owes
  <2> QED
    BY <2>3, <2>4
<1>7. ASSUME NEW x \in Task, RequeueTask(e, x)
      PROVE  Settled(t, u)' \/ Owes(e, t, u, p)'
  <2>1. row' = [row EXCEPT ![x] = "pending"] /\ pc[e] = "requeue"
    BY <1>3, <1>7 DEF RequeueTask, Goto
  <2>2. CASE x \in {t, u}
    BY <2>1, <2>2 DEF Settled
  <2>3. CASE x \notin {t, u}
    <3>1. \/ p \in contested[e] /\ <<t, p>> \in seen[e] /\ <<u, p>> \in seen[e]
          \/ t \in losers[e] \/ u \in losers[e]
      BY <2>1 DEF Owes
    <3>2. ~(losers[e] = {x} /\ contested[e] = {})
      BY <2>3, <3>1
    <3>3. /\ losers'[e] = losers[e] \ {x}
          /\ pc'[e] = IF losers[e] = {x} THEN "rule" ELSE "requeue"
          /\ UNCHANGED <<seen, contested>>
      BY <1>3, <1>7, <3>2 DEF RequeueTask, Goto
    <3> QED
      BY <1>1, <1>2, <2>3, <3>1, <3>3 DEF Owes
  <2> QED
    BY <2>2, <2>3
<1> QED
  BY <1>1, <1>4, <1>5, <1>6, <1>7
     DEF Advance, Begin, EnterStage, Finish, Catch, CreateTask, StartTask, AgentWrite,
         ReportTask, RecordTask, CatchTask

\* Another execution's step leaves what a check owes alone.
LEMMA OwesKept ==
  ASSUME NEW e \in Execution, OthersStay(e), OthersJudge(e), NEW d \in Execution, d # e,
         NEW t, NEW u, NEW p, Owes(d, t, u, p)
  PROVE  Owes(d, t, u, p)'
  BY DEF Owes, OthersStay, OthersJudge

\* Judged is inductive.
LEMMA JudgedStep ==
  TypeOK /\ Placed /\ AllStaged /\ WritesKnown /\ Judged /\ [Next]_vars => Judged'
<1> SUFFICES ASSUME TypeOK, Placed, AllStaged, WritesKnown, Judged, [Next]_vars,
                    NEW t \in Task, NEW u \in Task, NEW p \in Path, Clash(t, u, p)'
             PROVE  Settled(t, u)' \/ Owes(t[1], t, u, p)' \/ Owes(u[1], t, u, p)'
  BY DEF Judged
<1> USE DEF TypeOK, TypeTables, TypeShared
<1>1. t[1] \in Execution /\ u[1] \in Execution
  BY DEF Task
<1>2. /\ t # u /\ t[2] = u[2] /\ ProjectOf[t[1]] = ProjectOf[u[1]]
      /\ Finished(t)' /\ Finished(u)'
      /\ p \in bus'[t] /\ p \in bus'[u] /\ t \notin missed' /\ u \notin missed'
  BY DEF Clash
<1>3. ASSUME NEW e \in Execution, Begin(e) \/ Advance(e)
      PROVE  Settled(t, u)' \/ Owes(t[1], t, u, p)' \/ Owes(u[1], t, u, p)'
  <2>1. CASE ~Finished(t) \/ ~Finished(u)
    BY <1>2, <1>3, <2>1, FinishedNewly DEF Owes
  <2>2. CASE Finished(t) /\ Finished(u)
    <3>1. p \in bus[t] /\ p \in bus[u] /\ (Settled(t, u) => Settled(t, u)')
      BY <1>2, <1>3, <2>2, FinishedStays DEF Settled
    <3>2. missed \subseteq missed'
      BY <1>3 DEF Advance, Begin, EnterStage, Finish, Catch, CreateTask, StartTask, AgentWrite,
         ReportTask, RecordTask, CatchTask, CheckForConflicts, ReadFootprint, Arbitrate,
         RequeueTask, judge
    <3>3. Settled(t, u) \/ Owes(t[1], t, u, p) \/ Owes(u[1], t, u, p)
      BY <1>2, <2>2, <3>1, <3>2 DEF Judged, Clash
    <3>4. ASSUME NEW d \in {t[1], u[1]}, Owes(d, t, u, p)
          PROVE  Settled(t, u)' \/ Owes(d, t, u, p)'
      <4>1. CASE d = e
        BY <1>2, <1>3, <3>1, <3>4, <4>1, OwesStep
      <4>2. CASE d # e
        BY <1>1, <1>3, <3>4, <4>2, StepsAreLocal, JudgingIsLocal, OwesKept
      <4> QED
        BY <4>1, <4>2
    <3> QED
      BY <3>1, <3>3, <3>4
  <2> QED
    BY <2>1, <2>2
<1>4. ASSUME UNCHANGED <<pc, stage, unread, seen, contested, losers, row>>,
             p \in bus[t], p \in bus[u], missed \subseteq missed'
      PROVE  Settled(t, u)' \/ Owes(t[1], t, u, p)' \/ Owes(u[1], t, u, p)'
  <2>1. Clash(t, u, p)
    BY <1>2, <1>4 DEF Clash, Finished
  <2>2. Settled(t, u) \/ Owes(t[1], t, u, p) \/ Owes(u[1], t, u, p)
    BY <2>1 DEF Judged
  <2> QED
    BY <1>4, <2>2 DEF Settled, Owes
<1>5. CASE \E x \in Task : Expire(x)
  BY <1>2, <1>4, <1>5 DEF Expire, exec
<1>6. CASE (\E q \in Project : CreateProject(q)) \/ UNCHANGED vars
  BY <1>2, <1>4, <1>6 DEF CreateProject, vars, exec, judge
<1>7. CASE Crash
  <2>1. /\ stage' = stage /\ bus' = bus /\ missed' = missed /\ row' = row
        /\ \A e \in Execution : pc'[e] = IF pc[e] \in Active THEN "crashed" ELSE pc[e]
    BY <1>7 DEF Crash
  <2>2. ASSUME NEW x \in {t, u}
        PROVE  Finished(x) /\ ~Owes(x[1], t, u, p)
    <3>1. x \in Task /\ Finished(x)' /\ x[2] = t[2] /\ x[1] \in Execution
      BY <1>1, <1>2
    <3>2. stage[x[1]] \in Nat /\ x[2] \in Nat
      BY <3>1, OrchestratorAssumption DEF Task, Stage, TypeControl
    <3>3. stage[x[1]] > x[2] \/ (stage[x[1]] = x[2] /\ pc[x[1]] = "completed")
      BY <2>1, <3>1, <3>2 DEF Finished, Active, Points, Over
    <3> QED
      BY <3>1, <3>2, <3>3 DEF Finished, Owes
  <2>3. Clash(t, u, p)
    BY <1>2, <2>1, <2>2 DEF Clash
  <2> QED
    BY <2>1, <2>2, <2>3 DEF Judged, Settled
<1> QED
  BY <1>3, <1>5, <1>6, <1>7 DEF Next

\* Of two tasks of a stage with the same path in their footprints one at most is
\* kept as soon as the executions of both have passed the stage, in whatever
\* order any number of executions wrote, checked, ruled and recorded.
\* (resolveStageConflicts)
THEOREM OneIsKept == Spec => []OneKeeperPerPath
<1>1. Init => Judged
  BY DEF Init, Judged, Clash
<1>2. TypeOK /\ Judged => OneKeeperPerPath
  <2> SUFFICES ASSUME TypeOK, Judged, NEW t \in Task, NEW u \in Task,
                      t # u, t[2] = u[2], ProjectOf[t[1]] = ProjectOf[u[1]],
                      Passed(t[1], t[2]), Passed(u[1], u[2]),
                      bus[t] \cap bus[u] # {}, {t, u} \cap missed = {}
               PROVE  row[t] = "pending" \/ row[u] = "pending"
    BY DEF OneKeeperPerPath
  <2>1. PICK p \in Path : p \in bus[t] /\ p \in bus[u]
    BY DEF TypeOK, TypeShared
  <2>2. Finished(t) /\ Finished(u)
    BY DEF Passed, Finished
  <2>3. ASSUME NEW x \in {t, u}
        PROVE  ~Owes(x[1], t, u, p)
    <3>1. x \in Task /\ Passed(x[1], x[2]) /\ x[2] = t[2]
      OBVIOUS
    <3>2. stage[x[1]] \in Nat /\ x[2] \in Nat
      BY <3>1, OrchestratorAssumption DEF Task, Stage, TypeOK, TypeControl
    <3> QED
      BY <3>1, <3>2 DEF Passed, Owes
  <2>4. Clash(t, u, p)
    BY <2>1, <2>2 DEF Clash
  <2> QED
    BY <2>3, <2>4 DEF Judged, Settled
<1> QED
  BY <1>1, <1>2, TypeCorrect, StagedAlways, WritesKnownAlways, JudgedStep, PTL DEF Spec
=============================================================================
