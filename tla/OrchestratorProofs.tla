------------------------- MODULE OrchestratorProofs -------------------------
(***************************************************************************)
(* Theorems about Orchestrator.tla, for any number of executions, projects,*)
(* stages, agents, paths, faults and crashes.                              *)
(***************************************************************************)
EXTENDS Orchestrator, TLAPS

Working == {"create", "start", "agent", "record", "catchTask"}
Judging == {"check", "scan", "rule", "requeue"}

\* The loop counters point at a stage of the list and an agent of its crew
\* wherever they are used.
Placed ==
  \A e \in Execution :
    /\ pc[e] \in Working \cup Judging => stage[e] \in Stage
    /\ pc[e] \in Working => agent[e] \in 1..AgentsOf[stage[e]]
    /\ pc[e] = "idle" => stage[e] = 0

\* Every variable keeps its type: the workflow's bookkeeping stays within the
\* states and indices the code can produce.
THEOREM TypeCorrect == Spec => [](TypeOK /\ Placed)
<1> USE OrchestratorAssumption DEF Stage, Agent
<1>1. Init => TypeOK /\ Placed
  BY DEF Init, TypeOK, TypeTables, TypeShared, TypeControl, TypeRun, TypeJudge,
         TypeBounds, Placed, Points, Over, Rows, Working, Judging
<1>2. TypeOK /\ Placed /\ [Next]_vars => TypeOK' /\ Placed'
  <2> SUFFICES ASSUME TypeOK, Placed, [Next]_vars PROVE TypeOK' /\ Placed'
    OBVIOUS
  <2>1. ASSUME NEW p \in Project, CreateProject(p) PROVE TypeOK' /\ Placed'
    <3>1. TypeTables'
      BY <2>1 DEF TypeOK, TypeTables, CreateProject, Rows
    <3>2. Placed'
      BY <2>1 DEF Placed, Working, Judging, TypeOK, TypeControl, CreateProject, Goto, exec, Points, Over, Active
    <3> QED
      BY <2>1, <3>1, <3>2 DEF CreateProject, TypeOK, exec, run, judge, TypeShared, TypeControl, TypeRun, TypeJudge, TypeBounds
  <2>2. ASSUME NEW e \in Execution, Begin(e) PROVE TypeOK' /\ Placed'
    <3>1. TypeTables'
      BY <2>2 DEF TypeOK, TypeTables, Begin, Rows
    <3>2. TypeControl'
      BY <2>2 DEF TypeOK, TypeControl, Begin, Goto, Points, Over, Active
    <3>3. TypeBounds'
      BY <2>2 DEF TypeOK, TypeBounds, Begin, Fault, NoFault
    <3>4. Placed'
      BY <2>2 DEF Placed, Working, Judging, TypeOK, TypeControl, Begin, Goto, exec, Points, Over, Active
    <3> QED
      BY <2>2, <3>1, <3>2, <3>3, <3>4 DEF Begin, TypeOK, exec, run, judge, TypeShared, TypeRun, TypeJudge
  <2>3. ASSUME NEW e \in Execution, EnterStage(e) PROVE TypeOK' /\ Placed'
    <3>1. TypeControl'
      <4>1. pc' \in [Execution -> Points]
        BY <2>3 DEF TypeOK, TypeControl, EnterStage, Goto, Points, Over
      <4>2. stage' \in [Execution -> 0..NumStages]
        <5>1. stage \in [Execution -> 0..NumStages] /\ NumStages \in Nat
          BY DEF TypeOK, TypeControl
        <5>2. \/ stage' = stage
              \/ stage' = [stage EXCEPT ![e] = @ + 1] /\ stage[e] < NumStages
          BY <2>3 DEF EnterStage
        <5>3. CASE stage' = stage
          BY <5>1, <5>3
        <5>4. CASE stage' = [stage EXCEPT ![e] = @ + 1] /\ stage[e] < NumStages
          <6>1. stage[e] + 1 \in 0..NumStages
            BY <5>1, <5>4
          <6> QED
            BY <5>1, <5>4, <6>1
        <5> QED
          BY <5>2, <5>3, <5>4
      <4>3. agent' \in [Execution -> Agent]
        <5>1. agent \in [Execution -> Agent] /\ 1 \in Agent
          BY DEF TypeOK, TypeControl
        <5>2. agent' = agent \/ agent' = [agent EXCEPT ![e] = 1]
          BY <2>3 DEF EnterStage
        <5> QED
          BY <5>1, <5>2
      <4> QED
        BY <4>1, <4>2, <4>3 DEF TypeControl
    <3>2. TypeBounds'
      BY <2>3 DEF TypeOK, TypeBounds, EnterStage, Fault, NoFault
    <3>3. Placed'
      BY <2>3 DEF Placed, Working, Judging, TypeOK, TypeControl, EnterStage, Goto, exec, Points, Over, Active
    <3> QED
      BY <2>3, <3>1, <3>2, <3>3 DEF EnterStage, TypeOK, exec, run, judge, TypeTables, TypeShared, TypeRun, TypeJudge
  <2>4. ASSUME NEW e \in Execution, Finish(e) PROVE TypeOK' /\ Placed'
    <3>1. TypeTables'
      BY <2>4 DEF TypeOK, TypeTables, Finish, Rows
    <3>2. TypeControl'
      BY <2>4 DEF TypeOK, TypeControl, Finish, Goto, Points, Over, Active
    <3>3. TypeBounds'
      BY <2>4 DEF TypeOK, TypeBounds, Finish, Fault, NoFault
    <3>4. Placed'
      BY <2>4 DEF Placed, Working, Judging, TypeOK, TypeControl, Finish, Goto, exec, Points, Over, Active
    <3> QED
      BY <2>4, <3>1, <3>2, <3>3, <3>4 DEF Finish, TypeOK, exec, run, judge, TypeShared, TypeRun, TypeJudge
  <2>5. ASSUME NEW e \in Execution, Catch(e) PROVE TypeOK' /\ Placed'
    <3>1. TypeTables'
      BY <2>5 DEF TypeOK, TypeTables, Catch, Rows
    <3>2. TypeControl'
      BY <2>5 DEF TypeOK, TypeControl, Catch, Goto, Points, Over, Active
    <3>3. TypeBounds'
      BY <2>5 DEF TypeOK, TypeBounds, Catch, Fault, NoFault
    <3>4. Placed'
      BY <2>5 DEF Placed, Working, Judging, TypeOK, TypeControl, Catch, Goto, exec, Points, Over, Active
    <3> QED
      BY <2>5, <3>1, <3>2, <3>3, <3>4 DEF Catch, TypeOK, exec, run, judge, TypeShared, TypeRun, TypeJudge
  <2>6. ASSUME NEW e \in Execution, CreateTask(e) PROVE TypeOK' /\ Placed'
    <3>1. TypeTables'
      BY <2>6 DEF TypeOK, TypeTables, CreateTask, Rows
    <3>2. TypeShared'
      BY <2>6 DEF TypeOK, TypeShared, CreateTask, judge
    <3>3. TypeControl'
      <4>1. pc' \in [Execution -> Points]
        BY <2>6 DEF TypeOK, TypeControl, CreateTask, Goto, Points, Over, exec
      <4>2. stage' \in [Execution -> 0..NumStages]
        BY <2>6 DEF TypeOK, TypeControl, CreateTask, exec
      <4>3. agent' \in [Execution -> Agent]
        <5>1. AgentsOf[stage[e]] \in 1..MaxAgents /\ agent[e] \in 1..AgentsOf[stage[e]]
          BY <2>6 DEF TypeOK, TypeControl, Placed, Working, CreateTask
        <5>2. agent \in [Execution -> Agent] /\ 1 \in Agent
          BY DEF TypeOK, TypeControl
        <5>3. \/ agent' = agent
              \/ agent' = [agent EXCEPT ![e] = 1]
              \/ agent' = [agent EXCEPT ![e] = @ + 1] /\ agent[e] < AgentsOf[stage[e]]
          BY <2>6 DEF CreateTask
        <5>4. CASE agent' = [agent EXCEPT ![e] = @ + 1] /\ agent[e] < AgentsOf[stage[e]]
          <6>1. agent[e] + 1 \in Agent
            BY <5>1, <5>4
          <6> QED
            BY <5>2, <5>4, <6>1
        <5> QED
          BY <5>2, <5>3, <5>4
      <4> QED
        BY <4>1, <4>2, <4>3 DEF TypeControl
    <3>4. TypeBounds'
      BY <2>6 DEF TypeOK, TypeBounds, CreateTask, Fault, NoFault
    <3>5. Placed'
      <4>1. pc[e] = "create" /\ stage[e] \in Stage /\ agent[e] \in 1..AgentsOf[stage[e]]
        BY <2>6 DEF Placed, Working, CreateTask
      <4>2. AgentsOf[stage[e]] \in Agent
        BY <4>1
      <4>3. stage' = stage
        BY <2>6 DEF CreateTask
      <4>4. \/ pc' = pc /\ agent[e] < AgentsOf[stage[e]] /\ agent' = [agent EXCEPT ![e] = @ + 1]
            \/ pc' = [pc EXCEPT ![e] = "start"] /\ agent' = [agent EXCEPT ![e] = 1]
            \/ pc' = [pc EXCEPT ![e] = "catch"] /\ agent' = agent
        BY <2>6 DEF CreateTask, Goto
      <4>5. \A d \in Execution \ {e} : pc'[d] = pc[d] /\ agent'[d] = agent[d]
        BY <4>4 DEF TypeOK, TypeControl
      <4>6. /\ pc'[e] \in {"create", "start", "catch"}
            /\ pc'[e] # "catch" => agent'[e] \in 1..AgentsOf[stage[e]]
        BY <4>1, <4>2, <4>4 DEF TypeOK, TypeControl
      <4> QED
        BY <4>1, <4>3, <4>5, <4>6 DEF Placed, Working, Judging
    <3> QED
      BY <2>6, <3>1, <3>2, <3>3, <3>4, <3>5 DEF CreateTask, TypeOK, exec, run, judge, TypeRun, TypeJudge
  <2>7. ASSUME NEW e \in Execution, StartTask(e) PROVE TypeOK' /\ Placed'
    <3>1. TypeTables'
      BY <2>7 DEF TypeOK, TypeTables, StartTask, Rows
    <3>2. TypeControl'
      BY <2>7 DEF TypeOK, TypeControl, StartTask, Goto, Points, Over, Active
    <3>3. TypeBounds'
      BY <2>7 DEF TypeOK, TypeBounds, StartTask, Fault, NoFault
    <3>4. Placed'
      BY <2>7 DEF Placed, Working, Judging, TypeOK, TypeControl, StartTask, Goto, exec, Points, Over, Active
    <3> QED
      BY <2>7, <3>1, <3>2, <3>3, <3>4 DEF StartTask, TypeOK, exec, run, judge, TypeShared, TypeRun, TypeJudge
  <2>8. ASSUME NEW e \in Execution, NEW p \in Path, AgentWrite(e, p) PROVE TypeOK' /\ Placed'
    <3>1. TypeShared'
      <4>1. Current(e) \in Task
        BY <2>8 DEF TypeOK, TypeControl, Placed, Working, AgentWrite, Current, Task
      <4>2. wrote'[e] \in SUBSET Path
        BY <2>8 DEF TypeOK, TypeRun, AgentWrite
      <4> QED
        BY <2>8, <4>1, <4>2 DEF TypeOK, TypeShared, AgentWrite, judge
    <3>2. TypeRun'
      BY <2>8 DEF TypeOK, TypeRun, AgentWrite
    <3>3. TypeBounds'
      BY <2>8 DEF TypeOK, TypeBounds, AgentWrite, Fault, NoFault
    <3>4. Placed'
      BY <2>8 DEF Placed, Working, Judging, TypeOK, TypeControl, AgentWrite, Goto, exec, Points, Over, Active
    <3> QED
      BY <2>8, <3>1, <3>2, <3>3, <3>4 DEF AgentWrite, TypeOK, exec, run, judge, TypeTables, TypeControl, TypeJudge
  <2>9. ASSUME NEW e \in Execution, ReportTask(e) PROVE TypeOK' /\ Placed'
    <3>1. TypeShared'
      BY <2>9 DEF TypeOK, TypeShared, TypeRun, ReportTask, judge
    <3>2. TypeControl'
      BY <2>9 DEF TypeOK, TypeControl, ReportTask, Goto, Points, Over, Active
    <3>3. TypeRun'
      BY <2>9 DEF TypeOK, TypeRun, ReportTask, EndRun
    <3>4. TypeBounds'
      BY <2>9 DEF TypeOK, TypeBounds, ReportTask, Fault, NoFault
    <3>5. Placed'
      BY <2>9 DEF Placed, Working, Judging, TypeOK, TypeControl, ReportTask, Goto, exec, Points, Over, Active
    <3> QED
      BY <2>9, <3>1, <3>2, <3>3, <3>4, <3>5 DEF ReportTask, TypeOK, exec, run, judge, TypeTables, TypeJudge
  <2>10. ASSUME NEW e \in Execution, RecordTask(e) PROVE TypeOK' /\ Placed'
    <3>1. TypeTables'
      BY <2>10 DEF TypeOK, TypeTables, RecordTask, Rows
    <3>2. TypeControl'
      <4>1. pc' \in [Execution -> Points]
        BY <2>10 DEF TypeOK, TypeControl, RecordTask, Goto, Points, Over, exec
      <4>2. stage' \in [Execution -> 0..NumStages]
        BY <2>10 DEF TypeOK, TypeControl, RecordTask, exec
      <4>3. agent' \in [Execution -> Agent]
        <5>1. AgentsOf[stage[e]] \in 1..MaxAgents /\ agent[e] \in 1..AgentsOf[stage[e]]
          BY <2>10 DEF TypeOK, TypeControl, Placed, Working, RecordTask
        <5>2. agent \in [Execution -> Agent]
          BY DEF TypeOK, TypeControl
        <5>3. \/ agent' = agent
              \/ agent' = [agent EXCEPT ![e] = @ + 1] /\ agent[e] < AgentsOf[stage[e]]
          BY <2>10 DEF RecordTask
        <5>4. CASE agent' = [agent EXCEPT ![e] = @ + 1] /\ agent[e] < AgentsOf[stage[e]]
          <6>1. agent[e] + 1 \in Agent
            BY <5>1, <5>4
          <6> QED
            BY <5>2, <5>4, <6>1
        <5> QED
          BY <5>2, <5>3, <5>4
      <4> QED
        BY <4>1, <4>2, <4>3 DEF TypeControl
    <3>3. TypeBounds'
      BY <2>10 DEF TypeOK, TypeBounds, RecordTask, Fault, NoFault
    <3>4. Placed'
      BY <2>10 DEF Placed, Working, Judging, TypeOK, TypeControl, RecordTask, Goto, exec, Points, Over, Active
    <3> QED
      BY <2>10, <3>1, <3>2, <3>3, <3>4 DEF RecordTask, TypeOK, exec, run, judge, TypeShared, TypeRun, TypeJudge
  <2>11. ASSUME NEW e \in Execution, CatchTask(e) PROVE TypeOK' /\ Placed'
    <3>1. TypeTables'
      BY <2>11 DEF TypeOK, TypeTables, CatchTask, Rows
    <3>2. TypeControl'
      BY <2>11 DEF TypeOK, TypeControl, CatchTask, Goto, Points, Over, Active
    <3>3. TypeBounds'
      BY <2>11 DEF TypeOK, TypeBounds, CatchTask, Fault, NoFault
    <3>4. Placed'
      BY <2>11 DEF Placed, Working, Judging, TypeOK, TypeControl, CatchTask, Goto, exec, Points, Over, Active
    <3> QED
      BY <2>11, <3>1, <3>2, <3>3, <3>4 DEF CatchTask, TypeOK, exec, run, judge, TypeShared, TypeRun, TypeJudge
  <2>12. ASSUME NEW e \in Execution, CheckForConflicts(e) PROVE TypeOK' /\ Placed'
    <3>1. TypeControl'
      BY <2>12 DEF TypeOK, TypeControl, CheckForConflicts, Goto, Points, Over, Active
    <3>2. TypeJudge'
      BY <2>12 DEF TypeOK, TypeJudge, CheckForConflicts, StageRows
    <3>3. TypeBounds'
      BY <2>12 DEF TypeOK, TypeBounds, CheckForConflicts, Fault, NoFault
    <3>4. Placed'
      BY <2>12 DEF Placed, Working, Judging, TypeOK, TypeControl, CheckForConflicts, Goto, exec, Points, Over, Active
    <3> QED
      BY <2>12, <3>1, <3>2, <3>3, <3>4 DEF CheckForConflicts, TypeOK, exec, run, judge, TypeTables, TypeShared, TypeRun
  <2>13. ASSUME NEW e \in Execution, NEW t \in Task, ReadFootprint(e, t) PROVE TypeOK' /\ Placed'
    <3>1. TypeShared'
      BY <2>13 DEF TypeOK, TypeShared, ReadFootprint
    <3>2. TypeControl'
      BY <2>13 DEF TypeOK, TypeControl, ReadFootprint, Goto, Points, Over, Active
    <3>3. TypeJudge'
      <4>1. {t} \X bus[t] \in SUBSET (Task \X Path)
        BY DEF TypeOK, TypeShared
      <4>2. \A found : Contested(found) \in SUBSET Path
        BY DEF Contested
      <4>3. PICK found \in {seen[e] \cup ({t} \X bus[t]), seen[e]} :
              /\ \/ unread' = [unread EXCEPT ![e] = @ \ {t}]
                 \/ unread' = [unread EXCEPT ![e] = {}]
              /\ \/ seen' = [seen EXCEPT ![e] = found]
                 \/ seen' = [seen EXCEPT ![e] = {}]
              /\ \/ contested' = contested
                 \/ contested' = [contested EXCEPT ![e] = Contested(found)]
                 \/ contested' = [contested EXCEPT ![e] = {}]
              /\ losers' = losers \/ losers' = [losers EXCEPT ![e] = {}]
              /\ ruling' = ruling \/ ruling' = [ruling EXCEPT ![e] = None]
        BY <2>13 DEF ReadFootprint, EndCheck
      <4>4. found \in SUBSET (Task \X Path)
        BY <4>1 DEF TypeOK, TypeJudge
      <4>5. unread' \in [Execution -> SUBSET Task]
        BY <4>3 DEF TypeOK, TypeJudge
      <4>6. seen' \in [Execution -> SUBSET (Task \X Path)]
        BY <4>3, <4>4 DEF TypeOK, TypeJudge
      <4>7. contested' \in [Execution -> SUBSET Path]
        BY <4>2, <4>3 DEF TypeOK, TypeJudge
      <4>8. losers' \in [Execution -> SUBSET Task]
        BY <4>3 DEF TypeOK, TypeJudge
      <4>9. ruling' \in [Execution -> (Path \X Task) \cup {None}]
        BY <4>3 DEF TypeOK, TypeJudge
      <4> QED
        BY <4>5, <4>6, <4>7, <4>8, <4>9 DEF TypeJudge
    <3>4. TypeBounds'
      BY <2>13 DEF TypeOK, TypeBounds, ReadFootprint, Fault, NoFault
    <3>5. Placed'
      BY <2>13 DEF Placed, Working, Judging, TypeOK, TypeControl, ReadFootprint, Goto, exec, Points, Over, Active
    <3> QED
      BY <2>13, <3>1, <3>2, <3>3, <3>4, <3>5 DEF ReadFootprint, TypeOK, exec, run, judge, TypeTables, TypeRun
  <2>14. ASSUME NEW e \in Execution, NEW p \in Path, NEW w \in Task, Arbitrate(e, p, w) PROVE TypeOK' /\ Placed'
    <3>1. TypeControl'
      BY <2>14 DEF TypeOK, TypeControl, Arbitrate, Goto, Points, Over, Active
    <3>2. TypeJudge'
      BY <2>14 DEF TypeOK, TypeJudge, Arbitrate, Candidates
    <3>3. Placed'
      BY <2>14 DEF Placed, Working, Judging, TypeOK, TypeControl, Arbitrate, Goto, exec, Points, Over, Active
    <3> QED
      BY <2>14, <3>1, <3>2, <3>3 DEF Arbitrate, TypeOK, exec, run, judge, TypeTables, TypeShared, TypeRun, TypeBounds
  <2>15. ASSUME NEW e \in Execution, NEW t \in Task, RequeueTask(e, t) PROVE TypeOK' /\ Placed'
    <3>1. TypeTables'
      BY <2>15 DEF TypeOK, TypeTables, RequeueTask, Rows, TypeJudge, judge
    <3>2. TypeControl'
      BY <2>15 DEF TypeOK, TypeControl, RequeueTask, Goto, Points, Over, Active
    <3>3. TypeJudge'
      BY <2>15 DEF TypeOK, TypeJudge, RequeueTask, EndCheck
    <3>4. TypeBounds'
      BY <2>15 DEF TypeOK, TypeBounds, RequeueTask, Fault, NoFault
    <3>5. Placed'
      BY <2>15 DEF Placed, Working, Judging, TypeOK, TypeControl, RequeueTask, Goto, exec, Points, Over, Active
    <3> QED
      BY <2>15, <3>1, <3>2, <3>3, <3>4, <3>5 DEF RequeueTask, TypeOK, exec, run, judge, TypeShared, TypeRun
  <2>16. ASSUME NEW t \in Task, Expire(t) PROVE TypeOK' /\ Placed'
    <3>1. TypeShared'
      BY <2>16 DEF TypeOK, TypeShared, Expire
    <3>2. TypeBounds'
      BY <2>16 DEF TypeOK, TypeBounds, Expire, Fault, NoFault
    <3>3. Placed'
      BY <2>16 DEF Placed, Working, Judging, TypeOK, TypeControl, Expire, Goto, exec, Points, Over, Active
    <3> QED
      BY <2>16, <3>1, <3>2, <3>3 DEF Expire, TypeOK, exec, run, judge, TypeTables, TypeControl, TypeRun, TypeJudge
  <2>17. ASSUME Crash PROVE TypeOK' /\ Placed'
    <3>1. TypeControl'
      BY <2>17 DEF TypeOK, TypeControl, Crash, Goto, Points, Over, Active
    <3>2. TypeRun'
      BY <2>17 DEF TypeOK, TypeRun, Crash
    <3>3. TypeJudge'
      BY <2>17 DEF TypeOK, TypeJudge, Crash
    <3>4. TypeBounds'
      BY <2>17 DEF TypeOK, TypeBounds, Crash, Fault, NoFault
    <3>5. Placed'
      BY <2>17 DEF Placed, Working, Judging, TypeOK, TypeControl, Crash, Goto, exec, Points, Over, Active
    <3> QED
      BY <2>17, <3>1, <3>2, <3>3, <3>4, <3>5 DEF Crash, TypeOK, exec, run, judge, TypeTables, TypeShared
  <2>18. CASE UNCHANGED vars
    BY <2>18 DEF vars, exec, run, judge, TypeOK, TypeTables, TypeShared, TypeControl,
                 TypeRun, TypeJudge, TypeBounds, Placed
  <2> QED
    BY <2>1, <2>2, <2>3, <2>4, <2>5, <2>6, <2>7, <2>8, <2>9, <2>10, <2>11,
       <2>12, <2>13, <2>14, <2>15, <2>16, <2>17, <2>18 DEF Next, Advance
<1> QED
  BY <1>1, <1>2, PTL DEF Spec

\* An execution's own steps leave the control of the others alone.
OthersStay(e) ==
  \A d \in Execution \ {e} :
    pc'[d] = pc[d] /\ stage'[d] = stage[d] /\ agent'[d] = agent[d]

\* Begin and Advance leave the other executions where they are, and count a fault
\* at most.
LEMMA StepsAreLocal ==
  ASSUME TypeOK, NEW e \in Execution, Begin(e) \/ Advance(e)
  PROVE  OthersStay(e) /\ faults' \in {faults, faults + 1}
<1> USE DEF OthersStay, TypeOK, TypeControl, Goto, Fault, NoFault, exec
<1>1. CASE Begin(e)
  BY <1>1 DEF Begin
<1>2. CASE EnterStage(e)
  BY <1>2 DEF EnterStage
<1>3. CASE Finish(e)
  BY <1>3 DEF Finish
<1>4. CASE Catch(e)
  BY <1>4 DEF Catch
<1>5. CASE CreateTask(e)
  BY <1>5 DEF CreateTask
<1>6. CASE StartTask(e)
  BY <1>6 DEF StartTask
<1>7. CASE \E p \in Path : AgentWrite(e, p)
  BY <1>7 DEF AgentWrite
<1>8. CASE ReportTask(e)
  BY <1>8 DEF ReportTask
<1>9. CASE RecordTask(e)
  BY <1>9 DEF RecordTask
<1>10. CASE CatchTask(e)
  BY <1>10 DEF CatchTask
<1>11. CASE CheckForConflicts(e)
  BY <1>11 DEF CheckForConflicts
<1>12. CASE \E t \in Task : ReadFootprint(e, t)
  BY <1>12 DEF ReadFootprint
<1>13. CASE \E p \in Path, w \in Task : Arbitrate(e, p, w)
  BY <1>13 DEF Arbitrate
<1>14. CASE \E t \in Task : RequeueTask(e, t)
  BY <1>14 DEF RequeueTask
<1> QED
  BY <1>1, <1>2, <1>3, <1>4, <1>5, <1>6, <1>7, <1>8, <1>9, <1>10, <1>11, <1>12,
     <1>13, <1>14 DEF Advance

\* An execution at catchTask has met a fault.
FaultsCounted == \A e \in Execution : pc[e] = "catchTask" => faults >= 1

\* RunningHasRunner is inductive once the faults met on the way are counted.
LEMMA RunnerStep ==
  TypeOK /\ Placed /\ RunningHasRunner /\ FaultsCounted /\ [Next]_vars
    => RunningHasRunner' /\ FaultsCounted'
<1> SUFFICES ASSUME TypeOK, Placed, RunningHasRunner, FaultsCounted, [Next]_vars
             PROVE  RunningHasRunner' /\ FaultsCounted'
  OBVIOUS
<1> USE DEF TypeOK, TypeTables, TypeControl, TypeBounds
<1>1. ASSUME NEW e \in Execution, Begin(e) \/ Advance(e)
      PROVE  RunningHasRunner' /\ FaultsCounted'
  <2> DEFINE Mine == {t \in Task : t[1] = e}
             Kept == \A t \in Task : row'[t] = "running" => row[t] = "running"
  <2>1. OthersStay(e) /\ faults' \in {faults, faults + 1}
    BY <1>1, StepsAreLocal
  \* Steps that start nothing, where the execution has nothing running before.
  <2>2. ASSUME Kept, pc[e] \in {"idle", "next", "create", "start", "check", "scan", "rule", "requeue"},
               pc'[e] # "catchTask"
        PROVE  RunningHasRunner' /\ FaultsCounted'
    <3>1. \A t \in Mine : row[t] # "running"
      BY <2>2 DEF RunningHasRunner
    <3>2. FaultsCounted'
      BY <2>1, <2>2 DEF OthersStay, FaultsCounted
    <3>3. ASSUME NEW t \in Task, row'[t] = "running"
          PROVE  RunningHasRunner!(t)'
      BY <2>1, <2>2, <3>1, <3>3 DEF OthersStay, RunningHasRunner, Current, Task
    <3> QED
      BY <3>2, <3>3 DEF RunningHasRunner
  \* Steps at a point where it may have one running, the one it is at.
  <2>3. ASSUME Kept, stage' = stage, agent' = agent,
               \/ /\ pc'[e] \in {"agent", "record", "catchTask"}
                  /\ pc[e] \in {"agent", "record"}
                  /\ pc'[e] = "catchTask" => faults' = faults + 1
               \/ pc[e] = "catch" /\ pc'[e] \in {"failed", "unrecorded"}
        PROVE  RunningHasRunner' /\ FaultsCounted'
    <3>1. FaultsCounted'
      BY <2>1, <2>3 DEF OthersStay, FaultsCounted
    <3>2. ASSUME NEW t \in Task, row'[t] = "running"
          PROVE  RunningHasRunner!(t)'
      BY <2>1, <2>3, <3>2 DEF OthersStay, RunningHasRunner, Current, Task
    <3> QED
      BY <3>1, <3>2 DEF RunningHasRunner
  \* Steps that take the row of the agent the execution is at out of 'running'.
  <2>4. ASSUME pc[e] \in {"record", "catchTask"}, pc'[e] # "catchTask",
                NEW outcome \in {"completed", "failed"},
                row' = [row EXCEPT ![Current(e)] = outcome]
         PROVE  RunningHasRunner' /\ FaultsCounted'
    <3>1. \A t \in Mine : row'[t] # "running"
      BY <2>4 DEF RunningHasRunner
    <3>2. FaultsCounted'
      BY <2>1, <2>4 DEF OthersStay, FaultsCounted
    <3>3. ASSUME NEW t \in Task, row'[t] = "running"
          PROVE  RunningHasRunner!(t)'
      <4>1. row[t] = "running" /\ t[1] # e
        BY <2>4, <3>1, <3>3
      <4> QED
        BY <2>1, <4>1 DEF OthersStay, RunningHasRunner, Current, Task
    <3> QED
      BY <3>2, <3>3 DEF RunningHasRunner
  <2>5. CASE Begin(e)
    <3>1. Kept /\ pc[e] = "idle" /\ pc'[e] # "catchTask"
      BY <2>5 DEF Begin, Goto
    <3> QED
      BY <2>2, <3>1
  <2>6. CASE EnterStage(e)
    <3>1. Kept /\ pc[e] = "next" /\ pc'[e] # "catchTask"
      BY <2>6 DEF EnterStage, Goto
    <3> QED
      BY <2>2, <3>1
  <2>7. CASE Finish(e)
    <3>1. Kept /\ pc[e] = "next" /\ pc'[e] # "catchTask"
      BY <2>7 DEF Finish, Goto
    <3> QED
      BY <2>2, <3>1
  <2>8. CASE Catch(e)
    <3>1. Kept /\ pc[e] = "catch" /\ pc'[e] \in {"failed", "unrecorded"}
      BY <2>8 DEF Catch, Goto
    <3>2. stage' = stage /\ agent' = agent
      BY <2>8 DEF Catch
    <3> QED
      BY <2>3, <3>1, <3>2
  <2>9. CASE CreateTask(e)
    <3>1. Kept /\ pc[e] = "create" /\ pc'[e] # "catchTask"
      BY <2>9 DEF CreateTask, Goto
    <3> QED
      BY <2>2, <3>1
  <2>10. CASE StartTask(e)
    <3>1. pc[e] = "start" /\ stage' = stage /\ agent' = agent
      BY <2>10 DEF StartTask
    <3>2. CASE pc'[e] = "catch"
      <4>1. Kept
        BY <2>10, <3>2 DEF StartTask, Goto
      <4> QED
        BY <2>2, <3>1, <3>2, <4>1
    <3>3. CASE pc'[e] # "catch"
      <4>1. /\ row' = [row EXCEPT ![Current(e)] = "running"]
            /\ \/ pc'[e] = "agent"
               \/ pc'[e] = "catchTask" /\ faults' = faults + 1
        BY <2>10, <3>3 DEF StartTask, Goto, Fault
      <4>2. FaultsCounted'
        BY <2>1, <4>1 DEF OthersStay, FaultsCounted
      <4>3. Current(e)' = Current(e)
        BY <3>1 DEF Current
      <4>4. ASSUME NEW t \in Task, row'[t] = "running"
            PROVE  RunningHasRunner!(t)'
        <5>1. CASE t = Current(e)
          <6>1. t[1] = e
            BY <5>1 DEF Current
          <6> QED
            BY <4>1, <4>3, <5>1, <6>1
        <5>2. CASE t # Current(e)
          <6>1. row[t] = "running"
            BY <4>1, <4>4, <5>2
          <6>2. t[1] # e
            BY <3>1, <6>1 DEF RunningHasRunner
          <6> QED
            BY <2>1, <6>1, <6>2 DEF OthersStay, RunningHasRunner, Current, Task
        <5> QED
          BY <5>1, <5>2
      <4> QED
        BY <4>2, <4>4 DEF RunningHasRunner
    <3> QED
      BY <3>2, <3>3
  <2>11. CASE \E p \in Path : AgentWrite(e, p)
    <3>1. Kept /\ pc[e] = "agent" /\ pc'[e] = "agent" /\ stage' = stage /\ agent' = agent
      BY <2>11 DEF AgentWrite, exec
    <3> QED
      BY <2>3, <3>1
  <2>12. CASE ReportTask(e)
    <3>1. /\ Kept /\ pc[e] = "agent" /\ stage' = stage /\ agent' = agent
          /\ \/ pc'[e] = "record"
             \/ pc'[e] = "catchTask" /\ faults' = faults + 1
      BY <2>12 DEF ReportTask, Goto, Fault
    <3> QED
      BY <2>3, <3>1
  <2>13. CASE RecordTask(e)
    <3>1. pc[e] = "record"
      BY <2>13 DEF RecordTask
    <3>2. CASE pc'[e] = "catchTask"
      <4>1. Kept /\ stage' = stage /\ agent' = agent /\ faults' = faults + 1
        BY <2>13, <3>2 DEF RecordTask, Goto, Fault
      <4> QED
        BY <2>3, <3>1, <3>2, <4>1
    <3>3. CASE pc'[e] # "catchTask"
      <4>1. PICK outcome \in {"completed", "failed"} :
              row' = [row EXCEPT ![Current(e)] = outcome]
        BY <2>13, <3>3 DEF RecordTask, Goto
      <4> QED
        BY <2>4, <3>1, <3>3, <4>1
    <3> QED
      BY <3>2, <3>3
  <2>14. CASE CatchTask(e)
    <3>1. pc[e] = "catchTask" /\ pc'[e] = "catch" /\ stage' = stage /\ agent' = agent
      BY <2>14 DEF CatchTask, Goto
    <3>2. CASE row' = row
      <4>1. CASE faults' = faults + 1
        <5>1. FaultsCounted' /\ faults' >= 2
          BY <2>1, <3>1, <4>1 DEF OthersStay, FaultsCounted
        <5>2. ASSUME NEW t \in Task, row'[t] = "running"
              PROVE  RunningHasRunner!(t)'
          BY <2>1, <3>1, <3>2, <5>1, <5>2 DEF OthersStay, RunningHasRunner, Current, Task
        <5> QED
          BY <5>1, <5>2 DEF RunningHasRunner
      <4>2. CASE row' = [row EXCEPT ![Current(e)] = "failed"]
        BY <2>4, <3>1, <4>2
      <4> QED
        BY <2>14, <4>1, <4>2 DEF CatchTask, Fault
    <3>3. CASE row' # row
      <4>1. row' = [row EXCEPT ![Current(e)] = "failed"]
        BY <2>14, <3>3 DEF CatchTask
      <4> QED
        BY <2>4, <3>1, <4>1
    <3> QED
      BY <3>2, <3>3
  <2>15. CASE CheckForConflicts(e)
    <3>1. Kept /\ pc[e] = "check" /\ pc'[e] # "catchTask"
      BY <2>15 DEF CheckForConflicts, Goto
    <3> QED
      BY <2>2, <3>1
  <2>16. CASE \E t \in Task : ReadFootprint(e, t)
    <3>1. Kept /\ pc[e] = "scan" /\ pc'[e] # "catchTask"
      BY <2>16 DEF ReadFootprint, Goto
    <3> QED
      BY <2>2, <3>1
  <2>17. CASE \E p \in Path, w \in Task : Arbitrate(e, p, w)
    <3>1. Kept /\ pc[e] = "rule" /\ pc'[e] # "catchTask"
      BY <2>17 DEF Arbitrate, Goto
    <3> QED
      BY <2>2, <3>1
  <2>18. CASE \E t \in Task : RequeueTask(e, t)
    <3>1. Kept /\ pc[e] = "requeue" /\ pc'[e] # "catchTask"
      BY <2>18 DEF RequeueTask, Goto
    <3> QED
      BY <2>2, <3>1
  <2> QED
    BY <1>1, <2>5, <2>6, <2>7, <2>8, <2>9, <2>10, <2>11, <2>12, <2>13, <2>14,
       <2>15, <2>16, <2>17, <2>18 DEF Advance
<1>2. ASSUME NEW p \in Project, CreateProject(p)
      PROVE  RunningHasRunner' /\ FaultsCounted'
  BY <1>2 DEF CreateProject, exec, RunningHasRunner, FaultsCounted, Current
<1>3. ASSUME NEW t \in Task, Expire(t)
      PROVE  RunningHasRunner' /\ FaultsCounted'
  BY <1>3 DEF Expire, Fault, exec, RunningHasRunner, FaultsCounted, Current
<1>4. ASSUME Crash
      PROVE  RunningHasRunner' /\ FaultsCounted'
  <2>1. \A e \in Execution : \/ pc'[e] = "crashed" /\ pc[e] \in Active
                             \/ pc'[e] = pc[e] /\ pc[e] \notin Active
    BY <1>4 DEF Crash
  <2>2. row' = row /\ stage' = stage /\ agent' = agent /\ faults' = faults
    BY <1>4 DEF Crash
  <2>3. FaultsCounted'
    BY <2>1, <2>2 DEF FaultsCounted, Active, Points, Over
  <2>5. ASSUME NEW t \in Task, row'[t] = "running"
        PROVE  RunningHasRunner!(t)'
    BY <2>1, <2>2, <2>5 DEF RunningHasRunner, Current, Task, Active, Points, Over
  <2> QED
    BY <2>3, <2>5 DEF RunningHasRunner
<1>5. CASE UNCHANGED vars
  BY <1>5 DEF vars, exec, RunningHasRunner, FaultsCounted, Current
<1> QED
  BY <1>1, <1>2, <1>3, <1>4, <1>5 DEF Next

\* No task row says 'running' unless its execution is at that very agent, was
\* cut off there by a crash, or met two faults in a row there. (executeTask)
THEOREM RunningTasksAttended == Spec => []RunningHasRunner
<1>1. Init => RunningHasRunner /\ FaultsCounted
  BY DEF Init, RunningHasRunner, FaultsCounted
<1> QED
  BY <1>1, TypeCorrect, RunnerStep, PTL DEF Spec

-----------------------------------------------------------------------------
(* The projects' rows *)

\* RunningHasExecution is inductive.
LEMMA ProjectStep ==
  TypeOK /\ RunningHasExecution /\ [Next]_vars => RunningHasExecution'
<1> SUFFICES ASSUME TypeOK, RunningHasExecution, [Next]_vars
             PROVE  RunningHasExecution'
  OBVIOUS
<1> DEFINE Begun == Active \cup {"unrecorded", "crashed"}
<1> USE OrchestratorAssumption DEF TypeOK, TypeTables, TypeControl
<1>1. ASSUME NEW e \in Execution, Begin(e) \/ Advance(e)
      PROVE  RunningHasExecution'
  <2>1. OthersStay(e)
    BY <1>1, StepsAreLocal
  \* Steps inside the execution: the row stays and so does its witness.
  <2>2. ASSUME status' = status, pc'[e] \in Begun
        PROVE  RunningHasExecution'
    BY <2>1, <2>2 DEF OthersStay, RunningHasExecution
  \* The execution ends: its project is not 'running', the others have others.
  <2>3. ASSUME NEW s \in {"completed", "failed"},
               status' = [status EXCEPT ![ProjectOf[e]] = s]
        PROVE  RunningHasExecution'
    BY <2>1, <2>3 DEF OthersStay, RunningHasExecution
  <2>4. CASE Begin(e)
    <3>1. pc'[e] \in Begun
      BY <2>4 DEF Begin, Goto, Active, Points, Over
    <3>2. status' = status \/ status' = [status EXCEPT ![ProjectOf[e]] = "running"]
      BY <2>4 DEF Begin
    <3> QED
      BY <2>1, <2>2, <3>1, <3>2 DEF OthersStay, RunningHasExecution
  <2>5. CASE Finish(e)
    <3>1. \/ status' = status /\ pc'[e] \in Begun
          \/ status' = [status EXCEPT ![ProjectOf[e]] = "completed"]
      BY <2>5 DEF Finish, Goto, Active, Points, Over
    <3> QED
      BY <2>2, <2>3, <3>1
  <2>6. CASE Catch(e)
    <3>1. \/ status' = status /\ pc'[e] \in Begun
          \/ status' = [status EXCEPT ![ProjectOf[e]] = "failed"]
      BY <2>6 DEF Catch, Goto, Active, Points, Over
    <3> QED
      BY <2>2, <2>3, <3>1
  <2>7. CASE EnterStage(e)
    BY <2>2, <2>7 DEF EnterStage, Goto, Active, Points, Over
  <2>8. CASE CreateTask(e)
    BY <2>2, <2>8 DEF CreateTask, Goto, Active, Points, Over
  <2>9. CASE StartTask(e)
    BY <2>2, <2>9 DEF StartTask, Goto, Active, Points, Over
  <2>10. CASE \E p \in Path : AgentWrite(e, p)
    BY <2>2, <2>10 DEF AgentWrite, exec, Active, Points, Over
  <2>11. CASE ReportTask(e)
    BY <2>2, <2>11 DEF ReportTask, Goto, Active, Points, Over
  <2>12. CASE RecordTask(e)
    BY <2>2, <2>12 DEF RecordTask, Goto, Active, Points, Over
  <2>13. CASE CatchTask(e)
    BY <2>2, <2>13 DEF CatchTask, Goto, Active, Points, Over
  <2>14. CASE CheckForConflicts(e)
    BY <2>2, <2>14 DEF CheckForConflicts, Goto, Active, Points, Over
  <2>15. CASE \E t \in Task : ReadFootprint(e, t)
    <3>1. status' = status /\ pc'[e] \in Begun
      BY <2>15 DEF ReadFootprint, Goto, Active, Points, Over
    <3> QED
      BY <2>2, <3>1
  <2>16. CASE \E p \in Path, w \in Task : Arbitrate(e, p, w)
    BY <2>2, <2>16 DEF Arbitrate, Goto, Active, Points, Over
  <2>17. CASE \E t \in Task : RequeueTask(e, t)
    <3>1. status' = status /\ pc'[e] \in Begun
      BY <2>17 DEF RequeueTask, Goto, Active, Points, Over
    <3> QED
      BY <2>2, <3>1
  <2> QED
    BY <1>1, <2>4, <2>5, <2>6, <2>7, <2>8, <2>9, <2>10, <2>11, <2>12, <2>13,
       <2>14, <2>15, <2>16, <2>17 DEF Advance
<1>2. ASSUME NEW p \in Project, CreateProject(p)
      PROVE  RunningHasExecution'
  BY <1>2 DEF CreateProject, exec, RunningHasExecution
<1>3. ASSUME NEW t \in Task, Expire(t)
      PROVE  RunningHasExecution'
  BY <1>3 DEF Expire, exec, RunningHasExecution
<1>4. ASSUME Crash
      PROVE  RunningHasExecution'
  BY <1>4 DEF Crash, RunningHasExecution, Active, Points, Over
<1>5. CASE UNCHANGED vars
  BY <1>5 DEF vars, exec, RunningHasExecution
<1> QED
  BY <1>1, <1>2, <1>3, <1>4, <1>5 DEF Next

\* No project row says 'running' unless one of its executions is under way or
\* was cut off. (executeProject)
THEOREM RunningProjectsAttended == Spec => []RunningHasExecution
<1>1. Init => RunningHasExecution
  BY DEF Init, RunningHasExecution
<1> QED
  BY <1>1, TypeCorrect, ProjectStep, PTL DEF Spec
=============================================================================
