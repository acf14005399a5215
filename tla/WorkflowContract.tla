-------------------------- MODULE WorkflowContract --------------------------
(***************************************************************************)
(* What one workflow execution promises, whatever it does inside.          *)
(*                                                                         *)
(* ZekkaOrchestrator documents a staged workflow: the stages run one after *)
(* the other, a stage runs each of its agents, and the project completes   *)
(* after the last stage.  An execution may also fail, or be lost with the  *)
(* process, at any point.  Executions are independent: the HTTP route      *)
(* starts one per request and never looks for another.                     *)
(*                                                                         *)
(* Orchestrator.tla is shown to implement this specification.              *)
(***************************************************************************)
EXTENDS Integers

CONSTANTS Execution,  \* executions: one per accepted POST .../execute
          NumStages,  \* length of the stage list of executeProject
          MaxAgents,  \* the largest number of agents of a stage
          AgentsOf    \* AgentsOf[s]: the number of agents of the s-th stage

VARIABLES phase,      \* phase[e]: how far execution e is
          reached,    \* reached[e]: the stage e works on, 0 before the first
          turns       \* turns[t]: how often agent t was set to work

cvars == <<phase, reached, turns>>

Agent == 1..MaxAgents
Stage == 1..NumStages
AgentRun == Execution \X Stage \X Agent

\* The crew of a stage, and the agents that have been set to work.
Crew(e, s) == {t \in AgentRun : t[1] = e /\ t[2] = s /\ t[3] <= AgentsOf[s]}
Worked == {t \in AgentRun : turns[t] > 0}

Init ==
  /\ phase = [e \in Execution |-> "idle"]
  /\ reached = [e \in Execution |-> 0]
  /\ turns = [t \in AgentRun |-> 0]

\* An execution is accepted.
Accept(e) ==
  /\ phase[e] = "idle"
  /\ phase' = [phase EXCEPT ![e] = "running"]
  /\ UNCHANGED <<reached, turns>>

\* It enters the next stage, after every agent of the present one was set to work.
EnterStage(e) ==
  /\ phase[e] = "running"
  /\ reached[e] < NumStages
  /\ reached[e] > 0 => Crew(e, reached[e]) \subseteq Worked
  /\ reached' = [reached EXCEPT ![e] = @ + 1]
  /\ UNCHANGED <<phase, turns>>

\* An agent of the present stage is set to work, and never again.
SetToWork(e, t) ==
  /\ phase[e] = "running"
  /\ reached[e] > 0
  /\ t \in Crew(e, reached[e])
  /\ turns[t] = 0
  /\ turns' = [turns EXCEPT ![t] = 1]
  /\ UNCHANGED <<phase, reached>>

\* It completes after the last stage's agents have all been set to work.
Complete(e) ==
  /\ phase[e] = "running"
  /\ reached[e] = NumStages
  /\ Crew(e, NumStages) \subseteq Worked
  /\ phase' = [phase EXCEPT ![e] = "completed"]
  /\ UNCHANGED <<reached, turns>>

\* It may fail at any time.
Fail(e) ==
  /\ phase[e] = "running"
  /\ phase' = [phase EXCEPT ![e] = "failed"]
  /\ UNCHANGED <<reached, turns>>

\* The process dies: every running execution is lost.
Die ==
  /\ phase' = [e \in Execution |-> IF phase[e] = "running" THEN "lost" ELSE phase[e]]
  /\ UNCHANGED <<reached, turns>>

Next ==
  \/ \E e \in Execution :
        \/ Accept(e) \/ EnterStage(e) \/ Complete(e) \/ Fail(e)
        \/ \E t \in AgentRun : SetToWork(e, t)
  \/ Die

Spec == Init /\ [][Next]_cvars
=============================================================================
