--------------------------- MODULE MCOrchestrator ---------------------------
(* Orchestrator.tla on small instances. *)
EXTENDS Orchestrator, TLC

CONSTANTS e1, e2, proj, a, b

MCProjectOf == [e \in Execution |-> proj]
MCFileOf == [p \in Path |-> p]
MCCrews == [s \in Stage |-> IF s = 1 THEN MaxAgents ELSE 1]
Sym == Permutations(Execution) \cup Permutations(Path)
=============================================================================
