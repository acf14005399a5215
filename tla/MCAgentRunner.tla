---------------------------- MODULE MCAgentRunner ----------------------------
(* AgentRunner.tla on small instances: runs and an arbitration of one project. *)
EXTENDS AgentRunner, TLC

CONSTANTS r1, r2, judge, p, a, b, f

MCBilledTo == [c \in Caller |-> p]
MCWrites == [x \in Action |-> IF x = a THEN {f} ELSE {}]
Sym == Permutations(Run)
=============================================================================
