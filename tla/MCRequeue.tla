------------------------------ MODULE MCRequeue ------------------------------
(***************************************************************************)
(* Orchestrator.tla with a history variable: what each execution found     *)
(* re-queued when it began and has not run since.                          *)
(***************************************************************************)
EXTENDS MCOrchestrator

VARIABLE owed  \* owed[e]: tasks waiting to be redone since before e began

SentBack(p) == {t \in Task : ProjectOf[t[1]] = p /\ row[t] = "pending" /\ note[t] # None}

OwedInit == Init /\ owed = [e \in Execution |-> {}]

OwedNext ==
  /\ Next
  /\ owed' = [e \in Execution |->
       IF pc[e] = "idle" /\ pc'[e] # "idle" THEN SentBack(ProjectOf[e])
       ELSE {t \in owed[e] : row'[t] # "running"}]

OwedSpec == OwedInit /\ [][OwedNext]_<<vars, owed>>

\* The comment on requeueTask: a re-queued task is reset "so a subsequent
\* execution pass redoes the work". An execution that completes has run the
\* tasks it found re-queued when it began.
RequeuedWorkIsRedone ==
  \A e \in Execution : pc[e] = "completed" => owed[e] = {}
=============================================================================
