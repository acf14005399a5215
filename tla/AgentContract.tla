---------------------------- MODULE AgentContract ----------------------------
(***************************************************************************)
(* What a run of the agent loop promises, whatever it does inside.         *)
(*                                                                         *)
(* A run takes one step after the other, MaxSteps at most.  A step asks    *)
(* the model once; the answer finishes the run, uses a tool, or is of no   *)
(* use.  The run is broken off when it has just made the same tool call    *)
(* NoProgressLimit times in a row: here that is said of all the tool calls *)
(* made so far, with no window.  It may run out of budget only before it   *)
(* asks, and fail only while it does.                                      *)
(*                                                                         *)
(* AgentRunner.tla is shown to implement this specification.               *)
(***************************************************************************)
EXTENDS Naturals, Sequences

CONSTANTS Run,             \* runs, each on its own as far as its promise goes
          Action,          \* tool calls
          MaxSteps,        \* the step limit
          NoProgressLimit  \* equal tool calls that make a run give up

VARIABLES phase,    \* phase[r]: what run r is about, in the end its outcome
          steps,    \* steps[r]: steps it has been through, as it reports them
          asked,    \* asked[r]: how often it has asked the model
          answers,  \* answers[r]: how often the model has answered
          used      \* used[r]: the tool calls, in order

cvars == <<phase, steps, asked, answers, used>>

Init ==
  /\ phase = [r \in Run |-> "ready"]
  /\ steps = [r \in Run |-> 0]
  /\ asked = [r \in Run |-> 0]
  /\ answers = [r \in Run |-> 0]
  /\ used = [r \in Run |-> <<>>]

Turn(r, from, to) ==
  /\ phase[r] = from
  /\ phase' = [phase EXCEPT ![r] = to]

\* One step more is behind the run.
EndStep(r, from, to) ==
  /\ Turn(r, from, to)
  /\ steps' = [steps EXCEPT ![r] = @ + 1]

\* What follows a step that does not end the run.
Onward(r) == IF steps[r] + 1 < MaxSteps THEN "deciding" ELSE "max_steps"

\* The last NoProgressLimit tool calls of s are the same.
Repeats(s) ==
  /\ Len(s) >= NoProgressLimit
  /\ \A i \in (Len(s) - NoProgressLimit + 1)..Len(s) : s[i] = s[Len(s)]

Begin(r) == Turn(r, "ready", "deciding") /\ UNCHANGED <<steps, asked, answers, used>>

\* The budget is spent.
Exhaust(r) ==
  Turn(r, "deciding", "budget_exhausted") /\ UNCHANGED <<steps, asked, answers, used>>

Ask(r) ==
  /\ Turn(r, "deciding", "asking")
  /\ asked' = [asked EXCEPT ![r] = @ + 1]
  /\ UNCHANGED <<steps, answers, used>>

\* No model answers.
Fail(r) == Turn(r, "asking", "failed") /\ UNCHANGED <<steps, asked, answers, used>>

\* The model answers: it is done, it wants a tool, or nothing can be made of it.
Answer(r) ==
  /\ answers' = [answers EXCEPT ![r] = @ + 1]
  /\ \/ EndStep(r, "asking", "completed") /\ UNCHANGED used
     \/ EndStep(r, "asking", Onward(r)) /\ UNCHANGED used
     \/ /\ Turn(r, "asking", "acting")
        /\ \E a \in Action : used' = [used EXCEPT ![r] = Append(@, a)]
        /\ UNCHANGED steps
  /\ UNCHANGED asked

\* The tool has been used, which ends the step and, if it was no progress, the run.
Observe(r) ==
  /\ EndStep(r, "acting", IF Repeats(used[r]) THEN "no_progress" ELSE Onward(r))
  /\ UNCHANGED <<asked, answers, used>>

Next == \E r \in Run :
  Begin(r) \/ Exhaust(r) \/ Ask(r) \/ Fail(r) \/ Answer(r) \/ Observe(r)

Spec == Init /\ [][Next]_cvars
=============================================================================
