----------------------------- MODULE Arbitrator -----------------------------
(***************************************************************************)
(* The arbitrator of merge conflicts, src/src/arbitrator/server.js, and    *)
(* the conflict records of src/src/shared/context-bus.ts that it keeps.    *)
(*                                                                         *)
(* One conflict for each webhook of GitHub that reports one, the list of   *)
(* conflicts that GET /api/conflicts reads, and Redis, which drops keys    *)
(* when they expire and, with the policy allkeys-lru of the deployments,   *)
(* whenever its memory is full.  An action ends at an await of Redis, a    *)
(* model or GitHub.                                                        *)
(***************************************************************************)
EXTENDS Integers, FiniteSets

CONSTANTS Conflict,  \* webhooks that report a conflict; each gets an id of its own
          MaxFaults, \* bound: commands of Redis that reject, restarts
          None

ASSUME ArbitratorAssumption ==
  /\ MaxFaults \in Nat
  /\ None \notin {"pending", "resolved", "unable"}

VARIABLES
  record,   \* record[c]: conflict:{taskId}:{c}: its status, or None
  pending,  \* conflict:pending
  at,       \* at[c]: the await that the webhook of c is at
  blank,    \* webhooks whose model has answered with the JSON literal null
  said,     \* said[c]: the comment on the pull request
  desk,     \* a GET /api/conflicts
  lost,     \* conflicts whose record has been dropped (history)
  unlisted, \* conflicts that a fault has kept off the list (history)
  stranded, \* conflicts that a fault has left resolved and on the list, or
            \* resolved after all (history)
  faults

redis == <<record, pending>>
history == <<lost, unlisted, stranded>>
vars == <<redis, at, blank, said, desk, history, faults>>

Places == {"idle", "push", "get", "ask", "ollama", "count", "reread", "write",
           "takeoff", "resolved", "unable", "over", "dead"}

\* todo: ids still to be read; shown: conflicts read so far; due: those
\* on the list when it was read that were not settled (history).
Desk == [busy : BOOLEAN, todo : SUBSET Conflict, shown : SUBSET Conflict,
         due : SUBSET Conflict]
Free == [busy |-> FALSE, todo |-> {}, shown |-> {}, due |-> {}]

Under(c) == at[c] \notin {"idle", "over", "dead"}
Resolving(c) == at[c] \in {"get", "ask", "ollama", "count", "reread", "write"}

\* A record is made only for a webhook that has come, is settled only by one
\* that has had a model's answer, and until then waits as it was recorded.
TypeOK ==
  /\ record \in [Conflict -> {None, "pending", "resolved"}]
  /\ pending \subseteq {c \in Conflict : at[c] \notin {"idle", "push"}}
  /\ at \in [Conflict -> Places]
  /\ blank \subseteq Conflict
  /\ said \in [Conflict -> {None, "resolved", "unable"}]
  /\ desk \in Desk
  /\ lost \subseteq Conflict /\ unlisted \subseteq Conflict /\ stranded \subseteq Conflict
  /\ faults \in 0..MaxFaults
  /\ \A c \in Conflict : Resolving(c) => record[c] # "resolved"

Init ==
  /\ record = [c \in Conflict |-> None]
  /\ pending = {}
  /\ at = [c \in Conflict |-> "idle"]
  /\ blank = {}
  /\ said = [c \in Conflict |-> None]
  /\ desk = Free
  /\ lost = {} /\ unlisted = {} /\ stranded = {}
  /\ faults = 0

To(c, place) == at' = [at EXCEPT ![c] = place]
Fault == faults < MaxFaults /\ faults' = faults + 1
Set(c, status) == record' = [record EXCEPT ![c] = status]

-----------------------------------------------------------------------------
(* recordConflict *)

\* A mistaken Record: the id is on the list before the record.
RecordOnceListed(c) ==
  /\ at[c] = "idle"
  /\ pending' = pending \cup {c} /\ To(c, "push")
  /\ UNCHANGED <<record, blank, said, desk, history, faults>>

\* The webhook, and SET of the record. One that rejects may have been applied;
\* the webhook is answered with 500.
Record(c) ==
  /\ at[c] = "idle"
  /\ \/ Set(c, "pending") /\ To(c, "push") /\ UNCHANGED <<unlisted, faults>>
     \/ /\ Fault /\ To(c, "over")
        /\ Set(c, "pending") \/ UNCHANGED record
        /\ unlisted' = unlisted \cup {c}
  /\ UNCHANGED <<pending, blank, said, desk, lost, stranded>>

\* LPUSH. If it rejects the record is there all the same.
Push(c) ==
  /\ at[c] = "push"
  /\ \/ pending' = pending \cup {c} /\ To(c, "get") /\ UNCHANGED <<unlisted, faults>>
     \/ /\ Fault /\ To(c, "over")
        /\ pending' = pending \cup {c} \/ UNCHANGED pending
        /\ unlisted' = unlisted \cup {c}
  /\ UNCHANGED <<record, blank, said, desk, lost, stranded>>

-----------------------------------------------------------------------------
(* resolveConflict: whatever rejects here makes it "unable" *)

\* A command of Redis that rejects where it changes nothing but a counter.
Reject(c) ==
  /\ at[c] \in {"get", "count", "reread"}
  /\ Fault
  /\ To(c, "unable")
  /\ UNCHANGED <<redis, blank, said, desk, history>>

\* getConflict, for the prompt: its outcome decides nothing.
Get(c) ==
  /\ at[c] = "get"
  /\ To(c, "ask")
  /\ UNCHANGED <<redis, blank, said, desk, history, faults>>

\* The model answers: with a verdict, with something that is not JSON, or with
\* JSON that is no object; only null matters later.
Answered(c) == UNCHANGED blank \/ blank' = blank \cup {c}

\* generateArbitratorResponse
Ask(c) ==
  /\ at[c] = "ask"
  /\ \/ To(c, "reread") /\ Answered(c)
     \/ To(c, "ollama") /\ UNCHANGED blank
  /\ UNCHANGED <<redis, said, desk, history, faults>>

\* A mistaken AskOllama: its failure is no error.
AskOllamaInVain(c) ==
  /\ at[c] = "ollama"
  /\ To(c, "count") \/ To(c, "resolved")
  /\ UNCHANGED <<redis, blank, said, desk, history, faults>>

\* _fallbackToOllama; if it fails too, there is no resolution.
AskOllama(c) ==
  /\ at[c] = "ollama"
  /\ \/ To(c, "count") /\ Answered(c)
     \/ To(c, "unable") /\ UNCHANGED blank
  /\ UNCHANGED <<redis, said, desk, history, faults>>

\* incrementCounter: if it rejects, the answer is lost with it.
Count(c) ==
  /\ at[c] = "count"
  /\ To(c, "reread")
  /\ UNCHANGED <<redis, blank, said, desk, history, faults>>

\* What resolveConflict returns after the update: a verdict has to have an
\* explanation, and null has none to read: that throws, and counts as "unable"
\* although the update is done.
Verdict(c) == IF c \in blank THEN "unable" ELSE "resolved"

\* A mistaken Reread: it takes the conflict off the list first.
RereadAndTakeOff(c) ==
  /\ at[c] = "reread"
  /\ To(c, IF record[c] = None THEN Verdict(c) ELSE "write")
  /\ pending' = pending \ {c}
  /\ UNCHANGED <<record, blank, said, desk, history, faults>>

\* A mistaken Reread: a record that is gone is waited for.
RereadOrWait(c) ==
  /\ at[c] = "reread" /\ record[c] # None
  /\ To(c, "write")
  /\ UNCHANGED <<redis, blank, said, desk, history, faults>>

\* updateConflictStatus, getConflict. Nobody looks at the false it returns if
\* the record is gone.
Reread(c) ==
  /\ at[c] = "reread"
  /\ To(c, IF record[c] = None THEN Verdict(c) ELSE "write")
  /\ UNCHANGED <<redis, blank, said, desk, history, faults>>

\* SET of the record that was read, whatever has become of it since; whatever
\* the verdict of the model, "manual" too.
Write(c) ==
  /\ at[c] = "write"
  /\ \/ Set(c, "resolved") /\ To(c, "takeoff") /\ UNCHANGED <<stranded, faults>>
     \/ /\ Fault /\ To(c, "unable")
        /\ Set(c, "resolved") \/ UNCHANGED record
        /\ stranded' = stranded \cup {c}
  /\ UNCHANGED <<pending, blank, said, desk, lost, unlisted>>

\* LREM
TakeOff(c) ==
  /\ at[c] = "takeoff"
  /\ \/ pending' = pending \ {c} /\ To(c, Verdict(c)) /\ UNCHANGED <<stranded, faults>>
     \/ /\ Fault /\ To(c, "unable")
        /\ pending' = pending \ {c} \/ UNCHANGED pending
        /\ stranded' = stranded \cup {c}
  /\ UNCHANGED <<record, blank, said, desk, lost, unlisted>>

\* postComment, which GitHub may refuse, or never answer, and which needs a token;
\* the webhook is answered with 200.
Post(c) ==
  /\ at[c] \in {"resolved", "unable"}
  /\ said' = [said EXCEPT ![c] = at[c]] \/ UNCHANGED said
  /\ To(c, "over")
  /\ UNCHANGED <<redis, blank, desk, history, faults>>

-----------------------------------------------------------------------------
(* getPendingConflicts *)

\* A mistaken BeginListing: what the last listing has shown is shown again.
BeginListingOver ==
  /\ ~desk.busy
  /\ desk' = [busy |-> TRUE, todo |-> pending, shown |-> desk.shown,
              due |-> {c \in pending : record[c] # "resolved" \/ at[c] = "takeoff"}]
  /\ UNCHANGED <<redis, at, blank, said, history, faults>>

\* LRANGE
BeginListing ==
  /\ ~desk.busy
  /\ desk' = [busy |-> TRUE, todo |-> pending, shown |-> {},
              due |-> {c \in pending : record[c] # "resolved" \/ at[c] = "takeoff"}]
  /\ UNCHANGED <<redis, at, blank, said, history, faults>>

\* getConflict of the next id; one that has no record is passed over.
ReadNext(c) ==
  /\ c \in desk.todo
  /\ desk' = [desk EXCEPT !.todo = @ \ {c},
                          !.shown = IF record[c] = None THEN @ ELSE @ \cup {c}]
  /\ UNCHANGED <<redis, at, blank, said, history, faults>>

\* The answer, or 500.
EndListing ==
  /\ desk.busy
  /\ \/ desk.todo = {} /\ desk' = [desk EXCEPT !.busy = FALSE] /\ UNCHANGED faults
     \/ desk.todo # {} /\ Fault /\ desk' = Free
  /\ UNCHANGED <<redis, at, blank, said, history>>

-----------------------------------------------------------------------------
(* The environment *)

\* A record expires after a day, or a week if resolved, or is evicted.
DropRecord(c) ==
  /\ record[c] # None
  /\ Set(c, None)
  /\ lost' = lost \cup {c}
  /\ UNCHANGED <<pending, at, blank, said, desk, unlisted, stranded, faults>>

\* The list never expires, but it may be evicted.
DropList ==
  /\ pending # {}
  /\ pending' = {}
  /\ unlisted' = unlisted \cup pending
  /\ UNCHANGED <<record, at, blank, said, desk, lost, stranded, faults>>

\* The arbitrator dies and is started again; no webhook is taken up.
Restart ==
  /\ (\E c \in Conflict : Under(c)) \/ desk.busy
  /\ Fault
  /\ at' = [c \in Conflict |-> IF Under(c) THEN "dead" ELSE at[c]]
  /\ desk' = Free
  /\ unlisted' = unlisted \cup {c \in Conflict : at[c] = "push"}
  /\ stranded' = stranded \cup {c \in Conflict : at[c] = "takeoff"}
  /\ UNCHANGED <<redis, blank, said, lost>>

Handle(c) ==
  \/ Push(c) \/ Get(c) \/ Ask(c) \/ AskOllama(c) \/ Count(c)
  \/ Reread(c) \/ Write(c) \/ TakeOff(c)

Next ==
  \/ \E c \in Conflict : \/ Record(c) \/ Handle(c) \/ Post(c) \/ Reject(c)
                        \/ ReadNext(c) \/ DropRecord(c)
  \/ BeginListing \/ EndListing \/ DropList \/ Restart

Spec == Init /\ [][Next]_vars

\* Commands and model calls are answered or reject. The request to GitHub has no
\* timeout: nothing makes Post happen.
FairSpec == Spec /\ \A c \in Conflict : WF_vars(Handle(c))

-----------------------------------------------------------------------------
(* Properties *)

\* The list and the records agree but for a webhook between the two commands
\* that change them: a conflict waiting for a resolution is on the list, and a
\* resolved one is off it, unless a rejected command, a restart or an eviction
\* has come between. (recordConflict, updateConflictStatus)
ListMatchesRecords ==
  \A c \in Conflict :
    /\ record[c] = "pending" => c \in pending \cup unlisted \/ at[c] = "push"
    /\ record[c] = "resolved" => c \notin pending \/ c \in stranded \/ at[c] = "takeoff"

\* The comment on the pull request says what the record says: "resolved" of a
\* record that is resolved, unless Redis has dropped it, and "unable" of one
\* that is not, unless the commands of the update have failed or the model's
\* answer was null, which is told as a failure though the record is settled.
\* (handlePullRequest, resolveConflict)
CommentTellsRecord ==
  \A c \in Conflict :
    /\ said[c] = "resolved" => (record[c] = "resolved" \/ c \in lost) /\ c \notin blank
    /\ said[c] = "unable" => record[c] # "resolved" \/ c \in stranded \cup blank

\* Though it reads one record after the other, a listing shows no conflict
\* that had been settled before it began, but for stranded ones, and none that
\* has been waiting on the list all along is missing. (getPendingConflicts)
ListingIsJust ==
  /\ desk.busy => desk.shown \subseteq desk.due \cup stranded
  /\ \A c \in desk.due \ desk.todo :
       desk.busy /\ record[c] = "pending" => c \in desk.shown

\* Every webhook that has been taken comes to its comment, fails before, or dies
\* with the process; from there on it waits for GitHub. (POST /webhook/github)
WebhooksEnd ==
  \A c \in Conflict : Under(c) ~> ~Under(c) \/ at[c] \in {"resolved", "unable"}
=============================================================================
