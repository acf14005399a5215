--------------------------- MODULE Conversations ---------------------------
(***************************************************************************)
(* Turns of a conversation, from the request to the stored reply:          *)
(* src/src/middleware/idempotency.js before                                *)
(* src/src/services/conversation.service.js.                               *)
(*                                                                         *)
(* One conversation, the requests to it, and requests to delete it.  An    *)
(* action ends at an await of PostgreSQL, Redis or a model.  Transactions  *)
(* are READ COMMITTED: a statement sees the rows committed before it, and  *)
(* an UPDATE of the conversation's row holds it until the end of its       *)
(* transaction.                                                            *)
(*                                                                         *)
(* The route of streams hands the controller's method over unbound, so     *)
(* that its first event throws: a stream stores the user's message and     *)
(* never gets to a model.  The code behind that is not modelled.           *)
(***************************************************************************)
EXTENDS Integers, FiniteSets, Sequences

CONSTANTS Turn,      \* POST /:id/messages and /:id/messages/stream
          Removal,   \* DELETE /:id
          Key,       \* Idempotency-Key headers
          MaxFaults, \* bound: queries and commands that reject, restarts
          None

ASSUME ConversationsAssumption ==
  /\ Turn \cap Removal = {}
  /\ MaxFaults \in Nat
  /\ None \notin Key \cup Turn \cup Removal
  /\ (Turn \cup {None}) \cap {"in flight", "created", "conflict", "error", "cut"} = {}

VARIABLES
  conversation, \* conversations.deleted_at: "live" or "deleted"
  rowLock,      \* whose transaction has updated the conversation's row
  message,      \* message[t]: the rows of turn t, "user" and "assistant"
  shelf,        \* shelf[k]: idempotency:{k}: a marker, or whose response
  key,          \* key[t]: the key turn t has come with, or None
  job,          \* job[t]: the await turn t is at and its locals
  answer,       \* answer[t]: what the client got
  removal,      \* removal[d]: the await the delete d is at
  swept,        \* swept[d]: rows that its transaction has marked deleted
  late,         \* rows committed after the conversation was deleted (history)
  loose,        \* keys whose protection has failed (history)
  orphan,       \* keys whose marker has lost its request (history)
  faults

rows == <<conversation, rowLock, message>>
removing == <<removal, swept>>
history == <<late, loose, orphan>>
vars == <<rows, shelf, key, job, answer, removing, history, faults>>

Role == {"user", "assistant"}
Row == [turn : Turn, role : Role]
InFlight == "in flight"

TurnPlaces == {"idle", "mark", "access", "touch", "commit", "check", "generate",
               "respond", "fail", "over", "dead"}
RemovalPlaces == {"idle", "erase", "sweep", "end", "over", "dead"}

\* streams: it has come to /stream; role: the message being sent; wrapped:
\* res.json stores or deletes the key.
Job == [at : TurnPlaces, streams : BOOLEAN, role : Role, wrapped : BOOLEAN]

Idle == [at |-> "idle", streams |-> FALSE, role |-> "user", wrapped |-> FALSE]

Under(t) == job[t].at \notin {"idle", "over", "dead"}
Removing(d) == removal[d] \notin {"idle", "over", "dead"}

TypeOK ==
  /\ conversation \in {"live", "deleted"}
  /\ rowLock \in {None} \cup {t \in Turn : job[t].at = "commit"}
                        \cup {d \in Removal : removal[d] \in {"sweep", "end"}}
  /\ message \in [Row -> {"absent", "live", "deleted"}]
  /\ shelf \in [Key -> {None, InFlight} \cup Turn]
  /\ key \in [Turn -> Key \cup {None}]
  /\ job \in [Turn -> Job]
  /\ answer \in [Turn -> {None, "created", "conflict", "error", "cut"} \cup Turn]
  /\ removal \in [Removal -> RemovalPlaces]
  /\ swept \in [Removal -> SUBSET Row]
  /\ late \subseteq Row /\ loose \subseteq Key /\ orphan \subseteq Key
  /\ faults \in 0..MaxFaults

Init ==
  /\ conversation = "live"
  /\ rowLock = None
  /\ message = [m \in Row |-> "absent"]
  /\ shelf = [k \in Key |-> None]
  /\ key = [t \in Turn |-> None]
  /\ job = [t \in Turn |-> Idle]
  /\ answer = [t \in Turn |-> None]
  /\ removal = [d \in Removal |-> "idle"]
  /\ swept = [d \in Removal |-> {}]
  /\ late = {} /\ loose = {} /\ orphan = {}
  /\ faults = 0

To(t, place) == job' = [job EXCEPT ![t].at = place]
Ends(t, what) == /\ job' = [job EXCEPT ![t] = [Idle EXCEPT !.at = "over"]]
                 /\ answer' = [answer EXCEPT ![t] = what]
Fault == faults < MaxFaults /\ faults' = faults + 1

-----------------------------------------------------------------------------
(* idempotency *)

\* No key, or the route of streams, which has no idempotency().
Arrive(t) ==
  /\ job[t].at = "idle"
  /\ \E streams \in BOOLEAN :
       job' = [job EXCEPT ![t].at = "access", ![t].streams = streams]
  /\ UNCHANGED <<rows, shelf, key, answer, removing, history, faults>>

\* A mistaken Look: a marker is no answer to replay, and is passed by.
LookPastMarker(t, k) ==
  /\ job[t].at = "idle"
  /\ key' = [key EXCEPT ![t] = k]
  /\ IF shelf[k] \in Turn THEN Ends(t, shelf[k]) ELSE To(t, "mark") /\ UNCHANGED answer
  /\ UNCHANGED <<rows, shelf, removing, history, faults>>

\* GET. A marker and a response both end the request here. Two that look
\* before either has marked the key both go on. If Redis fails the request goes
\* through without the wrapper.
Look(t, k) ==
  /\ job[t].at = "idle"
  /\ key' = [key EXCEPT ![t] = k]
  /\ \/ shelf[k] = InFlight /\ Ends(t, "conflict") /\ UNCHANGED <<loose, faults>>
     \/ shelf[k] \in Turn /\ Ends(t, shelf[k]) /\ UNCHANGED <<loose, faults>>
     \/ /\ shelf[k] = None /\ To(t, "mark")
        /\ loose' = loose \cup {key[u] : u \in {u \in Turn : job[u].at = "mark" /\ key[u] = k}}
        /\ UNCHANGED <<answer, faults>>
     \/ Fault /\ To(t, "access") /\ loose' = loose \cup {k} /\ UNCHANGED answer
  /\ UNCHANGED <<rows, shelf, removing, late, orphan>>

\* SETEX of the marker, over whatever another request has put there since the
\* GET. If it fails, having been applied or not, there is no wrapper either.
Mark(t) ==
  LET k == key[t] IN
  /\ job[t].at = "mark"
  /\ \/ /\ shelf' = [shelf EXCEPT ![k] = InFlight]
        /\ job' = [job EXCEPT ![t].at = "access", ![t].wrapped = TRUE]
        /\ UNCHANGED <<loose, orphan, faults>>
     \/ /\ Fault
        /\ \/ shelf' = [shelf EXCEPT ![k] = InFlight] /\ orphan' = orphan \cup {k}
           \/ UNCHANGED <<shelf, orphan>>
        /\ To(t, "access")
        /\ loose' = loose \cup {k}
  /\ UNCHANGED <<rows, key, answer, removing, late>>

\* What the wrapper does to the key as turn t is answered: it is not awaited,
\* and if it fails the marker stays.
Shelve(t, what) ==
  LET k == key[t] IN
  IF job[t].wrapped
  THEN \/ shelf' = [shelf EXCEPT ![k] = what] /\ UNCHANGED <<loose, orphan, faults>>
       \/ /\ Fault
          /\ loose' = loose \cup {k} /\ orphan' = orphan \cup {k}
          /\ UNCHANGED shelf
  ELSE UNCHANGED <<shelf, loose, orphan, faults>>

\* 201
Respond(t) ==
  /\ job[t].at = "respond"
  /\ Ends(t, "created")
  /\ Shelve(t, t)
  /\ UNCHANGED <<rows, key, removing, late>>

\* A mistaken Refuse: the marker stays.
RefuseAndKeepMarker(t) ==
  /\ job[t].at = "fail"
  /\ Ends(t, "error")
  /\ UNCHANGED <<rows, shelf, key, removing, history, faults>>

\* An error answer; the wrapper deletes the key, whoever has written it last. A
\* stream's handler throws at its event of the error too, and the error handler
\* at the headers that have been sent: the socket is destroyed.
Refuse(t) ==
  /\ job[t].at = "fail"
  /\ Ends(t, IF job[t].streams THEN "cut" ELSE "error")
  /\ Shelve(t, None)
  /\ UNCHANGED <<rows, key, removing, late>>

-----------------------------------------------------------------------------
(* sendMessage, for the user's message and then for the assistant's *)

\* A query that rejects: the transaction rolls back, and the turn fails.
Reject(t) ==
  /\ job[t].at \in {"access", "touch", "check"}
  /\ Fault
  /\ To(t, "fail")
  /\ UNCHANGED <<rows, shelf, key, answer, removing, history>>

\* getConversationAccess
Access(t) ==
  /\ job[t].at = "access"
  /\ To(t, IF conversation = "live" THEN "touch" ELSE "fail")
  /\ UNCHANGED <<rows, shelf, key, answer, removing, history, faults>>

\* A mistaken Touch: the conversation's row is left alone.
TouchNot(t) ==
  /\ job[t].at = "touch"
  /\ To(t, "commit")
  /\ UNCHANGED <<rows, shelf, key, answer, removing, history, faults>>

\* INSERT and touchConversation, which waits for the conversation's row.
Touch(t) ==
  /\ job[t].at = "touch"
  /\ rowLock = None
  /\ rowLock' = t
  /\ To(t, "commit")
  /\ UNCHANGED <<conversation, message, shelf, key, answer, removing, history, faults>>

\* The message being sent is there for good.
Keep(t) ==
  LET m == [turn |-> t, role |-> job[t].role]
  IN /\ message' = [message EXCEPT ![m] = "live"]
     /\ late' = IF conversation = "deleted" THEN late \cup {m} ELSE late

\* A mistaken Commit: one that rejects leaves the transaction open.
CommitOrHang(t) ==
  /\ job[t].at = "commit"
  /\ \/ /\ Keep(t) /\ rowLock' = None
        /\ To(t, IF job[t].role = "user" THEN "check" ELSE "respond")
        /\ UNCHANGED faults
     \/ Fault /\ To(t, "fail") /\ UNCHANGED <<message, late, rowLock>>
  /\ UNCHANGED <<conversation, shelf, key, answer, removing, loose, orphan>>

\* COMMIT. One that rejects may have been applied all the same.
Commit(t) ==
  /\ job[t].at = "commit"
  /\ rowLock' = None
  /\ \/ /\ Keep(t)
        /\ To(t, IF job[t].role = "user" THEN "check" ELSE "respond")
        /\ UNCHANGED faults
     \/ Fault /\ To(t, "fail") /\ (Keep(t) \/ UNCHANGED <<message, late>>)
  /\ UNCHANGED <<conversation, shelf, key, answer, removing, loose, orphan>>

-----------------------------------------------------------------------------
(* completeAssistantTurn, sendMessageTurnStream *)

\* A mistaken Check: a conversation that is gone is waited for.
CheckOrWait(t) ==
  /\ job[t].at = "check" /\ conversation = "live"
  /\ To(t, IF job[t].streams THEN "fail" ELSE "generate")
  /\ UNCHANGED <<rows, shelf, key, answer, removing, history, faults>>

\* getConversation, after the user's message has been committed. A stream goes
\* on to onUserMessage, which throws.
Check(t) ==
  /\ job[t].at = "check"
  /\ To(t, IF conversation = "live" /\ ~job[t].streams THEN "generate" ELSE "fail")
  /\ UNCHANGED <<rows, shelf, key, answer, removing, history, faults>>

\* generateAssistantReply: what a model said, or an apology, is to be sent as
\* the assistant's message.
Generate(t) ==
  /\ job[t].at = "generate"
  /\ job' = [job EXCEPT ![t].at = "access", ![t].role = "assistant"]
  /\ UNCHANGED <<rows, shelf, key, answer, removing, history, faults>>

-----------------------------------------------------------------------------
(* deleteConversation *)

GoOn(d, place) == removal' = [removal EXCEPT ![d] = place]

\* The access query.
BeginRemoval(d) ==
  /\ removal[d] = "idle"
  /\ GoOn(d, IF conversation = "live" THEN "erase" ELSE "over")
  /\ UNCHANGED <<rows, shelf, key, job, answer, swept, history, faults>>

\* UPDATE conversations, which waits for the row.
Erase(d) ==
  /\ removal[d] = "erase"
  /\ rowLock = None
  /\ rowLock' = d
  /\ GoOn(d, "sweep")
  /\ UNCHANGED <<conversation, message, shelf, key, job, answer, swept, history, faults>>

\* UPDATE messages: the rows committed by now.
Sweep(d) ==
  /\ removal[d] = "sweep"
  /\ swept' = [swept EXCEPT ![d] = {m \in Row : message[m] = "live"}]
  /\ GoOn(d, "end")
  /\ UNCHANGED <<rows, shelf, key, job, answer, history, faults>>

\* COMMIT
EndRemoval(d) ==
  /\ removal[d] = "end"
  /\ conversation' = "deleted"
  /\ message' = [m \in Row |-> IF m \in swept[d] THEN "deleted" ELSE message[m]]
  /\ rowLock' = None
  /\ swept' = [swept EXCEPT ![d] = {}]
  /\ GoOn(d, "over")
  /\ UNCHANGED <<shelf, key, job, answer, history, faults>>

\* A query that rejects: ROLLBACK.
RejectRemoval(d) ==
  /\ removal[d] \in {"erase", "sweep", "end"}
  /\ Fault
  /\ rowLock' = IF rowLock = d THEN None ELSE rowLock
  /\ swept' = [swept EXCEPT ![d] = {}]
  /\ GoOn(d, "over")
  /\ UNCHANGED <<conversation, message, shelf, key, job, answer, history>>

-----------------------------------------------------------------------------
(* The environment *)

\* The marker lapses after a minute, a response after a day, whatever the
\* requests with that key are doing.
Lapse(k) ==
  /\ shelf[k] # None
  /\ shelf' = [shelf EXCEPT ![k] = None]
  /\ loose' = IF shelf[k] \in Turn \/ \E t \in Turn : key[t] = k /\ Under(t)
              THEN loose \cup {k} ELSE loose
  /\ orphan' = orphan \ {k}
  /\ UNCHANGED <<rows, key, job, answer, removing, late, faults>>

\* The process dies, or is shut down before it has answered; PostgreSQL rolls
\* the open transactions back.
Restart ==
  /\ (\E t \in Turn : Under(t)) \/ \E d \in Removal : Removing(d)
  /\ Fault
  /\ job' = [t \in Turn |-> IF Under(t) THEN [Idle EXCEPT !.at = "dead"] ELSE job[t]]
  /\ removal' = [d \in Removal |-> IF Removing(d) THEN "dead" ELSE removal[d]]
  /\ rowLock' = None
  /\ swept' = [d \in Removal |-> {}]
  /\ orphan' = orphan \cup {k \in Key : shelf[k] = InFlight}
  /\ UNCHANGED <<conversation, message, shelf, key, answer, late, loose>>

Serve(t) ==
  \/ Mark(t) \/ Respond(t) \/ Refuse(t)
  \/ Access(t) \/ Touch(t) \/ Commit(t)
  \/ Check(t) \/ Generate(t)

Remove(d) == Erase(d) \/ Sweep(d) \/ EndRemoval(d)

Next ==
  \/ \E t \in Turn : Arrive(t) \/ (\E k \in Key : Look(t, k)) \/ Serve(t) \/ Reject(t)
  \/ \E d \in Removal : BeginRemoval(d) \/ Remove(d) \/ RejectRemoval(d)
  \/ \E k \in Key : Lapse(k)
  \/ Restart

Spec == Init /\ [][Next]_vars

\* Queries and model calls have timeouts, Redis answers or its connection breaks,
\* and the event loop serves every request it has taken.
FairSpec == Spec /\ (\A t \in Turn : WF_vars(Serve(t)))
                 /\ (\A d \in Removal : WF_vars(Remove(d)))

-----------------------------------------------------------------------------
(* Properties *)

Stored(t, r) == message[[turn |-> t, role |-> r]] # "absent"

Failed(t) == answer[t] \in {"error", "cut"} \/ job[t].at \in {"fail", "dead"}

\* Two requests with one key do not both go through unless one of them failed
\* or died, both looked before either had marked the key, Redis failed, or an
\* entry lapsed under them: the error of an earlier request, which deletes the
\* key, lets nobody in beside one under way. (idempotency)
RunsOncePerKey ==
  \A t, u \in Turn :
    /\ t # u /\ key[t] = key[u] /\ key[t] \in Key \ loose
    /\ Stored(t, "user") /\ Stored(u, "user")
    => \E v \in {t, u} : Failed(v)

\* A marker belongs to a request under way that will replace or delete it, or
\* to one that a restart or a failing command has cut off; only the latter
\* make clients wait for it to lapse. (idempotency)
MarkerHasOwner ==
  \A k \in Key : shelf[k] = InFlight =>
    k \in orphan \/ \E t \in Turn : key[t] = k /\ job[t].wrapped

\* A delete takes every message with it that was committed before: the only
\* live messages of a deleted conversation are those of requests that had been
\* let in before and committed after it. (deleteConversation, sendMessage)
DeletesWhole ==
  conversation = "deleted" => \A m \in Row : message[m] = "live" => m \in late

\* Every request that has been taken is answered, cut off, or dies with the
\* process.
RequestsEnd ==
  /\ \A t \in Turn : Under(t) ~> ~Under(t)
  /\ \A d \in Removal : Removing(d) ~> ~Removing(d)
=============================================================================
