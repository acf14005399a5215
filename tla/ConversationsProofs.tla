------------------------ MODULE ConversationsProofs ------------------------
(***************************************************************************)
(* What Conversations.tla promises for every set of turns, deletes and     *)
(* keys, and every number of faults.                                       *)
(***************************************************************************)
EXTENDS Conversations, TLAPS

\* The actions of a turn between its arrival and its answer that leave
\* everything but its locals alone.
Thinks(t) == Access(t) \/ Check(t) \/ Generate(t)

\* The actions of one turn, the mistaken ones left out.
Turns(t) ==
  \/ Arrive(t) \/ \E k \in Key : Look(t, k)
  \/ Mark(t) \/ Respond(t) \/ Refuse(t)
  \/ Touch(t) \/ Commit(t) \/ Thinks(t) \/ Reject(t)

Removes(d) ==
  BeginRemoval(d) \/ Erase(d) \/ Sweep(d) \/ EndRemoval(d) \/ RejectRemoval(d)

\* Next, one actor at a time.
LEMMA NextActors ==
  ASSUME Next
  PROVE  \/ \E t \in Turn : Turns(t)
         \/ \E d \in Removal : Removes(d)
         \/ \E k \in Key : Lapse(k)
         \/ Restart
  BY DEF Next, Serve, Remove, Thinks, Turns, Removes

-----------------------------------------------------------------------------
(* The locals of a turn *)

LEMMA JobFields ==
  ASSUME NEW j \in Job
  PROVE  /\ \A place \in TurnPlaces : [j EXCEPT !.at = place] \in Job
         /\ j.at \in TurnPlaces
         /\ j.wrapped \in BOOLEAN
  BY DEF Job

LEMMA IdleIsJob == Idle \in Job /\ [Idle EXCEPT !.at = "over"] \in Job
                   /\ [Idle EXCEPT !.at = "dead"] \in Job
<1>1. Idle \in Job
  BY DEF Idle, Job, TurnPlaces, Role
<1> QED
  BY <1>1, JobFields DEF TurnPlaces

\* Turn t comes to another await; the locals of the other turns stay.
Moves(t, place, wrapped) ==
  /\ job' \in [Turn -> Job]
  /\ \A u \in Turn \ {t} : job'[u] = job[u]
  /\ job'[t].at = place /\ job'[t].wrapped = wrapped

LEMMA ToMoves ==
  ASSUME TypeOK, NEW t \in Turn, NEW place \in TurnPlaces, To(t, place)
  PROVE  Moves(t, place, job[t].wrapped)
<1> DEFINE j == [job[t] EXCEPT !.at = place]
<1>1. job[t] \in Job
  BY DEF TypeOK
<1>2. j \in Job /\ j.at = place /\ j.wrapped = job[t].wrapped
  BY <1>1 DEF Job
<1>3. job' = [job EXCEPT ![t] = j]
  BY DEF To, TypeOK
<1> QED
  BY <1>2, <1>3 DEF Moves, TypeOK

LEMMA EndsMoves ==
  ASSUME TypeOK, NEW t \in Turn, NEW what, Ends(t, what)
  PROVE  Moves(t, "over", FALSE) /\ answer' = [answer EXCEPT ![t] = what]
<1> DEFINE j == [Idle EXCEPT !.at = "over"]
<1>1. j \in Job /\ j.at = "over" /\ j.wrapped = FALSE
  BY IdleIsJob DEF Idle
<1>2. job' = [job EXCEPT ![t] = j] /\ answer' = [answer EXCEPT ![t] = what]
  BY DEF Ends
<1> QED
  BY <1>1, <1>2 DEF Moves, TypeOK

LEMMA ArriveMoves ==
  ASSUME TypeOK, NEW t \in Turn, Arrive(t)
  PROVE  Moves(t, "access", job[t].wrapped)
<1>1. PICK streams \in BOOLEAN :
        job' = [job EXCEPT ![t].at = "access", ![t].streams = streams]
  BY DEF Arrive
<1> DEFINE j == [job[t] EXCEPT !.at = "access", !.streams = streams]
<1>2. job[t] \in Job
  BY DEF TypeOK
<1>3. j \in Job /\ j.at = "access" /\ j.wrapped = job[t].wrapped
  BY <1>2 DEF Job, TurnPlaces
<1>4. job' = [job EXCEPT ![t] = j]
  BY <1>1 DEF TypeOK
<1> QED
  BY <1>3, <1>4 DEF Moves, TypeOK

\* A marker that is set lets the turn go on wrapped, one that is not without.
LEMMA MarkMoves ==
  ASSUME TypeOK, NEW t \in Turn, Mark(t)
  PROVE  \/ /\ Moves(t, "access", TRUE)
            /\ shelf' = [shelf EXCEPT ![key[t]] = InFlight]
            /\ UNCHANGED <<loose, orphan, faults>>
         \/ /\ Moves(t, "access", job[t].wrapped)
            /\ Fault
            /\ \/ /\ shelf' = [shelf EXCEPT ![key[t]] = InFlight]
                  /\ orphan' = orphan \cup {key[t]}
               \/ UNCHANGED <<shelf, orphan>>
            /\ loose' = loose \cup {key[t]}
<1>1. ASSUME To(t, "access")
      PROVE  Moves(t, "access", job[t].wrapped)
  <2>1. "access" \in TurnPlaces
    BY DEF TurnPlaces
  <2> QED
    BY <1>1, <2>1, ToMoves
<1>2. ASSUME job' = [job EXCEPT ![t].at = "access", ![t].wrapped = TRUE]
      PROVE  Moves(t, "access", TRUE)
  <2> DEFINE j == [job[t] EXCEPT !.at = "access", !.wrapped = TRUE]
  <2>1. job[t] \in Job
    BY DEF TypeOK
  <2>2. j \in Job /\ j.at = "access" /\ j.wrapped = TRUE
    BY <2>1 DEF Job, TurnPlaces
  <2>3. job' = [job EXCEPT ![t] = j]
    BY <1>2 DEF TypeOK
  <2> QED
    BY <2>2, <2>3 DEF Moves, TypeOK
<1> QED
  BY <1>1, <1>2 DEF Mark

\* What a turn does between its arrival and its answer but at its commits.
LEMMA ThinksMoves ==
  ASSUME TypeOK, NEW t \in Turn, Thinks(t)
  PROVE  /\ \E j \in Job : job' = [job EXCEPT ![t] = j] /\ j.wrapped = job[t].wrapped
                           /\ j.at \notin {"idle", "mark", "commit", "over", "dead"}
         /\ job[t].at \notin {"idle", "mark", "commit", "respond", "fail", "over", "dead"}
         /\ UNCHANGED <<rows, shelf, key, answer, removing, history, faults>>
<1> USE ConversationsAssumption
<1> DEFINE j == job[t]
<1>1. j \in Job
  BY DEF TypeOK
<1>2. CASE Access(t) \/ Check(t)
  <2>1. PICK place \in {"touch", "fail", "generate"} : job' = [job EXCEPT ![t].at = place]
    BY <1>2 DEF Access, Check, To
  <2>2. [j EXCEPT !.at = place] \in Job /\ [j EXCEPT !.at = place].wrapped = j.wrapped
        /\ [j EXCEPT !.at = place].at = place
    BY <1>1, <2>1 DEF Job, TurnPlaces
  <2> QED
    BY <1>2, <2>1, <2>2 DEF Access, Check, TypeOK
<1>3. CASE Generate(t)
  <2> DEFINE i == [j EXCEPT !.at = "access", !.role = "assistant"]
  <2>1. i \in Job /\ i.wrapped = j.wrapped /\ i.at = "access"
    BY <1>1 DEF Job, TurnPlaces, Role
  <2>2. job' = [job EXCEPT ![t] = i]
    BY <1>3 DEF Generate, TypeOK
  <2> QED
    BY <1>3, <2>1, <2>2 DEF Generate
<1> QED
  BY <1>2, <1>3 DEF Thinks

-----------------------------------------------------------------------------
(* Types *)

\* A turn that is to mark its key, or has marked it, has one.
KeyInHand == \A t \in Turn : job[t].at = "mark" \/ job[t].wrapped => key[t] \in Key

\* Whoever has updated the conversation's row holds it until the end of its
\* transaction. TypeOK is not inductive without these two.
LockKept ==
  /\ \A t \in Turn : job[t].at = "commit" => rowLock = t
  /\ \A d \in Removal : removal[d] \in {"sweep", "end"} => rowLock = d

LEMMA TypeInit == Init => TypeOK /\ KeyInHand /\ LockKept
<1> SUFFICES ASSUME Init PROVE TypeOK /\ KeyInHand /\ LockKept
  OBVIOUS
<1>1. job \in [Turn -> Job] /\ \A t \in Turn : job[t].at = "idle" /\ ~job[t].wrapped
  BY IdleIsJob DEF Init, Idle
<1>2. faults \in 0..MaxFaults
  <2>1. MaxFaults \in Nat
    BY ConversationsAssumption, Zenon
  <2> QED
    BY <2>1 DEF Init
<1>3. /\ message \in [Row -> {"absent", "live", "deleted"}]
      /\ shelf \in [Key -> {None, InFlight} \cup Turn]
      /\ key \in [Turn -> Key \cup {None}]
      /\ answer \in [Turn -> {None, "created", "conflict", "error", "cut"} \cup Turn]
      /\ removal \in [Removal -> RemovalPlaces]
      /\ swept \in [Removal -> SUBSET Row]
  BY DEF Init, RemovalPlaces
<1> QED
  BY <1>1, <1>2, <1>3 DEF Init, TypeOK, KeyInHand, LockKept

\* What is on the shelf after an answer.
LEMMA ShelveTypes ==
  ASSUME TypeOK, KeyInHand, NEW t \in Turn, NEW what \in {None} \cup Turn, Shelve(t, what)
  PROVE  /\ shelf' \in [Key -> {None, InFlight} \cup Turn]
         /\ loose' \subseteq Key /\ orphan' \subseteq Key
         /\ faults' \in 0..MaxFaults
<1>1. MaxFaults \in Nat
  BY ConversationsAssumption, Zenon
<1>2. faults' \in 0..MaxFaults
  BY <1>1 DEF TypeOK, Shelve, Fault
<1> QED
  BY <1>2 DEF TypeOK, KeyInHand, Shelve

LEMMA TypeStep ==
  ASSUME TypeOK, KeyInHand, LockKept, [Next]_vars
  PROVE  TypeOK' /\ KeyInHand' /\ LockKept'
<1>0. /\ None \notin Turn /\ None \notin Removal /\ Turn \cap Removal = {}
      /\ InFlight \notin Turn
  BY ConversationsAssumption, Zenon DEF InFlight
<1>f. Fault => faults' \in 0..MaxFaults
  <2>1. MaxFaults \in Nat
    BY ConversationsAssumption, Zenon
  <2> QED
    BY <2>1 DEF TypeOK, Fault
<1> USE DEF TypeOK, KeyInHand, LockKept, Moves
<1>1. CASE UNCHANGED vars
  BY <1>1 DEF vars, rows, removing, history
<1>2. ASSUME NEW t \in Turn, Turns(t)
      PROVE  TypeOK' /\ KeyInHand' /\ LockKept'
  <2> USE DEF rows, removing, history
  <2>p. {"mark", "access", "touch", "commit", "check", "respond", "fail"} \subseteq TurnPlaces
    BY DEF TurnPlaces
  <2>1. CASE Arrive(t)
    BY <1>0, <2>1, ArriveMoves DEF Arrive
  <2>2. ASSUME NEW k \in Key, Look(t, k) PROVE TypeOK' /\ KeyInHand' /\ LockKept'
    <3>1. ASSUME NEW what \in {"conflict"} \cup Turn, Ends(t, what), UNCHANGED <<loose, faults>>
          PROVE  TypeOK' /\ KeyInHand' /\ LockKept'
      <4>1. Moves(t, "over", FALSE) /\ answer' = [answer EXCEPT ![t] = what]
        BY <3>1, EndsMoves
      <4>2. answer' \in [Turn -> {None, "created", "conflict", "error", "cut"} \cup Turn]
        BY <3>1, <4>1
      <4>3. key' \in [Turn -> Key \cup {None}] /\ \A u \in Turn \ {t} : key'[u] = key[u]
        BY <2>2 DEF Look
      <4> QED
        BY <1>0, <2>2, <3>1, <4>1, <4>2, <4>3 DEF Look
    <3>3. CASE /\ To(t, "mark")
               /\ loose' = loose \cup {key[u] : u \in {u \in Turn : job[u].at = "mark" /\ key[u] = k}}
               /\ UNCHANGED <<answer, faults>>
      BY <1>0, <2>2, <2>p, <3>3, ToMoves DEF Look
    <3>4. CASE Fault /\ To(t, "access") /\ loose' = loose \cup {k} /\ UNCHANGED answer
      BY <1>0, <1>f, <2>2, <2>p, <3>4, ToMoves DEF Look
    <3> QED
      BY <2>2, <3>1, <3>3, <3>4 DEF Look
  <2>3. CASE Mark(t)
    BY <1>0, <1>f, <2>3, MarkMoves DEF Mark
  <2>4. CASE Respond(t)
    <3>1. Moves(t, "over", FALSE) /\ answer' = [answer EXCEPT ![t] = "created"]
      BY <2>4, EndsMoves DEF Respond
    <3>2. answer' \in [Turn -> {None, "created", "conflict", "error", "cut"} \cup Turn]
      BY <3>1
    <3>3. Shelve(t, t)
      BY <2>4 DEF Respond
    <3> QED
      BY <1>0, <2>4, <3>1, <3>2, <3>3, ShelveTypes DEF Respond
  <2>5. CASE Refuse(t)
    <3>1. PICK said \in {"error", "cut"} :
            Moves(t, "over", FALSE) /\ answer' = [answer EXCEPT ![t] = said]
      BY <2>5, EndsMoves DEF Refuse
    <3>2. answer' \in [Turn -> {None, "created", "conflict", "error", "cut"} \cup Turn]
      BY <3>1
    <3>3. Shelve(t, None)
      BY <2>5 DEF Refuse
    <3> QED
      BY <1>0, <2>5, <3>1, <3>2, <3>3, ShelveTypes DEF Refuse
  <2>6. CASE Touch(t)
    BY <1>0, <2>6, <2>p, ToMoves DEF Touch
  <2>7. CASE Commit(t)
    <3>1. PICK place \in {"check", "respond", "fail"} : To(t, place)
      BY <2>7 DEF Commit
    <3>2. Moves(t, place, job[t].wrapped)
      BY <2>p, <3>1, ToMoves
    <3>3. faults' \in 0..MaxFaults
      BY <1>f, <2>7 DEF Commit
    <3>4. message' \in [Row -> {"absent", "live", "deleted"}] /\ late' \subseteq Row
      <4>1. [turn |-> t, role |-> job[t].role] \in Row
        BY DEF Row, Job
      <4> QED
        BY <2>7, <4>1 DEF Commit, Keep
    <3> QED
      BY <1>0, <2>7, <3>2, <3>3, <3>4 DEF Commit
  <2>8. CASE Thinks(t)
    BY <1>0, <2>8, ThinksMoves
  <2>9. CASE Reject(t)
    BY <1>0, <1>f, <2>9, <2>p, ToMoves DEF Reject
  <2> QED
    BY <1>2, <2>1, <2>2, <2>3, <2>4, <2>5, <2>6, <2>7, <2>8, <2>9 DEF Turns
<1>3. ASSUME NEW d \in Removal, Removes(d)
      PROVE  TypeOK' /\ KeyInHand' /\ LockKept'
  <2> USE DEF GoOn, RemovalPlaces, rows, removing, history
  <2>1. CASE BeginRemoval(d)
    BY <1>0, <2>1 DEF BeginRemoval
  <2>2. CASE Erase(d)
    BY <1>0, <2>2 DEF Erase
  <2>3. CASE Sweep(d)
    BY <1>0, <2>3 DEF Sweep
  <2>4. CASE EndRemoval(d)
    BY <1>0, <2>4 DEF EndRemoval
  <2>5. CASE RejectRemoval(d)
    BY <1>0, <1>f, <2>5 DEF RejectRemoval
  <2> QED
    BY <1>3, <2>1, <2>2, <2>3, <2>4, <2>5 DEF Removes
<1>4. ASSUME NEW k \in Key, Lapse(k)
      PROVE  TypeOK' /\ KeyInHand' /\ LockKept'
  BY <1>4 DEF Lapse, rows, removing
<1>5. CASE Restart
  <2>1. /\ job' \in [Turn -> Job]
        /\ \A t \in Turn : IF Under(t) THEN job'[t].at = "dead" /\ ~job'[t].wrapped
                                       ELSE job'[t] = job[t]
    <3> DEFINE j == [Idle EXCEPT !.at = "dead"]
    <3>1. j \in Job /\ j.at = "dead" /\ j.wrapped = FALSE
      BY IdleIsJob DEF Idle
    <3>2. job' = [t \in Turn |-> IF Under(t) THEN j ELSE job[t]]
      BY <1>5 DEF Restart
    <3> HIDE DEF j
    <3> QED
      BY <3>1, <3>2
  <2> QED
    BY <1>0, <1>f, <1>5, <2>1 DEF Restart, Under, Removing, RemovalPlaces
<1> QED
  BY <1>1, <1>2, <1>3, <1>4, <1>5, NextActors

-----------------------------------------------------------------------------
(* Deletes *)

\* A delete that has swept the messages ends with the same ones there are: while
\* it holds the conversation's row no turn commits. DeletesWhole is not
\* inductive without it.
SweptAll ==
  \A d \in Removal :
    /\ \A m \in swept[d] : message[m] # "absent"
    /\ removal[d] = "end" => \A m \in Row : message[m] = "live" => m \in swept[d] \cup late

LEMMA DeleteStep ==
  ASSUME TypeOK, LockKept, DeletesWhole, SweptAll, [Next]_vars
  PROVE  DeletesWhole' /\ SweptAll'
<1>0. None \notin Turn /\ None \notin Removal /\ Turn \cap Removal = {}
  BY ConversationsAssumption, Zenon
<1> USE DEF DeletesWhole, SweptAll
<1>1. CASE UNCHANGED <<conversation, message, removal, swept, late>>
  BY <1>1
<1>2. ASSUME NEW t \in Turn, Commit(t)
      PROVE  DeletesWhole' /\ SweptAll'
  <2>1. rowLock = t /\ \A d \in Removal : removal[d] # "end"
    BY <1>0, <1>2 DEF Commit, LockKept
  <2>2. [turn |-> t, role |-> job[t].role] \in Row
    BY <1>2 DEF TypeOK, Row, Job
  <2>3. UNCHANGED <<conversation, removal, swept>>
    BY <1>2 DEF Commit, removing
  <2> QED
    BY <1>2, <2>1, <2>2, <2>3 DEF Commit, Keep, TypeOK
<1>3. ASSUME NEW d \in Removal, Erase(d) \/ BeginRemoval(d)
      PROVE  DeletesWhole' /\ SweptAll'
  BY <1>3 DEF Erase, BeginRemoval, GoOn, TypeOK, rows, history
<1>4. ASSUME NEW d \in Removal, Sweep(d)
      PROVE  DeletesWhole' /\ SweptAll'
  BY <1>4 DEF Sweep, GoOn, TypeOK, rows, history
<1>5. ASSUME NEW d \in Removal, EndRemoval(d)
      PROVE  DeletesWhole' /\ SweptAll'
  <2>1. \A e \in Removal \ {d} : removal[e] # "end"
    BY <1>5 DEF EndRemoval, LockKept
  <2> QED
    BY <1>5, <2>1 DEF EndRemoval, GoOn, TypeOK, history
<1>6. ASSUME NEW d \in Removal, RejectRemoval(d)
      PROVE  DeletesWhole' /\ SweptAll'
  BY <1>6 DEF RejectRemoval, GoOn, TypeOK, history
<1>7. CASE Restart
  BY <1>7 DEF Restart, Removing, TypeOK
<1>8. ASSUME NEW t \in Turn, Turns(t), ~Commit(t)
      PROVE  UNCHANGED <<conversation, message, removal, swept, late>>
  <2>1. Thinks(t) => UNCHANGED <<conversation, message, removal, swept, late>>
    BY ThinksMoves DEF rows, removing, history
  <2> QED
    BY <1>8, <2>1 DEF Turns, Arrive, Look, Mark, Respond, Refuse, Touch, Reject,
       rows, removing, history
<1>9. ASSUME NEW k \in Key, Lapse(k)
      PROVE  UNCHANGED <<conversation, message, removal, swept, late>>
  BY <1>9 DEF Lapse, rows, removing
<1>10. UNCHANGED vars => UNCHANGED <<conversation, message, removal, swept, late>>
  BY DEF vars, rows, removing, history
<1> QED
  BY <1>1, <1>2, <1>3, <1>4, <1>5, <1>6, <1>7, <1>8, <1>9, <1>10, NextActors DEF Removes

-----------------------------------------------------------------------------
(* Keys *)

\* A turn comes with a key, is wrapped only between marking it and its answer,
\* and has an answer only when it is over.
WrappedOnTheWay ==
  \A t \in Turn :
    /\ job[t].at = "idle" => key[t] = None
    /\ job[t].wrapped => job[t].at \notin {"idle", "mark", "over", "dead"}
    /\ answer[t] # None <=> job[t].at = "over"

\* Only a turn that has been let through has a message, and it ends with an
\* answer of its own.
StoredOnTheWay ==
  \A t \in Turn : Stored(t, "user") =>
    /\ job[t].at \notin {"idle", "mark"}
    /\ job[t].at = "over" => answer[t] \in {"created", "error", "cut"}

\* While the protection of a key has not failed, no two turns with it are under
\* way: the one that is has found no entry and has not marked it yet, or has
\* marked it; and once a turn has succeeded its response stays on the shelf.
OneUnderWay ==
  \A k \in Key \ loose :
    /\ \A t \in Turn : key[t] = k /\ Under(t) =>
         \/ job[t].at = "mark" /\ shelf[k] = None
         \/ job[t].wrapped /\ shelf[k] = InFlight
    /\ \A t, u \in Turn : t # u /\ key[t] = k /\ key[u] = k => ~Under(t) \/ ~Under(u)
    /\ \A t \in Turn : key[t] = k /\ answer[t] = "created" => shelf[k] = t

KeyInv == MarkerHasOwner /\ WrappedOnTheWay /\ StoredOnTheWay /\ OneUnderWay

LEMMA KeyStep ==
  ASSUME TypeOK, KeyInHand, SweptAll, KeyInv, [Next]_vars
  PROVE  KeyInv'
<1>0. /\ None \notin Turn /\ None \notin Key /\ InFlight \notin Turn /\ None # InFlight
      /\ {"created", "error", "cut", "conflict"} \cap Turn = {}
      /\ None \notin {"created", "conflict", "error", "cut"}
  BY ConversationsAssumption, Zenon DEF InFlight
<1> USE DEF KeyInv, MarkerHasOwner, WrappedOnTheWay, StoredOnTheWay, OneUnderWay, Under, Stored
<1>1. CASE UNCHANGED <<message, shelf, key, job, answer, loose, orphan>>
  BY <1>1
<1>2. ASSUME NEW t \in Turn, NEW place \in TurnPlaces, Moves(t, place, job[t].wrapped),
             job[t].at \notin {"idle", "mark", "over", "dead"},
             place \notin {"idle", "mark", "over", "dead"},
             UNCHANGED <<message, shelf, key, answer, loose, orphan>>
      PROVE  KeyInv'
  <2>1. /\ \A u \in Turn : /\ job'[u].wrapped = job[u].wrapped
                          /\ \A p \in {"idle", "mark", "over", "dead"} :
                               job'[u].at = p <=> job[u].at = p
        /\ UNCHANGED <<message, shelf, key, answer, loose, orphan>>
    BY <1>2 DEF Moves
  <2>2. MarkerHasOwner' /\ WrappedOnTheWay' /\ StoredOnTheWay'
    BY <2>1
  <2>3. OneUnderWay'
    BY <2>1
  <2> QED
    BY <2>2, <2>3
<1>3. ASSUME NEW t \in Turn, Arrive(t) PROVE KeyInv'
  <2>1. /\ job[t].at = "idle" /\ key[t] = None /\ job'[t].at = "access"
        /\ job'[t].wrapped = job[t].wrapped /\ \A u \in Turn \ {t} : job'[u] = job[u]
        /\ UNCHANGED <<message, shelf, key, answer, loose, orphan>>
    BY <1>3, ArriveMoves DEF Arrive, Moves, rows, history
  <2>2. MarkerHasOwner' /\ WrappedOnTheWay' /\ StoredOnTheWay'
    BY <1>0, <2>1
  <2>3. OneUnderWay'
    BY <1>0, <2>1
  <2> QED
    BY <2>2, <2>3
<1>4. ASSUME NEW t \in Turn, NEW k \in Key, Look(t, k) PROVE KeyInv'
  <2>1. /\ key' = [key EXCEPT ![t] = k] /\ job[t].at = "idle" /\ ~job[t].wrapped
        /\ UNCHANGED <<message, shelf, orphan>>
    BY <1>4 DEF Look, rows
  <2>2. ASSUME NEW what \in {"conflict"} \cup Turn, Ends(t, what), UNCHANGED loose
        PROVE  KeyInv'
    <3>1. Moves(t, "over", FALSE) /\ answer' = [answer EXCEPT ![t] = what]
      BY <2>2, EndsMoves
    <3> QED
      BY <1>0, <2>1, <2>2, <3>1 DEF Moves, TypeOK
  <2>3. CASE /\ shelf[k] = None /\ To(t, "mark")
             /\ loose' = loose \cup {key[u] : u \in {u \in Turn : job[u].at = "mark" /\ key[u] = k}}
             /\ UNCHANGED answer
    <3>1. Moves(t, "mark", job[t].wrapped)
      BY <2>3, ToMoves DEF TurnPlaces
    <3>2. loose \subseteq loose'
          /\ (k \notin loose' => \A u \in Turn : key[u] = k => job[u].at # "mark")
      BY <2>3
    <3>3. k \notin loose' => \A u \in Turn : key[u] = k => ~Under(u)
      BY <1>0, <2>3, <3>2
    <3> QED
      <4>1. MarkerHasOwner' /\ WrappedOnTheWay' /\ StoredOnTheWay'
        BY <1>0, <2>1, <2>3, <3>1 DEF Moves, TypeOK
      <4>2. OneUnderWay'
        BY <1>0, <2>1, <2>3, <3>1, <3>2, <3>3 DEF Moves, TypeOK
      <4> QED
        BY <4>1, <4>2
  <2>4. CASE To(t, "access") /\ loose' = loose \cup {k} /\ UNCHANGED answer
    <3>1. Moves(t, "access", job[t].wrapped)
      BY <2>4, ToMoves DEF TurnPlaces
    <3> QED
      BY <1>0, <2>1, <2>4, <3>1 DEF Moves, TypeOK
  <2> QED
    BY <1>4, <2>2, <2>3, <2>4 DEF Look
<1>5. ASSUME NEW t \in Turn, Mark(t) PROVE KeyInv'
  <2>1. /\ job[t].at = "mark" /\ key[t] \in Key
        /\ UNCHANGED <<message, key, answer>>
    BY <1>5 DEF Mark, KeyInHand, rows
  <2> QED
    <3>1. CASE /\ Moves(t, "access", TRUE)
               /\ shelf' = [shelf EXCEPT ![key[t]] = InFlight]
               /\ UNCHANGED <<loose, orphan>>
      <4>0. /\ job'[t].at = "access" /\ job'[t].wrapped
            /\ \A u \in Turn \ {t} : job'[u] = job[u]
            /\ \A k \in Key : shelf'[k] = IF k = key[t] THEN InFlight ELSE shelf[k]
        BY <2>1, <3>1 DEF Moves, TypeOK
      <4>1. MarkerHasOwner' /\ WrappedOnTheWay' /\ StoredOnTheWay'
        <5>1. MarkerHasOwner'
          BY <2>1, <3>1, <4>0
        <5>2. WrappedOnTheWay'
          BY <1>0, <2>1, <4>0
        <5>3. StoredOnTheWay'
          BY <2>1, <4>0
        <5> QED
          BY <5>1, <5>2, <5>3
      <4>2. OneUnderWay'
        BY <1>0, <2>1, <3>1 DEF Moves, TypeOK
      <4> QED
        BY <4>1, <4>2
    <3>2. CASE /\ Moves(t, "access", job[t].wrapped)
               /\ \/ /\ shelf' = [shelf EXCEPT ![key[t]] = InFlight]
                     /\ orphan' = orphan \cup {key[t]}
                  \/ UNCHANGED <<shelf, orphan>>
               /\ loose' = loose \cup {key[t]}
      <4>1. MarkerHasOwner' /\ WrappedOnTheWay' /\ StoredOnTheWay'
        BY <1>0, <2>1, <3>2 DEF Moves, TypeOK
      <4>2. OneUnderWay'
        BY <1>0, <2>1, <3>2 DEF Moves, TypeOK
      <4> QED
        BY <4>1, <4>2
    <3> QED
      BY <1>5, <3>1, <3>2, MarkMoves
<1>6. ASSUME NEW t \in Turn, NEW what \in {None, t}, NEW said \in {"created", "error", "cut"},
             Ends(t, said), Shelve(t, what), what = t <=> said = "created",
             Under(t), job[t].at # "mark", UNCHANGED <<message, key>>
      PROVE  KeyInv'
  <2>1. Moves(t, "over", FALSE) /\ answer' = [answer EXCEPT ![t] = said]
    <3>1. Ends(t, said)
      BY <1>6
    <3> QED
      BY <3>1, EndsMoves
  <2>2. CASE job[t].wrapped
    <3>1. MarkerHasOwner' /\ WrappedOnTheWay' /\ StoredOnTheWay'
      BY <1>0, <1>6, <2>1, <2>2 DEF Moves, Shelve, TypeOK, KeyInHand
    <3>2. OneUnderWay'
      BY <1>0, <1>6, <2>1, <2>2 DEF Moves, Shelve, TypeOK, KeyInHand
    <3> QED
      BY <3>1, <3>2
  <2>3. CASE ~job[t].wrapped
    BY <1>0, <1>6, <2>1, <2>3 DEF Moves, Shelve, TypeOK
  <2> QED
    BY <2>2, <2>3
<1>7. ASSUME NEW t \in Turn, Respond(t) \/ Refuse(t) PROVE KeyInv'
  BY <1>0, <1>6, <1>7 DEF Respond, Refuse, rows
<1>8. ASSUME NEW t \in Turn, Commit(t) PROVE KeyInv'
  <2>1. PICK place \in {"check", "respond", "fail"} : To(t, place)
    BY <1>8 DEF Commit
  <2>2. Moves(t, place, job[t].wrapped)
    BY <2>1, ToMoves DEF TurnPlaces
  <2>3. UNCHANGED <<shelf, key, answer, loose, orphan>>
    BY <1>8 DEF Commit
  <2>5. \A m \in Row : m # [turn |-> t, role |-> job[t].role] => message'[m] = message[m]
    BY <1>8 DEF Commit, Keep, TypeOK
  <2>4. \A u \in Turn \ {t} : Stored(u, "user")' <=> Stored(u, "user")
    <3>1. \A u \in Turn \ {t} :
            [turn |-> u, role |-> "user"] # [turn |-> t, role |-> job[t].role]
      OBVIOUS
    <3>2. \A u \in Turn : [turn |-> u, role |-> "user"] \in Row
      BY DEF Row, Role
    <3> QED
      BY <1>8, <3>1, <3>2, <2>5
  <2> QED
    BY <1>8, <2>2, <2>3, <2>4 DEF Moves, Commit
<1>9. ASSUME NEW t \in Turn, Thinks(t) PROVE KeyInv'
  <2>1. PICK j \in Job : /\ job' = [job EXCEPT ![t] = j] /\ j.wrapped = job[t].wrapped
                         /\ j.at \notin {"idle", "mark", "commit", "over", "dead"}
    BY <1>9, ThinksMoves
  <2>2. Moves(t, j.at, job[t].wrapped) /\ j.at \in TurnPlaces
    BY <2>1, JobFields DEF Moves, TypeOK
  <2>3. /\ job[t].at \notin {"idle", "mark", "over", "dead"}
        /\ UNCHANGED <<message, shelf, key, answer, loose, orphan>>
    BY <1>9, ThinksMoves DEF rows, history
  <2> QED
    BY <1>2, <2>1, <2>2, <2>3
<1>10. ASSUME NEW t \in Turn, Touch(t) \/ Reject(t) PROVE KeyInv'
  <2>1. PICK place \in {"commit", "fail"} : To(t, place)
    BY <1>10 DEF Touch, Reject
  <2>2. Moves(t, place, job[t].wrapped)
    BY <2>1, ToMoves DEF TurnPlaces
  <2>3. /\ job[t].at \notin {"idle", "mark", "over", "dead"}
        /\ UNCHANGED <<message, shelf, key, answer, loose, orphan>>
    BY <1>10 DEF Touch, Reject, rows, history
  <2> QED
    BY <1>2, <2>2, <2>3 DEF TurnPlaces
<1>11. ASSUME NEW d \in Removal, Removes(d) PROVE KeyInv'
  <2>1. UNCHANGED <<shelf, key, job, answer, loose, orphan>>
    BY <1>11 DEF Removes, BeginRemoval, Erase, Sweep, EndRemoval, RejectRemoval, history
  <2>2. \A m \in Row : message'[m] # "absent" <=> message[m] # "absent"
    BY <1>11 DEF Removes, BeginRemoval, Erase, Sweep, EndRemoval, RejectRemoval,
       SweptAll, TypeOK, rows
  <2>3. \A t \in Turn : [turn |-> t, role |-> "user"] \in Row
    BY DEF Row, Role
  <2> QED
    BY <2>1, <2>2, <2>3
<1>12. ASSUME NEW k \in Key, Lapse(k) PROVE KeyInv'
  BY <1>0, <1>12 DEF Lapse, TypeOK, rows
<1>13. CASE Restart
  <2>1. /\ UNCHANGED <<message, shelf, key, answer, loose>>
        /\ orphan' = orphan \cup {k \in Key : shelf[k] = InFlight}
    BY <1>13 DEF Restart
  <2>2. \A t \in Turn : IF Under(t) THEN job'[t].at = "dead" /\ ~job'[t].wrapped
                                   ELSE job'[t] = job[t]
    <3> DEFINE j == [Idle EXCEPT !.at = "dead"]
    <3>1. j.at = "dead" /\ j.wrapped = FALSE
      BY DEF Idle
    <3>2. job' = [t \in Turn |-> IF Under(t) THEN j ELSE job[t]]
      BY <1>13 DEF Restart
    <3> HIDE DEF j
    <3> QED
      BY <3>1, <3>2
  <2> QED
    BY <1>0, <2>1, <2>2
<1>14. UNCHANGED vars => UNCHANGED <<message, shelf, key, job, answer, loose, orphan>>
  BY DEF vars, rows, history
<1> QED
  BY <1>1, <1>3, <1>4, <1>5, <1>7, <1>8, <1>9, <1>10, <1>11, <1>12, <1>13, <1>14,
     NextActors DEF Turns

LEMMA KeyInvRunsOnce == TypeOK /\ KeyInv => RunsOncePerKey
<1> SUFFICES ASSUME TypeOK, KeyInv, NEW t \in Turn, NEW u \in Turn,
                    t # u, key[t] = key[u], key[t] \in Key \ loose,
                    Stored(t, "user"), Stored(u, "user")
             PROVE  \E v \in {t, u} : Failed(v)
  BY DEF RunsOncePerKey
<1>1. \A v \in {t, u} : Under(v) \/ job[v].at = "dead" \/ answer[v] \in {"created", "error", "cut"}
  BY DEF KeyInv, StoredOnTheWay, Under
<1>2. ~Under(t) \/ ~Under(u)
  BY DEF KeyInv, OneUnderWay
<1>3. None \notin Turn /\ InFlight \notin Turn
  BY ConversationsAssumption, Zenon DEF InFlight
<1> QED
  BY <1>1, <1>2, <1>3 DEF KeyInv, OneUnderWay, Failed

-----------------------------------------------------------------------------
(* The theorems *)

IInv ==
  /\ TypeOK /\ KeyInHand /\ LockKept
  /\ DeletesWhole /\ SweptAll
  /\ KeyInv

LEMMA IInvInductive == (Init => IInv) /\ (IInv /\ [Next]_vars => IInv')
<1>1. ASSUME Init PROVE IInv
  <2>1. TypeOK /\ KeyInHand /\ LockKept
    BY <1>1, TypeInit
  <2>2. DeletesWhole /\ SweptAll
    BY <1>1 DEF Init, DeletesWhole, SweptAll
  <2>3. KeyInv
    <3>1. \A t \in Turn : job[t].at = "idle" /\ ~job[t].wrapped
      BY <1>1 DEF Init, Idle
    <3>2. None # InFlight /\ None # "created"
      BY ConversationsAssumption, Zenon DEF InFlight
    <3>3. \A t \in Turn : [turn |-> t, role |-> "user"] \in Row
      BY DEF Row, Role
    <3> QED
      BY <1>1, <3>1, <3>2, <3>3 DEF Init, KeyInv, MarkerHasOwner, WrappedOnTheWay,
         StoredOnTheWay, OneUnderWay, Under, Stored
  <2> QED
    BY <2>1, <2>2, <2>3 DEF IInv
<1>2. ASSUME IInv, [Next]_vars PROVE IInv'
  BY <1>2, TypeStep, DeleteStep, KeyStep DEF IInv
<1> QED
  BY <1>1, <1>2

LEMMA IInvAlways == Spec => []IInv
  BY IInvInductive, PTL DEF Spec

\* The rows, keys, turns and deletes keep their types, and only a transaction
\* between its update and its end holds the conversation's row.
\* (Conversations.tla)
THEOREM TypesKept == Spec => []TypeOK
<1>1. IInv => TypeOK
  BY DEF IInv
<1> QED
  BY <1>1, IInvAlways, PTL

\* A delete takes every message committed before it along, however many turns
\* and deletes overlap, roll back or are cut off. (deleteConversation)
THEOREM DeletedWhole == Spec => []DeletesWhole
<1>1. IInv => DeletesWhole
  BY DEF IInv
<1> QED
  BY <1>1, IInvAlways, PTL

\* Clients are told that their request is in flight only while one with that
\* key is, or after one that was cut off. (idempotency)
THEOREM MarkersOwned == Spec => []MarkerHasOwner
<1>1. IInv => MarkerHasOwner
  BY DEF IInv, KeyInv
<1> QED
  BY <1>1, IInvAlways, PTL

\* Of the requests with one key only one goes through, unless it failed or the
\* protection of the key did. (idempotency)
THEOREM OncePerKey == Spec => []RunsOncePerKey
<1>1. IInv => RunsOncePerKey
  BY KeyInvRunsOnce DEF IInv
<1> QED
  BY <1>1, IInvAlways, PTL
=============================================================================
