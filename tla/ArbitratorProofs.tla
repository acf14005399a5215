-------------------------- MODULE ArbitratorProofs --------------------------
(***************************************************************************)
(* What Arbitrator.tla promises for every set of webhooks and every number *)
(* of faults.                                                              *)
(***************************************************************************)
EXTENDS Arbitrator, TLAPS

\* The actions of one conflict, the mistaken ones left out.
Moves(c) ==
  \/ Record(c) \/ Push(c) \/ Reject(c) \/ Get(c) \/ Ask(c) \/ AskOllama(c)
  \/ Count(c) \/ Reread(c) \/ Write(c) \/ TakeOff(c) \/ Post(c)
  \/ ReadNext(c) \/ DropRecord(c)

\* Next, one conflict at a time.
LEMMA NextMoves ==
  ASSUME Next
  PROVE  \/ \E c \in Conflict : Moves(c)
         \/ BeginListing \/ EndListing \/ DropList \/ Restart
  BY DEF Next, Handle, Moves

-----------------------------------------------------------------------------
(* Types *)

\* Before its webhook has come to the model, a record is not settled. TypeOK
\* is not inductive without it.
NotBefore == \A c \in Conflict : at[c] \in {"idle", "push"} => record[c] # "resolved"

LEMMA TypeInit == Init => TypeOK /\ NotBefore
  BY ArbitratorAssumption
  DEF Init, TypeOK, NotBefore, Desk, Free, Places, Resolving

LEMMA TypeStep ==
  ASSUME TypeOK, NotBefore, [Next]_vars
  PROVE  TypeOK' /\ NotBefore'
<1> USE ArbitratorAssumption
<1>1. CASE UNCHANGED vars
  BY <1>1 DEF TypeOK, NotBefore, Resolving, vars, redis, history
<1>2. ASSUME NEW c \in Conflict, Moves(c)
      PROVE  TypeOK' /\ NotBefore'
  <2> USE DEF TypeOK, NotBefore, Resolving, Places, To, Set, Fault, redis, history
  <2>1. CASE Record(c)
    BY <2>1 DEF Record
  <2>2. CASE Push(c)
    BY <2>2 DEF Push
  <2>3. CASE Reject(c)
    BY <2>3 DEF Reject
  <2>4. CASE Get(c)
    BY <2>4 DEF Get
  <2>5. CASE Ask(c)
    BY <2>5 DEF Ask, Answered
  <2>6. CASE AskOllama(c)
    BY <2>6 DEF AskOllama, Answered
  <2>7. CASE Count(c)
    BY <2>7 DEF Count
  <2>8. CASE Reread(c)
    BY <2>8 DEF Reread, Verdict
  <2>9. CASE Write(c)
    BY <2>9 DEF Write
  <2>10. CASE TakeOff(c)
    BY <2>10 DEF TakeOff, Verdict
  <2>11. CASE Post(c)
    BY <2>11 DEF Post
  <2>12. CASE ReadNext(c)
    BY <2>12 DEF ReadNext, Desk
  <2>13. CASE DropRecord(c)
    BY <2>13 DEF DropRecord
  <2> QED
    BY <1>2, <2>1, <2>2, <2>3, <2>4, <2>5, <2>6, <2>7, <2>8, <2>9, <2>10,
       <2>11, <2>12, <2>13 DEF Moves
<1>3. CASE BeginListing
  BY <1>3 DEF BeginListing, TypeOK, NotBefore, Resolving, Desk, redis, history
<1>4. CASE EndListing
  <2>1. desk' \in Desk
    <3>1. desk \in Desk /\ Free \in Desk
      BY DEF TypeOK, Desk, Free
    <3>2. [desk EXCEPT !.busy = FALSE] \in Desk
      BY <3>1 DEF Desk
    <3> QED
      BY <1>4, <3>1, <3>2 DEF EndListing
  <2>2. faults' \in 0..MaxFaults
    BY <1>4 DEF EndListing, TypeOK, Fault
  <2> QED
    BY <1>4, <2>1, <2>2 DEF EndListing, TypeOK, NotBefore, Resolving, redis, history
<1>5. CASE DropList
  BY <1>5 DEF DropList, TypeOK, NotBefore, Resolving
<1>6. CASE Restart
  BY <1>6 DEF Restart, TypeOK, NotBefore, Resolving, Desk, Free, Fault, Places, Under, redis
<1> QED
  BY <1>1, <1>2, <1>3, <1>4, <1>5, <1>6, NextMoves

-----------------------------------------------------------------------------
(* The list and the records *)

\* Whoever is about to take a conflict off the list has settled its record.
\* ListMatchesRecords is not inductive without it.
TakenOffOnceSettled == \A c \in Conflict : at[c] = "takeoff" => record[c] # "pending"

LEMMA ListStep ==
  ASSUME TypeOK, NotBefore, ListMatchesRecords, TakenOffOnceSettled, [Next]_vars
  PROVE  ListMatchesRecords' /\ TakenOffOnceSettled'
<1> USE ArbitratorAssumption DEF TypeOK, ListMatchesRecords, TakenOffOnceSettled
<1>1. CASE UNCHANGED vars
  BY <1>1 DEF vars, redis, history
<1>2. ASSUME NEW c \in Conflict, Moves(c)
      PROVE  ListMatchesRecords' /\ TakenOffOnceSettled'
  <2> USE DEF To, Set, redis, history
  <2>1. CASE Record(c)
    BY <2>1 DEF Record
  <2>2. CASE Push(c)
    BY <2>2 DEF Push, NotBefore
  <2>3. CASE Reject(c)
    BY <2>3 DEF Reject
  <2>4. CASE Get(c) \/ Ask(c) \/ AskOllama(c) \/ Count(c) \/ Reread(c)
    BY <2>4 DEF Get, Ask, AskOllama, Count, Reread, Verdict
  <2>5. CASE Write(c)
    BY <2>5 DEF Write
  <2>6. CASE TakeOff(c)
    BY <2>6 DEF TakeOff, Verdict
  <2>7. CASE Post(c)
    BY <2>7 DEF Post
  <2>8. CASE ReadNext(c)
    BY <2>8 DEF ReadNext
  <2>9. CASE DropRecord(c)
    BY <2>9 DEF DropRecord
  <2> QED
    BY <1>2, <2>1, <2>2, <2>3, <2>4, <2>5, <2>6, <2>7, <2>8, <2>9 DEF Moves
<1>3. CASE BeginListing \/ EndListing
  BY <1>3 DEF BeginListing, EndListing, redis, history
<1>4. CASE DropList
  BY <1>4 DEF DropList
<1>5. CASE Restart
  BY <1>5 DEF Restart, Under, redis
<1> QED
  BY <1>1, <1>2, <1>3, <1>4, <1>5, NextMoves

-----------------------------------------------------------------------------
(* The comments *)

\* What a webhook knows of its record while it is on its way to the comment:
\* the record is there unless Redis has dropped it, is resolved once the
\* resolution is told, and is not if none is. CommentTellsRecord is not
\* inductive without it.
OnTheWay ==
  \A c \in Conflict :
    /\ said[c] # None => at[c] = "over"
    /\ at[c] = "push" \/ Resolving(c) => record[c] # None \/ c \in lost
    /\ at[c] \in {"takeoff", "resolved"} => record[c] = "resolved" \/ c \in lost
    /\ at[c] = "resolved" => c \notin blank
    /\ at[c] = "unable" => record[c] # "resolved" \/ c \in stranded \cup blank

LEMMA CommentStep ==
  ASSUME TypeOK, CommentTellsRecord, OnTheWay, [Next]_vars
  PROVE  CommentTellsRecord' /\ OnTheWay'
<1> USE ArbitratorAssumption DEF TypeOK, CommentTellsRecord, OnTheWay, Resolving
<1>1. CASE UNCHANGED vars
  BY <1>1 DEF vars, redis, history
<1>2. ASSUME NEW c \in Conflict, Moves(c)
      PROVE  CommentTellsRecord' /\ OnTheWay'
  <2> USE DEF To, Set, redis, history
  <2>1. CASE Record(c)
    BY <2>1 DEF Record
  <2>2. CASE Push(c)
    BY <2>2 DEF Push
  <2>3. CASE Reject(c)
    BY <2>3 DEF Reject
  <2>4. CASE Get(c) \/ Ask(c) \/ AskOllama(c) \/ Count(c)
    BY <2>4 DEF Get, Ask, AskOllama, Count, Answered
  <2>5. CASE Reread(c)
    BY <2>5 DEF Reread, Verdict
  <2>6. CASE Write(c)
    BY <2>6 DEF Write
  <2>7. CASE TakeOff(c)
    BY <2>7 DEF TakeOff, Verdict
  <2>8. CASE Post(c)
    BY <2>8 DEF Post
  <2>9. CASE ReadNext(c)
    BY <2>9 DEF ReadNext
  <2>10. CASE DropRecord(c)
    BY <2>10 DEF DropRecord
  <2> QED
    BY <1>2, <2>1, <2>2, <2>3, <2>4, <2>5, <2>6, <2>7, <2>8, <2>9, <2>10 DEF Moves
<1>3. CASE BeginListing \/ EndListing
  BY <1>3 DEF BeginListing, EndListing, redis, history
<1>4. CASE DropList
  BY <1>4 DEF DropList
<1>5. CASE Restart
  BY <1>5 DEF Restart, Under, redis
<1> QED
  BY <1>1, <1>2, <1>3, <1>4, <1>5, NextMoves

-----------------------------------------------------------------------------
(* The listings *)

\* A listing has only the ids to read that it may show, and the conflicts due
\* were recorded before it began. ListingIsJust is not inductive without it.
ReadsTheDue ==
  /\ desk.busy => desk.todo \subseteq desk.due \cup stranded
  /\ \A c \in desk.due : at[c] \notin {"idle", "push"}

LEMMA ListingStep ==
  ASSUME TypeOK, ListMatchesRecords, ListingIsJust, ReadsTheDue, [Next]_vars
  PROVE  ListingIsJust' /\ ReadsTheDue'
<1> USE ArbitratorAssumption DEF TypeOK, Desk, ListingIsJust, ReadsTheDue
<1>1. CASE UNCHANGED vars
  BY <1>1 DEF vars, redis, history
<1>2. ASSUME NEW c \in Conflict, Moves(c)
      PROVE  ListingIsJust' /\ ReadsTheDue'
  <2> USE DEF To, Set, redis, history
  <2>1. CASE Record(c)
    BY <2>1 DEF Record
  <2>2. CASE Push(c)
    BY <2>2 DEF Push
  <2>3. CASE Reject(c)
    BY <2>3 DEF Reject
  <2>4. CASE Get(c) \/ Ask(c) \/ AskOllama(c) \/ Count(c) \/ Reread(c)
    BY <2>4 DEF Get, Ask, AskOllama, Count, Reread, Verdict
  <2>5. CASE Write(c)
    BY <2>5 DEF Write
  <2>6. CASE TakeOff(c)
    BY <2>6 DEF TakeOff, Verdict
  <2>7. CASE Post(c)
    BY <2>7 DEF Post
  <2>8. CASE ReadNext(c)
    BY <2>8 DEF ReadNext
  <2>9. CASE DropRecord(c)
    BY <2>9 DEF DropRecord
  <2> QED
    BY <1>2, <2>1, <2>2, <2>3, <2>4, <2>5, <2>6, <2>7, <2>8, <2>9 DEF Moves
<1>3. CASE BeginListing
  BY <1>3 DEF BeginListing, ListMatchesRecords, redis, history
<1>4. CASE EndListing
  BY <1>4 DEF EndListing, Free, redis, history
<1>5. CASE DropList
  BY <1>5 DEF DropList
<1>6. CASE Restart
  BY <1>6 DEF Restart, Under, Free, redis
<1> QED
  BY <1>1, <1>2, <1>3, <1>4, <1>5, <1>6, NextMoves

-----------------------------------------------------------------------------
(* The theorems *)

IInv ==
  /\ TypeOK /\ NotBefore
  /\ ListMatchesRecords /\ TakenOffOnceSettled
  /\ CommentTellsRecord /\ OnTheWay
  /\ ListingIsJust /\ ReadsTheDue

LEMMA IInvInductive == (Init => IInv) /\ (IInv /\ [Next]_vars => IInv')
<1>1. ASSUME Init PROVE IInv
  <2>1. TypeOK /\ NotBefore
    BY <1>1, TypeInit
  <2>2. ListMatchesRecords /\ TakenOffOnceSettled
    BY <1>1, ArbitratorAssumption DEF Init, ListMatchesRecords, TakenOffOnceSettled
  <2>3. CommentTellsRecord /\ OnTheWay
    BY <1>1, ArbitratorAssumption DEF Init, CommentTellsRecord, OnTheWay, Resolving
  <2>4. ListingIsJust /\ ReadsTheDue
    BY <1>1 DEF Init, ListingIsJust, ReadsTheDue, Free
  <2> QED
    BY <2>1, <2>2, <2>3, <2>4 DEF IInv
<1>2. ASSUME IInv, [Next]_vars PROVE IInv'
  BY <1>2, TypeStep, ListStep, CommentStep, ListingStep DEF IInv
<1> QED
  BY <1>1, <1>2

LEMMA IInvAlways == Spec => []IInv
  BY IInvInductive, PTL DEF Spec

\* The keys of Redis, the awaits of webhooks and listings keep their types; a
\* record is settled only after a model has answered. (Arbitrator.tla)
THEOREM TypesKept == Spec => []TypeOK
<1>1. IInv => TypeOK
  BY DEF IInv
<1> QED
  BY <1>1, IInvAlways, PTL

\* A conflict waiting for its resolution is on the list and a settled one off
\* it, unless a fault has come between the two commands that keep them so.
\* (recordConflict, updateConflictStatus)
THEOREM ListAndRecordsAgree == Spec => []ListMatchesRecords
<1>1. IInv => ListMatchesRecords
  BY DEF IInv
<1> QED
  BY <1>1, IInvAlways, PTL

\* The pull request is told of a resolution that is recorded, or was until
\* Redis dropped it, and of none only if none is recorded, the commands of the
\* update failed, or the model's answer was null. (handlePullRequest,
\* resolveConflict)
THEOREM CommentsAreTrue == Spec => []CommentTellsRecord
<1>1. IInv => CommentTellsRecord
  BY DEF IInv
<1> QED
  BY <1>1, IInvAlways, PTL

\* A listing shows nothing that had been settled before it began, and nothing
\* that has been waiting all along is missing. (getPendingConflicts)
THEOREM ListingsAreJust == Spec => []ListingIsJust
<1>1. IInv => ListingIsJust
  BY DEF IInv
<1> QED
  BY <1>1, IInvAlways, PTL
=============================================================================
