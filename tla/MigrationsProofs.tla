-------------------------- MODULE MigrationsProofs --------------------------
(***************************************************************************)
(* What Migrations.tla promises for every set of processes, every number   *)
(* of migrations and every bound on retries, faults and crashes.           *)
(***************************************************************************)
EXTENDS Migrations, TLAPS

\* The actions of a process, the mistaken ones left out.
Moves(p) ==
  \/ Start(p) \/ TakeLock(p) \/ Release(p) \/ Crash(p)
  \/ ListPending(p) \/ ListExecuted(p)

MovesOn(p, v) ==
  \/ RunSql(p, v) \/ Record(p, v) \/ NoteFailure(p, v)
  \/ UndoSql(p, v) \/ MarkRolledBack(p, v)

\* Next, one process and at most one version at a time.
LEMMA NextMoves ==
  ASSUME Next
  PROVE  \E p \in Process : Moves(p) \/ \E v \in Version : MovesOn(p, v)
  BY DEF Next, Step, Moves, MovesOn

-----------------------------------------------------------------------------
(* Types *)

\* Every action of the manager keeps the types of its tables and program
\* points.
LEMMA TypeStep ==
  ASSUME TypeOK, [Next]_vars
  PROVE  TypeOK'
<1> USE MigrationsAssumption
<1>1. CASE UNCHANGED vars
  BY <1>1 DEF TypeOK, vars, database, process
<1>2. ASSUME NEW p \in Process, Moves(p)
      PROVE  TypeOK'
  <2> USE DEF TypeOK, Goto, Fault, database, Active, Holding
  <2>1. CASE Start(p)
    BY <2>1 DEF Start
  <2>2. CASE TakeLock(p)
    <3>1. CASE lock = Nobody /\ lock' = p /\ pc' = [pc EXCEPT ![p] = "list"]
               /\ tries' = [tries EXCEPT ![p] = 0] /\ UNCHANGED faults
      BY <2>2, <3>1 DEF TakeLock
    <3>2. CASE /\ tries[p] + 1 < MaxTries
               /\ tries' = [tries EXCEPT ![p] = @ + 1]
               /\ UNCHANGED <<lock, pc, faults>>
      <4>1. tries[p] + 1 \in 0..(MaxTries - 1)
        BY <3>2
      <4> QED
        BY <2>2, <3>2, <4>1 DEF TakeLock
    <3>3. CASE /\ UNCHANGED faults \/ (faults < MaxFaults /\ faults' = faults + 1)
               /\ pc' = [pc EXCEPT ![p] = "release"]
               /\ tries' = [tries EXCEPT ![p] = 0]
               /\ UNCHANGED lock
      BY <2>2, <3>3 DEF TakeLock
    <3> QED
      BY <2>2, <3>1, <3>2, <3>3 DEF TakeLock
  <2>3. CASE Release(p)
    BY <2>3 DEF Release
  <2>4. CASE Crash(p)
    BY <2>4 DEF Crash
  <2>5. CASE ListPending(p)
    BY <2>5 DEF ListPending, Proceed
  <2>6. CASE ListExecuted(p)
    <3>1. Known \subseteq Version
      BY DEF Known, Executed
    <3> QED
      BY <2>6, <3>1 DEF ListExecuted, Proceed
  <2> QED
    BY <1>2, <2>1, <2>2, <2>3, <2>4, <2>5, <2>6 DEF Moves
<1>3. ASSUME NEW p \in Process, NEW v \in Version, MovesOn(p, v)
      PROVE  TypeOK'
  <2> USE DEF TypeOK, Goto, Fault, database, Active, Holding
  <2>1. CASE RunSql(p, v)
    BY <2>1 DEF RunSql, Proceed
  <2>2. CASE Record(p, v)
    BY <2>2 DEF Record, Proceed
  <2>3. CASE NoteFailure(p, v)
    BY <2>3 DEF NoteFailure
  <2>4. CASE UndoSql(p, v)
    BY <2>4 DEF UndoSql
  <2>5. CASE MarkRolledBack(p, v)
    BY <2>5 DEF MarkRolledBack, Proceed
  <2> QED
    BY <1>3, <2>1, <2>2, <2>3, <2>4, <2>5 DEF MovesOn
<1> QED
  BY <1>1, <1>2, <1>3, NextMoves

\* The types hold to begin with.
LEMMA TypeInit ==
  ASSUME Init
  PROVE  TypeOK
  BY MigrationsAssumption DEF Init, TypeOK, Active, Holding

\* The manager's tables, lock row and program points keep their types; in
\* particular acquireLock never counts more than maxRetries attempts.
\* (acquireLock, migrate, rollback)
THEOREM TypesKept == Spec => []TypeOK
  BY TypeInit, TypeStep, PTL DEF Spec

-----------------------------------------------------------------------------
(* The bookkeeping *)

\* What a process has yet to do is consistent with the rows: a migrate has
\* nothing but recorded versions before and between those it still has to do,
\* a rollback only versions on record.
Ordered ==
  \A p \in Process :
    /\ pc[p] = "run" => command[p] # "rollback"
    /\ pc[p] \in {"record", "note"} => command[p] = "migrate"
    /\ pc[p] \in {"run", "record", "note"} /\ command[p] = "migrate" =>
         \A v \in Version, w \in todo[p] :
           v < w => v \in todo[p] \/ rows[v] # "absent"
    /\ pc[p] \in {"undo", "mark"} => \A v \in todo[p] : rows[v] # "absent"

\* A row, once there, stays.
LEMMA RowsStay ==
  ASSUME TypeOK, [Next]_vars, NEW u \in Version, rows[u] # "absent"
  PROVE  rows'[u] # "absent"
<1>1. CASE UNCHANGED vars
  BY <1>1 DEF vars, database
<1>2. ASSUME NEW p \in Process, Moves(p)
      PROVE  rows'[u] # "absent"
  BY <1>2 DEF Moves, Start, TakeLock, Release, Crash, ListPending, ListExecuted, database
<1>3. ASSUME NEW p \in Process, NEW v \in Version, MovesOn(p, v)
      PROVE  rows'[u] # "absent"
  BY <1>3 DEF MovesOn, RunSql, Record, NoteFailure, UndoSql, MarkRolledBack, TypeOK
<1> QED
  BY <1>1, <1>2, <1>3, NextMoves

\* A step of one process moves that process alone, and rows only gain.
\* What Ordered says of the others is left as it was.
LEMMA OrderedElsewhere ==
  ASSUME TypeOK, Ordered, [Next]_vars, NEW q \in Process,
         pc'[q] = pc[q], command'[q] = command[q], todo'[q] = todo[q]
  PROVE  /\ pc'[q] = "run" => command'[q] # "rollback"
         /\ pc'[q] \in {"record", "note"} => command'[q] = "migrate"
         /\ pc'[q] \in {"run", "record", "note"} /\ command'[q] = "migrate" =>
              \A v \in Version, w \in todo'[q] :
                v < w => v \in todo'[q] \/ rows'[v] # "absent"
         /\ pc'[q] \in {"undo", "mark"} => \A v \in todo'[q] : rows'[v] # "absent"
<1>1. \A v \in Version : rows[v] # "absent" => rows'[v] # "absent"
  BY RowsStay
<1>2. todo[q] \subseteq Version
  BY DEF TypeOK
<1> QED
  BY <1>1, <1>2 DEF Ordered

\* Every action keeps each process's list consistent with the rows.
LEMMA OrderedStep ==
  ASSUME TypeOK, Ordered, [Next]_vars
  PROVE  Ordered'
<1> DEFINE InOrder(q) ==
      /\ pc[q] = "run" => command[q] # "rollback"
      /\ pc[q] \in {"record", "note"} => command[q] = "migrate"
      /\ pc[q] \in {"run", "record", "note"} /\ command[q] = "migrate" =>
           \A v \in Version, w \in todo[q] :
             v < w => v \in todo[q] \/ rows[v] # "absent"
      /\ pc[q] \in {"undo", "mark"} => \A v \in todo[q] : rows[v] # "absent"
<1>1. CASE UNCHANGED vars
  BY <1>1 DEF Ordered, vars, database, process
<1>2. ASSUME NEW p \in Process, NEW q \in Process, Moves(p)
      PROVE  InOrder(q)'
  <2>1. CASE q # p
    <3>1. pc'[q] = pc[q] /\ command'[q] = command[q] /\ todo'[q] = todo[q]
      BY <1>2, <2>1 DEF Moves, Start, TakeLock, Release, Crash, ListPending,
           ListExecuted, Proceed, Goto, TypeOK
    <3> QED
      BY <3>1, OrderedElsewhere
  <2>2. CASE q = p /\ (Start(p) \/ TakeLock(p) \/ Release(p) \/ Crash(p))
    BY <2>2 DEF Start, TakeLock, Release, Crash, Goto, TypeOK
  <2>3. CASE q = p /\ ListPending(p)
    <3>1. UNCHANGED <<rows, command>> /\ command[p] # "rollback"
      BY <2>3 DEF ListPending, database
    <3>2. CASE pc' = [pc EXCEPT ![p] = "release"]
      BY <2>3, <3>2 DEF TypeOK
    <3>3. CASE \E target \in Version :
                 Proceed(p, {v \in Version \ Known : v <= target}, "run")
      <4>1. PICK target \in Version :
              Proceed(p, {v \in Version \ Known : v <= target}, "run")
        BY <3>3
      <4>2. todo'[p] = {v \in Version \ Known : v <= target} /\ pc'[p] \in {"run", "release"}
        BY <4>1 DEF Proceed, Goto, TypeOK
      <4>3. \A v \in Version : v \in Known => rows[v] # "absent"
        BY DEF Known, Executed
      <4>4. \A v, w \in Version : v < w /\ w <= target => v <= target
        BY DEF Version
      <4>5. \A v \in Version, w \in todo'[p] :
              v < w => v \in todo'[p] \/ rows'[v] # "absent"
        BY <3>1, <4>2, <4>3, <4>4
      <4> QED
        BY <2>3, <3>1, <4>2, <4>5
    <3> QED
      BY <2>3, <3>2, <3>3 DEF ListPending, Goto
  <2>4. CASE q = p /\ ListExecuted(p)
    <3>1. UNCHANGED <<rows, command>>
      BY <2>4 DEF ListExecuted, database
    <3>2. CASE pc' = [pc EXCEPT ![p] = "release"]
      BY <2>4, <3>2 DEF TypeOK
    <3>3. CASE \E first \in Version : Proceed(p, {v \in Known : v >= first}, "undo")
      <4>1. todo'[p] \subseteq Known /\ pc'[p] \in {"undo", "release"}
        BY <3>3 DEF Proceed, Goto, TypeOK
      <4>2. \A v \in Known : rows[v] # "absent"
        BY DEF Known, Executed
      <4> QED
        BY <2>4, <3>1, <4>1, <4>2
    <3> QED
      BY <2>4, <3>2, <3>3 DEF ListExecuted, Goto
  <2> QED
    BY <1>2, <2>1, <2>2, <2>3, <2>4 DEF Moves
<1>3. ASSUME NEW p \in Process, NEW q \in Process, NEW v \in Version, MovesOn(p, v)
      PROVE  InOrder(q)'
  <2>0. \A u \in Version : rows[u] # "absent" => rows'[u] # "absent"
    BY RowsStay
  <2>1. CASE q # p
    <3>1. pc'[q] = pc[q] /\ command'[q] = command[q] /\ todo'[q] = todo[q]
      BY <1>3, <2>1 DEF MovesOn, RunSql, Record, NoteFailure, UndoSql,
           MarkRolledBack, Proceed, Goto, TypeOK
    <3> QED
      BY <3>1, OrderedElsewhere
  <2>2. CASE q = p /\ RunSql(p, v)
    <3>1. UNCHANGED <<rows, command>> /\ todo[p] \subseteq Version
      BY <2>2 DEF RunSql, TypeOK
    <3>2. command[p] \in Commands
      BY DEF TypeOK
    <3>3. CASE command[p] = "dryRun"
      BY <2>2, <3>1, <3>3 DEF RunSql, Proceed, Goto, TypeOK
    <3>4. CASE command[p] # "dryRun"
      <4>1. todo' = todo /\ pc'[p] \in {"record", "note", "release"} /\ pc[p] = "run"
        BY <2>2, <3>4 DEF RunSql, Goto, TypeOK
      <4>2. CASE command[p] = "migrate"
        BY <2>2, <3>1, <4>1, <4>2 DEF Ordered
      <4>3. CASE command[p] = "rollback"
        <5> QED BY <2>2, <3>1, <4>1, <4>3 DEF Ordered
      <4> QED
        BY <3>2, <3>4, <4>2, <4>3 DEF Commands
    <3> QED
      BY <3>3, <3>4
  <2>3. CASE q = p /\ Record(p, v)
    <3>1. pc[p] = "record" /\ command' = command /\ command[p] = "migrate"
          /\ v \in todo[p] /\ todo[p] \subseteq Version
      BY <2>3 DEF Record, First, Ordered, TypeOK
    <3>2. CASE todo' = todo /\ pc'[p] = "note"
      BY <2>0, <2>3, <3>1, <3>2 DEF Ordered
    <3>3. CASE /\ rows[v] = "absent" /\ rows' = [rows EXCEPT ![v] = "succeeded"]
               /\ Proceed(p, todo[p] \ {v}, "run")
      <4>1. todo'[p] = todo[p] \ {v} /\ pc'[p] \in {"run", "release"} /\ rows'[v] # "absent"
        BY <3>3 DEF Proceed, Goto, TypeOK
      <4> QED
        BY <2>0, <2>3, <3>1, <4>1 DEF Ordered
    <3> QED
      BY <2>3, <3>2, <3>3 DEF Record, Goto, TypeOK
  <2>4. CASE q = p /\ (NoteFailure(p, v))
    BY <2>4 DEF NoteFailure, Goto, TypeOK
  <2>5. CASE q = p /\ UndoSql(p, v)
    BY <2>5 DEF UndoSql, Goto, TypeOK, Ordered
  <2>6. CASE q = p /\ MarkRolledBack(p, v)
    <3>1. pc'[p] \in {"undo", "release"} /\ todo'[p] \subseteq todo[p]
          /\ pc[p] = "mark" /\ todo[p] \subseteq Version
      BY <2>6 DEF MarkRolledBack, Proceed, Goto, TypeOK
    <3> QED
      BY <2>0, <2>6, <3>1 DEF Ordered
  <2> QED
    BY <1>3, <2>1, <2>2, <2>3, <2>4, <2>5, <2>6 DEF MovesOn
<1>4. CASE Next
  <2>1. \A q \in Process : InOrder(q)'
    BY <1>2, <1>3, <1>4, NextMoves
  <2> QED
    BY <2>1 DEF Ordered
<1> QED
  BY <1>1, <1>4

\* No gaps to begin with, and no action makes one: a version is recorded, as
\* done or as failed, only after every earlier one.
LEMMA NoGapsStep ==
  ASSUME TypeOK, Ordered, NoGaps, [Next]_vars
  PROVE  NoGaps'
<1>0. \A u \in Version : rows[u] # "absent" => rows'[u] # "absent"
  BY RowsStay
<1>1. ASSUME NEW p \in Process, NEW v \in Version, pc[p] \in {"record", "note"}, First(p, v),
             NEW u \in Version, u < v
      PROVE  rows[u] # "absent"
  BY <1>1 DEF Ordered, First, Version
<1>2. CASE UNCHANGED rows
  BY <1>2 DEF NoGaps
<1>3. ASSUME NEW p \in Process, NEW v \in Version, Record(p, v) \/ NoteFailure(p, v)
      PROVE  NoGaps'
  <2>1. pc[p] \in {"record", "note"} /\ First(p, v)
    BY <1>3 DEF Record, NoteFailure
  <2>2. \A w \in Version : w # v => rows'[w] = rows[w]
    BY <1>3 DEF Record, NoteFailure, TypeOK
  <2> QED
    BY <1>0, <1>1, <2>1, <2>2 DEF NoGaps
<1>4. ASSUME NEW p \in Process, NEW v \in Version, MarkRolledBack(p, v)
      PROVE  NoGaps'
  <2>1. rows[v] # "absent"
    BY <1>4 DEF MarkRolledBack, Last, Ordered
  <2>2. \A w \in Version : w # v => rows'[w] = rows[w]
    BY <1>4 DEF MarkRolledBack, TypeOK
  <2> QED
    BY <1>0, <2>1, <2>2 DEF NoGaps
<1>5. \/ UNCHANGED rows
      \/ \E p \in Process, v \in Version :
            Record(p, v) \/ NoteFailure(p, v) \/ MarkRolledBack(p, v)
  BY DEF Next, Step, vars, database, Start, TakeLock, Release, Crash,
       ListPending, ListExecuted, RunSql, UndoSql
<1> QED
  BY <1>2, <1>3, <1>4, <1>5

\* Whatever fails, dies, is rolled back or runs at the same time, a version
\* has a row only if every earlier one has. (migrate, runMigration)
THEOREM BookkeepingHasNoGaps == Spec => []NoGaps
<1>1. Init => Ordered /\ NoGaps
  BY DEF Init, Ordered, NoGaps
<1>2. Spec => [](TypeOK /\ Ordered /\ NoGaps)
  BY <1>1, TypeInit, TypeStep, OrderedStep, NoGapsStep, PTL DEF Spec
<1> QED
  BY <1>2, PTL

-----------------------------------------------------------------------------
(* What is recorded is applied *)

\* A process about to record a version that has no row yet has applied it, and
\* nobody has undone it since: a rollback only undoes what is on record.
AppliedFirst ==
  \A p \in Process, v \in Version :
    pc[p] = "record" /\ First(p, v) /\ rows[v] = "absent" => v \in schema

\* Every action keeps to it, and to RecordedIsApplied.
LEMMA AppliedStep ==
  ASSUME TypeOK, Ordered, AppliedFirst, RecordedIsApplied, [Next]_vars
  PROVE  AppliedFirst' /\ RecordedIsApplied'
<1> USE DEF AppliedFirst, RecordedIsApplied
<1>0. \A u \in Version : rows[u] # "absent" => rows'[u] # "absent"
  BY RowsStay
<1>1. CASE UNCHANGED vars
  BY <1>1 DEF vars, database, process, First
<1>2. ASSUME NEW p \in Process, Moves(p)
      PROVE  AppliedFirst' /\ RecordedIsApplied'
  <2>1. UNCHANGED <<rows, schema, unmarked>>
    BY <1>2 DEF Moves, Start, TakeLock, Release, Crash, ListPending, ListExecuted, database
  <2>2. \A q \in Process : pc'[q] = "record" => pc[q] = "record" /\ todo'[q] = todo[q]
    BY <1>2 DEF Moves, Start, TakeLock, Release, Crash, ListPending, ListExecuted,
         Proceed, Goto, TypeOK
  <2> QED
    BY <2>1, <2>2 DEF First
<1>3. ASSUME NEW p \in Process, NEW v \in Version, RunSql(p, v)
      PROVE  AppliedFirst' /\ RecordedIsApplied'
  <2>1. rows' = rows /\ unmarked' = unmarked /\ schema \subseteq schema'
    BY <1>3 DEF RunSql
  <2>2. ASSUME NEW q \in Process, pc'[q] = "record"
        PROVE  \/ pc[q] = "record" /\ todo'[q] = todo[q]
               \/ q = p /\ todo'[q] = todo[q] /\ v \in schema' /\ First(p, v)
    BY <1>3, <2>2 DEF RunSql, Proceed, Goto, TypeOK
  <2>3. \A u \in Version : First(p, u) /\ First(p, v) => u = v
    BY DEF First, Version, TypeOK
  <2> QED
    BY <2>1, <2>2, <2>3 DEF First
<1>4. ASSUME NEW p \in Process, NEW v \in Version, Record(p, v)
      PROVE  AppliedFirst' /\ RecordedIsApplied'
  <2>1. schema' = schema /\ unmarked' = unmarked /\ pc[p] = "record" /\ First(p, v)
    BY <1>4 DEF Record
  <2>2. \A q \in Process : pc'[q] = "record" => pc[q] = "record" /\ todo'[q] = todo[q]
    BY <1>4 DEF Record, Proceed, Goto, TypeOK
  <2>3. \A u \in Version : u # v => rows'[u] = rows[u]
    BY <1>4 DEF Record, TypeOK
  <2>4. rows'[v] # rows[v] => rows[v] = "absent"
    BY <1>4 DEF Record
  <2> QED
    BY <1>0, <2>1, <2>2, <2>3, <2>4 DEF First
<1>5. ASSUME NEW p \in Process, NEW v \in Version, NoteFailure(p, v)
      PROVE  AppliedFirst' /\ RecordedIsApplied'
  <2>1. schema' = schema /\ unmarked' = unmarked
    BY <1>5 DEF NoteFailure
  <2>2. \A q \in Process : pc'[q] = "record" => pc[q] = "record" /\ todo'[q] = todo[q]
    BY <1>5 DEF NoteFailure, Goto, TypeOK
  <2>3. \A u \in Version : rows'[u] = "succeeded" => rows[u] = "succeeded"
    BY <1>5 DEF NoteFailure, TypeOK
  <2> QED
    BY <1>0, <2>1, <2>2, <2>3 DEF First
<1>6. ASSUME NEW p \in Process, NEW v \in Version, UndoSql(p, v)
      PROVE  AppliedFirst' /\ RecordedIsApplied'
  <2>1. rows' = rows /\ rows[v] # "absent"
    BY <1>6 DEF UndoSql, Last, Ordered
  <2>2. \A q \in Process : pc'[q] = "record" => pc[q] = "record" /\ todo'[q] = todo[q]
    BY <1>6 DEF UndoSql, Goto, TypeOK
  <2>3. \A u \in Version : u # v /\ u \in schema => u \in schema'
    BY <1>6 DEF UndoSql
  <2>4. schema \cup unmarked \subseteq schema' \cup unmarked'
    BY <1>6 DEF UndoSql
  <2> QED
    BY <2>1, <2>2, <2>3, <2>4 DEF First
<1>7. ASSUME NEW p \in Process, NEW v \in Version, MarkRolledBack(p, v)
      PROVE  AppliedFirst' /\ RecordedIsApplied'
  <2>1. schema' = schema
    BY <1>7 DEF MarkRolledBack
  <2>2. \A q \in Process : pc'[q] = "record" => pc[q] = "record" /\ todo'[q] = todo[q]
    BY <1>7 DEF MarkRolledBack, Proceed, Goto, TypeOK
  <2>3. \A u \in Version : rows'[u] = "succeeded" =>
           rows[u] = "succeeded" /\ (u \in unmarked => u \in unmarked')
    BY <1>7 DEF MarkRolledBack, TypeOK
  <2> QED
    BY <1>0, <2>1, <2>2, <2>3 DEF First
<1> QED
  BY <1>1, <1>2, <1>3, <1>4, <1>5, <1>6, <1>7, NextMoves DEF MovesOn

\* A migration on record as successful is in the database, unless a rollback
\* undid it and has not said so. (runMigration, rollbackMigration)
THEOREM RecordedApplied == Spec => []RecordedIsApplied
<1>1. Init => Ordered /\ AppliedFirst /\ RecordedIsApplied
  BY DEF Init, Ordered, AppliedFirst, RecordedIsApplied
<1>2. Spec => [](TypeOK /\ Ordered /\ AppliedFirst /\ RecordedIsApplied)
  BY <1>1, TypeInit, TypeStep, OrderedStep, AppliedStep, PTL DEF Spec
<1> QED
  BY <1>2, PTL

-----------------------------------------------------------------------------
(* The lock *)

\* Every action leaves the lock with somebody who will release it, died, or
\* tried to and could not.
LEMMA LockStep ==
  ASSUME TypeOK, LockHasHolder, [Next]_vars
  PROVE  LockHasHolder'
<1> USE MigrationsAssumption DEF LockHasHolder
<1>1. CASE UNCHANGED vars
  BY <1>1 DEF vars, database, process
<1>2. ASSUME NEW p \in Process, Moves(p)
      PROVE  LockHasHolder'
  <2> USE DEF TypeOK, Goto, Fault, database, Holding
  <2>1. CASE Start(p)
    BY <2>1 DEF Start
  <2>2. CASE TakeLock(p)
    BY <2>2 DEF TakeLock
  <2>3. CASE Release(p)
    BY <2>3 DEF Release
  <2>4. CASE Crash(p)
    BY <2>4 DEF Crash
  <2>5. CASE ListPending(p)
    BY <2>5 DEF ListPending, Proceed
  <2>6. CASE ListExecuted(p)
    BY <2>6 DEF ListExecuted, Proceed
  <2> QED
    BY <1>2, <2>1, <2>2, <2>3, <2>4, <2>5, <2>6 DEF Moves
<1>3. ASSUME NEW p \in Process, NEW v \in Version, MovesOn(p, v)
      PROVE  LockHasHolder'
  <2> USE DEF Goto, Fault
  <2>1. lock' = lock /\ unreleased' = unreleased
    BY <1>3 DEF MovesOn, RunSql, Record, NoteFailure, UndoSql, MarkRolledBack
  <2>2. pc[p] \in Holding
    BY <1>3 DEF MovesOn, RunSql, Record, NoteFailure, UndoSql, MarkRolledBack, Holding
  <2>3. \E point \in Holding : pc' = [pc EXCEPT ![p] = point]
    BY <1>3 DEF MovesOn, RunSql, Record, NoteFailure, UndoSql, MarkRolledBack, Proceed,
         Holding
  <2> QED
    BY <2>1, <2>2, <2>3 DEF TypeOK
<1> QED
  BY <1>1, <1>2, <1>3, NextMoves

\* No way through migrate or rollback forgets the lock: it is held by a
\* process at work, by one that died, or by one whose own release was rejected;
\* a query of another process, or another query of its own, excuses nothing.
\* (migrate, rollback, releaseLock)
THEOREM LockAccountedFor == Spec => []LockHasHolder
<1>1. Init => LockHasHolder
  BY DEF Init, LockHasHolder
<1>2. Spec => [](TypeOK /\ LockHasHolder)
  BY <1>1, TypeInit, TypeStep, LockStep, PTL DEF Spec
<1> QED
  BY <1>2, PTL
=============================================================================
