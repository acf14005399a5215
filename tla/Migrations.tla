----------------------------- MODULE Migrations -----------------------------
(***************************************************************************)
(* The migration manager, src/src/utils/migration-manager.js, as           *)
(* src/src/cli/migrate.js drives it: each invocation of the CLI is a       *)
(* process that takes the lock row, lists what to do, does it version by   *)
(* version and releases the lock.                                          *)
(*                                                                         *)
(* A migration's SQL goes through the pool, its bookkeeping row through a  *)
(* client of its own: what commits together is the row alone, so a process *)
(* can be cut off between the two.                                         *)
(***************************************************************************)
EXTENDS Integers

CONSTANTS Process,     \* invocations of the CLI
          LastVersion, \* migration files NNN_name.sql, versions 1..LastVersion
          MaxTries,    \* maxRetries of acquireLock (10)
          MaxFaults,   \* bound: queries of the manager that reject
          MaxCrashes,  \* bound: processes that die
          Nobody

Version == 1..LastVersion

ASSUME MigrationsAssumption ==
  /\ LastVersion \in Nat
  /\ MaxTries \in Nat \ {0}
  /\ MaxFaults \in Nat /\ MaxCrashes \in Nat
  /\ Nobody \notin Process

VARIABLES
  lock,     \* locked_by of the lock row, Nobody where locked = false
  rows,     \* rows[v]: the row of v in schema_migrations
  schema,   \* versions whose changes are in the database
  numeric,  \* whether pg returns BIGINT columns as numbers (by default strings)
  pc,       \* pc[p]: the await process p is at
  command,  \* command[p]: what it was called for
  tries,    \* tries[p]: failed attempts of the acquireLock p is in
  todo,     \* todo[p]: versions still to run or to roll back
  unmarked, \* versions rolled back without their row saying so (history)
  unreleased, \* processes whose own releaseLock rejected (history)
  faults, crashes

process == <<pc, command, tries, todo>>
database == <<lock, rows, schema, unmarked>>
vars == <<database, numeric, unreleased, process, faults, crashes>>

Commands == {"migrate", "dryRun", "rollback"}
Holding == {"list", "run", "record", "note", "undo", "mark", "release"}
Active == Holding \cup {"lock"}

\* getExecutedMigrations leaves out only what was rolled back: a failed
\* migration counts as executed.
Executed == {v \in Version : rows[v] \in {"succeeded", "failed"}}

\* The version of a file is a number, that of a row what pg makes of it; the
\* comparisons are strict.
Known == IF numeric THEN Executed ELSE {}

TypeOK ==
  /\ lock \in Process \cup {Nobody}
  /\ rows \in [Version -> {"absent", "succeeded", "failed", "rolledBack"}]
  /\ schema \subseteq Version
  /\ numeric \in BOOLEAN
  /\ pc \in [Process -> Active \cup {"idle", "over", "crashed"}]
  /\ command \in [Process -> Commands]
  /\ tries \in [Process -> 0..(MaxTries - 1)]
  /\ todo \in [Process -> SUBSET Version]
  /\ unmarked \subseteq Version
  /\ unreleased \subseteq Process
  /\ faults \in 0..MaxFaults
  /\ crashes \in 0..MaxCrashes

Init ==
  /\ lock = Nobody
  /\ rows = [v \in Version |-> "absent"]
  /\ schema = {}
  /\ numeric \in BOOLEAN
  /\ pc = [p \in Process |-> "idle"]
  /\ command \in [Process -> Commands]
  /\ tries = [p \in Process |-> 0]
  /\ todo = [p \in Process |-> {}]
  /\ unmarked = {}
  /\ unreleased = {}
  /\ faults = 0
  /\ crashes = 0

Goto(p, point) == pc' = [pc EXCEPT ![p] = point]

Fault == faults < MaxFaults /\ faults' = faults + 1

\* The loop over the migrations goes on with the rest, or is over.
Proceed(p, rest, point) ==
  /\ todo' = [todo EXCEPT ![p] = rest]
  /\ Goto(p, IF rest = {} THEN "release" ELSE point)

\* v is next: upwards when migrating, downwards when rolling back.
First(p, v) == v \in todo[p] /\ \A w \in todo[p] : v <= w
Last(p, v) == v \in todo[p] /\ \A w \in todo[p] : w <= v

-----------------------------------------------------------------------------
(* The lock *)

\* initialize only creates the tables that are not there.
Start(p) ==
  /\ pc[p] = "idle"
  /\ Goto(p, "lock")
  /\ UNCHANGED <<database, numeric, unreleased, command, tries, todo, faults, crashes>>

\* Two mistaken TakeLocks: one attempt too many, and attempts without end.
TakeLockOnceMore(p) ==
  /\ pc[p] = "lock"
  /\ IF lock = Nobody
     THEN lock' = p /\ Goto(p, "list") /\ tries' = [tries EXCEPT ![p] = 0]
     ELSE /\ lock' = lock
          /\ IF tries[p] < MaxTries
             THEN tries' = [tries EXCEPT ![p] = @ + 1] /\ UNCHANGED pc
             ELSE tries' = [tries EXCEPT ![p] = 0] /\ Goto(p, "release")
  /\ UNCHANGED <<rows, schema, unmarked, numeric, unreleased, command, todo, faults,
                 crashes>>

TakeLockAtLast(p) ==
  /\ pc[p] = "lock"
  /\ lock = Nobody
  /\ lock' = p
  /\ Goto(p, "list")
  /\ UNCHANGED <<rows, schema, unmarked, numeric, unreleased, command, tries, todo, faults,
                 crashes>>

\* acquireLock: UPDATE ... WHERE locked = false, and again a second later if
\* the lock is held. After the last attempt, or when the query rejects, it
\* throws, and the caller's finally releases. Its loop counter ends with it.
TakeLock(p) ==
  /\ pc[p] = "lock"
  /\ \/ /\ lock = Nobody
        /\ lock' = p
        /\ Goto(p, "list")
        /\ tries' = [tries EXCEPT ![p] = 0]
        /\ UNCHANGED faults
     \/ /\ lock # Nobody
        /\ tries[p] + 1 < MaxTries
        /\ tries' = [tries EXCEPT ![p] = @ + 1]
        /\ UNCHANGED <<lock, pc, faults>>
     \/ /\ \/ lock # Nobody /\ tries[p] + 1 = MaxTries /\ UNCHANGED faults
           \/ Fault
        /\ Goto(p, "release")
        /\ tries' = [tries EXCEPT ![p] = 0]
        /\ UNCHANGED lock
  /\ UNCHANGED <<rows, schema, unmarked, numeric, unreleased, command, todo, crashes>>

\* releaseLock, in a finally block: whoever holds the lock loses it.
Release(p) ==
  /\ pc[p] = "release"
  /\ \/ lock' = Nobody /\ UNCHANGED <<unreleased, faults>>
     \/ Fault /\ unreleased' = unreleased \cup {p} /\ UNCHANGED lock
  /\ Goto(p, "over")
  /\ todo' = [todo EXCEPT ![p] = {}]
  /\ UNCHANGED <<rows, schema, unmarked, numeric, command, tries, crashes>>

-----------------------------------------------------------------------------
(* migrate *)

\* getPendingMigrations, up to the target.
ListPending(p) ==
  /\ pc[p] = "list"
  /\ command[p] \in {"migrate", "dryRun"}
  /\ \/ /\ \E target \in Version :
             Proceed(p, {v \in Version \ Known : v <= target}, "run")
        /\ UNCHANGED faults
     \/ /\ Fault
        /\ Goto(p, "release")
        /\ UNCHANGED todo
  /\ UNCHANGED <<database, numeric, unreleased, command, tries, crashes>>

\* A mistaken RunSql: an error in the SQL is logged only.
RunSqlAnyway(p, v) ==
  /\ pc[p] = "run"
  /\ First(p, v)
  /\ schema' \in {schema \cup {v}, schema}
  /\ IF command[p] = "dryRun"
     THEN Proceed(p, todo[p] \ {v}, "run")
     ELSE Goto(p, "record") /\ UNCHANGED todo
  /\ UNCHANGED <<lock, rows, unmarked, numeric, unreleased, command, tries, faults, crashes>>

\* executeSqlMigration, which a dry run calls as well. The SQL may fail, the
\* first time or when it is run again; what it had done is then undone. No
\* client from the pool: runMigration is over before its try.
RunSql(p, v) ==
  /\ pc[p] = "run"
  /\ First(p, v)
  /\ \/ /\ schema' = schema \cup {v}
        /\ IF command[p] = "dryRun"
           THEN Proceed(p, todo[p] \ {v}, "run")
           ELSE Goto(p, "record") /\ UNCHANGED todo
        /\ UNCHANGED faults
     \/ /\ Goto(p, IF command[p] = "dryRun" THEN "release" ELSE "note")
        /\ UNCHANGED <<schema, todo, faults>>
     \/ /\ Fault
        /\ Goto(p, "release")
        /\ UNCHANGED <<schema, todo>>
  /\ UNCHANGED <<lock, rows, unmarked, numeric, unreleased, command, tries, crashes>>

\* A mistaken Record: what cannot be recorded is passed over.
RecordOrPass(p, v) ==
  /\ pc[p] = "record"
  /\ First(p, v)
  /\ \/ rows[v] = "absent" /\ rows' = [rows EXCEPT ![v] = "succeeded"] /\ UNCHANGED faults
     \/ rows[v] # "absent" /\ UNCHANGED <<rows, faults>>
     \/ Fault /\ UNCHANGED rows
  /\ Proceed(p, todo[p] \ {v}, "run")
  /\ UNCHANGED <<lock, schema, unmarked, numeric, unreleased, command, tries, crashes>>

\* INSERT and COMMIT. A version has one row for ever, rolled back or not
\* (UNIQUE): a second INSERT rejects.
Record(p, v) ==
  /\ pc[p] = "record"
  /\ First(p, v)
  /\ \/ /\ rows[v] = "absent"
        /\ rows' = [rows EXCEPT ![v] = "succeeded"]
        /\ Proceed(p, todo[p] \ {v}, "run")
        /\ UNCHANGED faults
     \/ /\ rows[v] # "absent"
        /\ Goto(p, "note")
        /\ UNCHANGED <<rows, todo, faults>>
     \/ /\ Fault
        /\ Goto(p, "note")
        /\ UNCHANGED <<rows, todo>>
  /\ UNCHANGED <<lock, schema, unmarked, numeric, unreleased, command, tries, crashes>>

\* runMigration's catch records the failure, where there is no row yet, and
\* rethrows.
NoteFailure(p, v) ==
  /\ pc[p] = "note"
  /\ First(p, v)
  /\ \/ rows[v] = "absent" /\ rows' = [rows EXCEPT ![v] = "failed"] /\ UNCHANGED faults
     \/ rows[v] # "absent" /\ UNCHANGED <<rows, faults>>
     \/ Fault /\ UNCHANGED rows
  /\ Goto(p, "release")
  /\ UNCHANGED <<lock, schema, unmarked, numeric, unreleased, command, tries, todo, crashes>>

-----------------------------------------------------------------------------
(* rollback *)

\* The last count executed migrations; those whose file is not found, by
\* comparing versions, are passed over.
ListExecuted(p) ==
  /\ pc[p] = "list"
  /\ command[p] = "rollback"
  /\ \/ /\ \E first \in Version : Proceed(p, {v \in Known : v >= first}, "undo")
        /\ UNCHANGED faults
     \/ /\ Fault
        /\ Goto(p, "release")
        /\ UNCHANGED todo
  /\ UNCHANGED <<database, numeric, unreleased, command, tries, crashes>>

\* NNN_down.sql or the file's DOWN section.
UndoSql(p, v) ==
  /\ pc[p] = "undo"
  /\ Last(p, v)
  /\ \/ /\ schema' = schema \ {v}
        /\ unmarked' = unmarked \cup {v}
        /\ Goto(p, "mark")
     \/ /\ Goto(p, "release")
        /\ UNCHANGED <<schema, unmarked>>
  /\ UNCHANGED <<lock, rows, numeric, unreleased, command, tries, todo, faults, crashes>>

\* A mistaken MarkRolledBack: a rejected UPDATE leaves past the release.
MarkRolledBackOrLeave(p, v) ==
  /\ pc[p] = "mark"
  /\ Last(p, v)
  /\ \/ /\ rows' = [rows EXCEPT ![v] = "rolledBack"]
        /\ unmarked' = unmarked \ {v}
        /\ Proceed(p, todo[p] \ {v}, "undo")
        /\ UNCHANGED faults
     \/ /\ Fault
        /\ Goto(p, "over")
        /\ UNCHANGED <<rows, unmarked, todo>>
  /\ UNCHANGED <<lock, schema, numeric, unreleased, command, tries, crashes>>

\* UPDATE ... SET rolled_back = true, and COMMIT.
MarkRolledBack(p, v) ==
  /\ pc[p] = "mark"
  /\ Last(p, v)
  /\ \/ /\ rows' = [rows EXCEPT ![v] = "rolledBack"]
        /\ unmarked' = unmarked \ {v}
        /\ Proceed(p, todo[p] \ {v}, "undo")
        /\ UNCHANGED faults
     \/ /\ Fault
        /\ Goto(p, "release")
        /\ UNCHANGED <<rows, unmarked, todo>>
  /\ UNCHANGED <<lock, schema, numeric, unreleased, command, tries, crashes>>

-----------------------------------------------------------------------------
\* A process dies; what it had not committed is gone, the lock row stays.
Crash(p) ==
  /\ pc[p] \in Active
  /\ crashes < MaxCrashes
  /\ crashes' = crashes + 1
  /\ Goto(p, "crashed")
  /\ tries' = [tries EXCEPT ![p] = 0]
  /\ todo' = [todo EXCEPT ![p] = {}]
  /\ UNCHANGED <<database, numeric, unreleased, command, faults>>

Step(p) ==
  \/ TakeLock(p) \/ ListPending(p) \/ ListExecuted(p) \/ Release(p)
  \/ \E v \in Version :
        \/ RunSql(p, v) \/ Record(p, v) \/ NoteFailure(p, v)
        \/ UndoSql(p, v) \/ MarkRolledBack(p, v)

Next == \E p \in Process : Start(p) \/ Step(p) \/ Crash(p)

Spec == Init /\ [][Next]_vars

\* PostgreSQL answers every query or the connection breaks, and acquireLock's
\* timer fires.
FairSpec == Spec /\ \A p \in Process : WF_vars(Step(p))

-----------------------------------------------------------------------------
(* Properties *)

\* The bookkeeping has no gaps: a version has a row only if every earlier one
\* has, whatever failed, died, was rolled back or ran at the same time.
\* (migrate, runMigration)
NoGaps ==
  \A v, w \in Version : v < w /\ rows[w] # "absent" => rows[v] # "absent"

\* A migration on record as successful is in the database, except where a
\* rollback undid it and has not yet said so, or was cut off before it could.
\* (runMigration, rollbackMigration)
RecordedIsApplied ==
  \A v \in Version : rows[v] = "succeeded" => v \in schema \cup unmarked

\* The lock belongs to a process that is at work or that died, or to one that
\* is over and whose own releaseLock was rejected: no way through migrate or
\* rollback forgets it, the ways past a rejected query included. (migrate,
\* rollback, releaseLock)
LockHasHolder ==
  lock # Nobody =>
    \/ pc[lock] \in Holding \cup {"crashed"}
    \/ pc[lock] = "over" /\ lock \in unreleased

\* Every invocation comes to an end, whoever holds the lock and for however
\* long. (acquireLock)
ProcessesEnd == \A p \in Process : pc[p] \in Active ~> pc[p] \notin Active

\* 'Migration locking to prevent concurrent runs' (migration-manager.js:9).
RunsAreExclusive ==
  \A p, q \in Process :
    {pc[p], pc[q]} \subseteq Holding \ {"release"} => p = q
=============================================================================
