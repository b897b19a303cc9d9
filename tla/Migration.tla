----------------------------- MODULE Migration -----------------------------
(***************************************************************************)
(* The migration of the three SQLite databases to PostgreSQL, and what goes *)
(* on around it: the runtime still writes to SQLite until it is stopped,     *)
(* or to the target already; a migration fails or is killed and is started   *)
(* again, and two of them may overlap.                                       *)
(*                                                                          *)
(* A transaction of the runtime adds its next row to every table of one      *)
(* database, so that the rows of a table are 1..k and a database is          *)
(* consistent where its tables have the same k.  The online backup of        *)
(* SQLite restarts when the source changes and so is one step.               *)
(***************************************************************************)
EXTENDS Integers, FiniteSets, SequencesExt

CONSTANTS
    Databases,     \* SOURCES: sequence of the names of databases
    TablesOf,      \* name -> its tables, referenced ones first
    WrittenTables, \* tables of the target the runtime may already write to
    Migrators,
    MaxWrites      \* transactions of the runtime on one database

\* A database has tables of its own, and the runtime writes to tables of theirs.
ASSUME MigrationAssumption ==
    /\ Databases \in Seq(DOMAIN TablesOf) /\ Databases # <<>>
    /\ \A m, n \in DOMAIN Databases : Databases[m] = Databases[n] => m = n
    /\ \A d \in DOMAIN TablesOf :
         TablesOf[d] \in Seq(ToSet(TablesOf[d])) /\ TablesOf[d] # <<>>
    /\ \A d, e \in DOMAIN TablesOf :
         ToSet(TablesOf[d]) \cap ToSet(TablesOf[e]) # {} => d = e
    /\ WrittenTables \subseteq UNION {ToSet(TablesOf[Databases[n]]) : n \in DOMAIN Databases}

Names == ToSet(Databases)
AllTables == FlattenSeq([n \in DOMAIN Databases |-> TablesOf[Databases[n]]])
Tables == ToSet(AllTables)
Runtime == 0       \* the key of the row that the runtime writes to a table of the target
Home(t) == CHOOSE d \in Names : t \in ToSet(TablesOf[d])

VARIABLES
    source,        \* name -> transactions committed to the SQLite file
    stopped,       \* the writers of the SQLite files are stopped
    target,        \* table -> rows committed in PostgreSQL
    run,           \* the migration each migrator is in
    fresh,         \* history: rows the runtime wrote to the target since its last reload
    cut            \* history: how the target was loaded

migrationVars == <<source, stopped, target, run, fresh, cut>>

Idle == [at |-> "idle"]
Becomes(m, r) == run' = [run EXCEPT ![m] = r]
Fails(m) == Becomes(m, Idle)
Elsewhere == UNCHANGED <<source, stopped, target, fresh, cut>>

MigrationInit ==
    /\ source = [d \in Names |-> 1]
    /\ stopped = FALSE
    /\ target = [t \in Tables |-> {}]
    /\ run = [m \in Migrators |-> Idle]
    /\ fresh = [t \in Tables |-> {}]
    /\ cut = "empty"

(***************************************************************************)
(* The runtime                                                              *)
(***************************************************************************)
WriteSource(d) ==
    /\ ~stopped /\ source[d] <= MaxWrites
    /\ source' = [source EXCEPT ![d] = @ + 1]
    /\ UNCHANGED <<stopped, target, run, fresh, cut>>

StopWriters ==
    /\ ~stopped /\ stopped' = TRUE
    /\ UNCHANGED <<source, target, run, fresh, cut>>

\* A truncated table is locked until the migration ends.
Truncated == \E m \in Migrators : run[m].at \in {"copy", "count", "commit"} /\ run[m].replace

WriteTarget(t) ==
    /\ ~Truncated /\ Runtime \notin target[t]
    /\ target' = [target EXCEPT ![t] = @ \cup {Runtime}]
    /\ fresh' = [fresh EXCEPT ![t] = @ \cup {Runtime}]
    /\ UNCHANGED <<source, stopped, run, cut>>

(***************************************************************************)
(* A migration                                                              *)
(***************************************************************************)
Begin(m, replace, direct) ==
    /\ run[m] = Idle
    /\ Becomes(m, [at |-> IF direct THEN "prepare" ELSE "snapshot", replace |-> replace,
                   direct |-> direct, snapshot |-> <<>>, rows |-> <<>>, still |-> stopped])
    /\ Elsewhere

\* _snapshot_sources: one database after the other.
Snapshot(m) ==
    LET r == run[m]
        d == Databases[Len(r.snapshot) + 1]
    IN /\ r.at = "snapshot"
       /\ Becomes(m, [r EXCEPT !.snapshot = Append(@, source[d]),
                      !.at = IF d = Last(Databases) THEN "prepare" ELSE @])
       /\ Elsewhere

Opened(m) == run[m].at \in {"truncate", "copy", "count", "commit"}

\* The populated tables are counted; they are refused unless they are replaced.
PrepareTarget(m) ==
    LET r == run[m]
        nonempty == \E t \in Tables : target[t] # {}
    IN /\ r.at = "prepare" /\ ~Truncated
       /\ IF nonempty /\ ~r.replace THEN Fails(m)
          ELSE Becomes(m, [r EXCEPT !.at = IF r.replace THEN "truncate" ELSE "copy"])
       /\ Elsewhere

\* TRUNCATE waits for every transaction that has counted the tables.
Truncate(m) ==
    /\ run[m].at = "truncate"
    /\ \A n \in Migrators \ {m} : ~Opened(n)
    /\ Becomes(m, [run[m] EXCEPT !.at = "copy"])
    /\ Elsewhere

\* Mutant of SourceRows: the live file is read though it was snapshot.
SourceRowsLive(m, t) == 1 .. source[Home(t)]

\* The rows of a table in the snapshot, or in the file as it is now.
SourceRows(m, t) ==
    IF run[m].direct THEN 1 .. source[Home(t)]
    ELSE 1 .. run[m].snapshot[CHOOSE n \in DOMAIN Databases : Databases[n] = Home(t)]

\* What the transaction of a migration has put into a table.
Copied(m, t) ==
    UNION {run[m].rows[n] : n \in {n \in DOMAIN run[m].rows : AllTables[n] = t}}

\* _copy_table: a key that another migration is inserting is waited for, and one
\* that is there already raises.
CopyTable(m) ==
    LET r == run[m]
        t == AllTables[Len(r.rows) + 1]
        rows == SourceRows(m, t)
        there == IF r.replace THEN {} ELSE target[t]
    IN /\ r.at = "copy"
       /\ \A n \in Migrators \ {m} : Opened(n) => Copied(n, t) \cap rows = {}
       /\ IF rows \cap there # {} THEN Fails(m)
          ELSE Becomes(m, [r EXCEPT !.rows = Append(@, rows),
                           !.at = IF Len(r.rows) + 1 = Len(AllTables) THEN "count" ELSE @])
       /\ Elsewhere

\* Every table is counted and must hold the rows that were copied into it.
CountRows(m) ==
    LET r == run[m]
        counted(t) == Cardinality((IF r.replace THEN {} ELSE target[t]) \cup Copied(m, t))
    IN /\ r.at = "count"
       /\ IF \A t \in Tables : counted(t) = Cardinality(Copied(m, t))
          THEN Becomes(m, [r EXCEPT !.at = "commit"]) ELSE Fails(m)
       /\ Elsewhere

CommitMigration(m) ==
    LET r == run[m]
    IN /\ r.at = "commit"
       /\ target' = [t \in Tables |->
                       (IF r.replace THEN {} ELSE target[t]) \cup Copied(m, t)]
       /\ fresh' = IF r.replace THEN [t \in Tables |-> {}] ELSE fresh
       /\ cut' = IF r.still THEN "final" ELSE IF r.direct THEN "live" ELSE "snapshot"
       /\ Fails(m)
       /\ UNCHANGED <<source, stopped>>

\* A check of a file fails, a statement raises, the process or the connection is
\* lost, or PostgreSQL ends one of two migrations that wait for each other.
FailMigration(m) ==
    /\ run[m] # Idle
    /\ Fails(m)
    /\ Elsewhere

MigrationNext ==
    \/ StopWriters
    \/ \E d \in Names : WriteSource(d)
    \/ \E t \in WrittenTables : WriteTarget(t)
    \/ \E m \in Migrators :
        \/ \E replace, direct \in BOOLEAN : Begin(m, replace, direct)
        \/ Snapshot(m) \/ PrepareTarget(m) \/ Truncate(m) \/ CopyTable(m)
        \/ CountRows(m) \/ CommitMigration(m) \/ FailMigration(m)

MigrationSpec == MigrationInit /\ [][MigrationNext]_migrationVars

\* What the target of migrate_sqlite_to_postgres holds, whichever migrations failed,
\* were repeated or overlapped, and whatever the runtime wrote meanwhile: of every
\* database all rows up to one of its transactions, of all databases or of none; all
\* that the files hold once the writers were stopped before it began; and every row
\* that was written to the target itself, unless --replace gave it up.  Only a direct
\* read of files that are still written may be no such cut.
TargetIsACut ==
    LET migrated(t) == target[t] \ {Runtime}
        upTo(d, k) == \A t \in ToSet(TablesOf[d]) : migrated(t) = 1 .. k
    IN /\ cut = "empty" => \A t \in Tables : migrated(t) = {}
       /\ cut = "snapshot" => \A d \in Names : \E k \in 1 .. source[d] : upTo(d, k)
       /\ cut = "final" => \A d \in Names : upTo(d, source[d])
       /\ \A t \in Tables : fresh[t] \subseteq target[t]
=============================================================================
