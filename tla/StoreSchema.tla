---------------------------- MODULE StoreSchema ----------------------------
(***************************************************************************)
(* Opening the SQLite store: Repository._apply_schema.  Several processes  *)
(* open one database file, each brings it up to the schema version this    *)
(* build expects, and any of them may die between two statements.          *)
(*                                                                         *)
(* The database is the recorded version (the pragma user_version) and the  *)
(* set of objects that exist: the five tables, the column a migration adds *)
(* and the partial unique index that needs it.  The plain indexes and the  *)
(* rows are left out.  One step is one statement SQLite commits by itself, *)
(* or one BEGIN IMMEDIATE transaction: the write lock makes each atomic,   *)
(* and a process that dies inside one leaves what was there before it.     *)
(***************************************************************************)
EXTENDS Naturals, Sequences

CONSTANT Processes     \* the processes that open the store

VARIABLES
  stamp,      \* the version recorded in the database
  objects,    \* the tables, column and index that exist
  pc,         \* where each process is in _apply_schema
  version,    \* the version each process believes the store has
  statement   \* the next statement of schema.sql each process will run

databaseVars == <<stamp, objects>>
storeVars == <<stamp, objects, pc, version, statement>>

SchemaVersion == 2
Unversioned == 0

Tables == {"runs", "events", "approvals", "approval_signatures", "decisions"}
Fingerprint == "invoice_fingerprint"
FingerprintIndex == "idx_decisions_invoice_fingerprint"
Objects == Tables \cup {Fingerprint, FingerprintIndex}

\* schema.sql, in its order.
Script == << "runs", "events", "approvals", "approval_signatures",
             "decisions", FingerprintIndex >>

(***************************************************************************)
(* What one CREATE ... IF NOT EXISTS leaves: an object that is there keeps *)
(* the shape it has, and only a new decisions table has the column.        *)
(***************************************************************************)
Created(name) ==
  IF name = "decisions" /\ name \notin objects
  THEN objects \cup {name, Fingerprint}
  ELSE objects \cup {name}

\* The step to a version: the column is added where the table lacks it.
StepIsNeeded(target) ==
  target = 2 /\ "decisions" \in objects /\ Fingerprint \notin objects

Migrated(target) ==
  IF StepIsNeeded(target) THEN objects \cup {Fingerprint} ELSE objects

Opening == {"reading", "looking", "claiming", "migrating",
            "creating"}
Places == Opening \cup {"down", "open", "refused", "failed"}

\* Where a process goes once it knows the version of the store.  The slip takes
\* a store of the current version for a complete one.
PlaceForSlip(v) ==
  CASE v > SchemaVersion          -> "refused"
    [] v = Unversioned            -> "claiming"
    [] v \in 1..SchemaVersion - 1 -> "migrating"
    [] OTHER                      -> "open"

PlaceFor(v) ==
  CASE v > SchemaVersion          -> "refused"
    [] v = Unversioned            -> "claiming"
    [] v \in 1..SchemaVersion - 1 -> "migrating"
    [] OTHER                      -> "creating"

(***************************************************************************)
(* The databases a process can be given: no file; what a build without     *)
(* versions created, or part of it; a migration or a creation of an early  *)
(* build that died before its stamp; a store of a newer build.             *)
(***************************************************************************)
Beginning(n) == {Script[i] : i \in 1..n}
Databases ==
       {[stamp |-> 0, objects |-> Beginning(n)] : n \in 0..5}
  \cup {[stamp |-> 0, objects |-> Tables \cup {Fingerprint}],
        [stamp |-> 0, objects |-> Objects],
        [stamp |-> 1, objects |-> Tables],
        [stamp |-> 1, objects |-> Tables \cup {Fingerprint}]}
  \cup {[stamp |-> SchemaVersion + 1, objects |-> Objects]}

Init ==
  /\ \E d \in Databases : stamp = d.stamp /\ objects = d.objects
  /\ pc = [p \in Processes |-> "down"]
  /\ version = [p \in Processes |-> Unversioned]
  /\ statement = [p \in Processes |-> 1]

Enters(p, place) == pc' = [pc EXCEPT ![p] = place]

\* The construction of a Repository begins.
Open(p) ==
  /\ pc[p] = "down"
  /\ Enters(p, "reading")
  /\ statement' = [statement EXCEPT ![p] = 1]
  /\ UNCHANGED <<stamp, objects, version>>

\* The pragma is read, outside every transaction; a zero is not yet an answer.
ReadStamp(p) ==
  /\ pc[p] = "reading"
  /\ version' = [version EXCEPT ![p] = stamp]
  /\ Enters(p, IF stamp = 0 THEN "looking" ELSE PlaceFor(stamp))
  /\ UNCHANGED <<stamp, objects, statement>>

\* Tables without a stamp are version 1; no table at all is a fresh file.
VersionWithoutStampSlip == Unversioned
VersionWithoutStamp == IF objects \cap Tables = {} THEN Unversioned ELSE 1

LookForTables(p) ==
  /\ pc[p] = "looking"
  /\ version' = [version EXCEPT ![p] = VersionWithoutStamp]
  /\ Enters(p, PlaceFor(VersionWithoutStamp))
  /\ UNCHANGED <<stamp, objects, statement>>

\* A fresh file is stamped before anything is created in it.
Claim(p) ==
  /\ pc[p] = "claiming"
  /\ stamp' = SchemaVersion
  /\ Enters(p, "creating")
  /\ UNCHANGED <<objects, version, statement>>

\* One version's steps and its stamp, as one transaction.  The slip alters the
\* table without looking, and is rolled back on "duplicate column name".
MigrateToSlip(p, target) ==
  LET raises == target = 2 /\ Fingerprint \in objects IN
  /\ pc[p] = "migrating"
  /\ target = version[p] + 1
  /\ objects' = Migrated(target)
  /\ stamp' = IF raises THEN stamp ELSE target
  /\ version' = [version EXCEPT ![p] = target]
  /\ Enters(p, IF raises THEN "failed" ELSE PlaceFor(target))
  /\ UNCHANGED statement

MigrateTo(p, target) ==
  /\ pc[p] = "migrating"
  /\ target = version[p] + 1
  /\ objects' = Migrated(target)
  /\ stamp' = target
  /\ version' = [version EXCEPT ![p] = target]
  /\ Enters(p, PlaceFor(target))
  /\ UNCHANGED statement

\* The script ends after its last statement.
LastStatement(p) == statement[p] = Len(Script)

(***************************************************************************)
(* The next statement of the script.  One that raises ("no such column")   *)
(* ends the constructor; the last one opens the store.                     *)
(***************************************************************************)
Runnable(name) == name = FingerprintIndex => Fingerprint \in objects

RunStatement(p) ==
  LET name == Script[statement[p]] IN
  /\ pc[p] = "creating"
  /\ objects' = IF Runnable(name) THEN Created(name) ELSE objects
  /\ Enters(p, IF ~Runnable(name) THEN "failed"
               ELSE IF LastStatement(p) THEN "open" ELSE "creating")
  /\ statement' = [statement EXCEPT ![p] = IF LastStatement(p) THEN @ ELSE @ + 1]
  /\ UNCHANGED <<stamp, version>>

\* The process closes the store, or dies at any point of opening it.
Stop(p) ==
  /\ pc[p] \in Opening \cup {"open"}
  /\ Enters(p, "down")
  /\ UNCHANGED <<databaseVars, version, statement>>

Advance(p) ==
  \/ ReadStamp(p) \/ LookForTables(p) \/ Claim(p)
  \/ \E target \in 1..SchemaVersion : MigrateTo(p, target)
  \/ RunStatement(p)

Next == \E p \in Processes : Open(p) \/ Advance(p) \/ Stop(p)

\* A process that has begun to open the store and does not die gets on with it.
Spec == Init /\ [][Next]_storeVars /\ \A p \in Processes : WF_storeVars(Advance(p))

----------------------------------------------------------------------------

\* Every variable keeps its type.
TypeOK ==
  /\ stamp \in 0..(SchemaVersion + 1)
  /\ objects \in SUBSET Objects
  /\ pc \in [Processes -> Places]
  /\ version \in [Processes -> 0..(SchemaVersion + 1)]
  /\ statement \in [Processes -> 1..Len(Script)]

\* A store that has been opened has every table, the fingerprint column and the
\* index that keeps one decision per invoice, whoever else was opening, migrating
\* or dying meanwhile (_apply_schema, and the claims at the top of schema.sql).
OpenIsUsable == \A p \in Processes : pc[p] = "open" => objects = Objects

\* A store stamped with this build's version has no decisions table without the
\* fingerprint column: the next open will not migrate it and still finds the column
\* its index needs ("the version and the shape change together").
StampKeepsPromise ==
  stamp = SchemaVersion /\ "decisions" \in objects => Fingerprint \in objects

\* A process that begins to open a store no newer than its build opens it, or is
\* stopped: no earlier crash and no other process leaves a store that cannot be
\* opened ("the store becomes permanently unopenable", _AddColumn).
StoreOpensInTheEnd ==
  \A p \in Processes :
    pc[p] \in Opening /\ stamp <= SchemaVersion ~> pc[p] \in {"open", "down"}

============================================================================
