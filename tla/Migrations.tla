----------------------------- MODULE Migrations -----------------------------
(***************************************************************************)
(* storage.Open on one database file by several processes, of several      *)
(* versions of the program (storage/migrations.go, sqlite.go).             *)
(*                                                                         *)
(* SQLite has one writer at a time.  A transaction becomes the writer with *)
(* its first statement, or fails when there is another; what it has done   *)
(* is visible when it commits and gone when it does not.                   *)
(***************************************************************************)
EXTENDS Integers, FiniteSets

CONSTANTS
  Opener,      \* processes that open the database
  Latest,      \* LatestSchemaVersion of the program of each
  Statements,  \* statements of a migration
  Strict,      \* versions with ALTER TABLE, which fails the second time
  MaxOpens     \* bound on the calls of Open by a process

ASSUME MigrationAssumption ==
  /\ Latest \in [Opener -> Nat]
  /\ Statements \in Nat \ {0}
  /\ MaxOpens \in Nat

VARIABLES
  recorded,  \* table schema_migrations
  schema,    \* the statements in effect, as version and position
  writer,    \* the process that writes, or Nobody
  opener     \* the processes

migrationVars == <<recorded, schema, writer, opener>>

Nobody == "nobody"
Versions(p) == 1..Latest[p]
Statement(v) == {<<v, k>> : k \in 1..Statements}

Closed(n) == [pc |-> "closed", opens |-> n, todo |-> {}, staged |-> {}]

MigrationInit ==
  /\ recorded = {}
  /\ schema = {}
  /\ writer = Nobody
  /\ opener = [p \in Opener |-> Closed(0)]

\* The file and table schema_migrations are there or are made.
Open(p) ==
  /\ opener[p].pc = "closed"
  /\ opener[p].opens < MaxOpens
  /\ opener' = [opener EXCEPT ![p].pc = "version", ![p].opens = @ + 1]
  /\ UNCHANGED <<recorded, schema, writer>>

\* A database of a newer program is refused.
currentSchemaVersion(p) ==
  /\ opener[p].pc = "version"
  /\ opener' = [opener EXCEPT ![p] =
       IF \E v \in recorded : v > Latest[p] THEN Closed(@.opens)
       ELSE [@ EXCEPT !.pc = "list"]]
  /\ UNCHANGED <<recorded, schema, writer>>

appliedMigrations(p) ==
  /\ opener[p].pc = "list"
  /\ opener' = [opener EXCEPT ![p].pc = "migrate",
                              ![p].todo = Versions(p) \ recorded]
  /\ UNCHANGED <<recorded, schema, writer>>

\* The migration at hand.
isNext(p, v) ==
  /\ opener[p].pc = "migrate"
  /\ v \in opener[p].todo
  /\ \A u \in opener[p].todo : v <= u

\* Mutated form: each statement commits by itself.
execStatementAlone(p, v) ==
  LET k == Cardinality(opener[p].staged) + 1
  IN /\ isNext(p, v)
     /\ k <= Statements
     /\ writer = Nobody
     /\ v \in Strict => <<v, k>> \notin schema
     /\ schema' = schema \cup {<<v, k>>}
     /\ opener' = [opener EXCEPT ![p].staged = @ \cup {<<v, k>>}]
     /\ UNCHANGED <<recorded, writer>>

execStatement(p, v) ==
  LET k == Cardinality(opener[p].staged) + 1
  IN /\ isNext(p, v)
     /\ k <= Statements
     /\ writer \in {Nobody, p}
     /\ v \in Strict => <<v, k>> \notin schema
     /\ writer' = p
     /\ opener' = [opener EXCEPT ![p].staged = @ \cup {<<v, k>>}]
     /\ UNCHANGED <<recorded, schema>>

\* The record of the migration and the commit.  The record is a primary key.
recordMigration(p, v) ==
  /\ isNext(p, v)
  /\ opener[p].staged = Statement(v)
  /\ v \notin recorded
  /\ recorded' = recorded \cup {v}
  /\ schema' = schema \cup opener[p].staged
  /\ writer' = IF writer = p THEN Nobody ELSE writer
  /\ opener' = [opener EXCEPT ![p].todo = @ \ {v}, ![p].staged = {}]

applyMigration(p, v) == execStatement(p, v) \/ recordMigration(p, v)

\* Mutated form: a migration that fails is passed over.
openFailsGoesOn(p) ==
  /\ opener[p].pc \notin {"closed", "open"}
  /\ opener' = [opener EXCEPT ![p] =
       IF @.pc = "migrate" THEN [@ EXCEPT !.todo = {}, !.staged = {}]
       ELSE Closed(@.opens)]
  /\ writer' = IF writer = p THEN Nobody ELSE writer
  /\ UNCHANGED <<recorded, schema>>

\* A statement fails, the context has ended, or the process dies; the
\* transaction is rolled back.
openFails(p) ==
  /\ opener[p].pc \notin {"closed", "open"}
  /\ opener' = [opener EXCEPT ![p] = Closed(@.opens)]
  /\ writer' = IF writer = p THEN Nobody ELSE writer
  /\ UNCHANGED <<recorded, schema>>

OpenReturns(p) ==
  /\ opener[p].pc = "migrate"
  /\ opener[p].todo = {}
  /\ opener' = [opener EXCEPT ![p].pc = "open"]
  /\ UNCHANGED <<recorded, schema, writer>>

Close(p) ==
  /\ opener[p].pc = "open"
  /\ opener' = [opener EXCEPT ![p] = Closed(@.opens)]
  /\ UNCHANGED <<recorded, schema, writer>>

runMigrations(p) ==
  \/ currentSchemaVersion(p)
  \/ appliedMigrations(p)
  \/ \E v \in Versions(p) : applyMigration(p, v)
  \/ openFails(p)
  \/ OpenReturns(p)

MigrationNext == \E p \in Opener : Open(p) \/ runMigrations(p) \/ Close(p)

MigrationSpec == MigrationInit /\ [][MigrationNext]_migrationVars

(***************************************************************************)
(* Properties.                                                             *)
(***************************************************************************)
MaxVersion == UNION {Versions(p) : p \in Opener}

MigrationTypeOK ==
  /\ recorded \subseteq MaxVersion
  /\ schema \subseteq MaxVersion \X (1..Statements)
  /\ writer \in Opener \cup {Nobody}
  /\ opener \in [Opener ->
       [pc     : {"closed", "version", "list", "migrate", "open"},
        opens  : 0..MaxOpens,
        todo   : SUBSET MaxVersion,
        staged : SUBSET (MaxVersion \X (1..Statements))]]

\* The migrations recorded are the first so many, and the statements in
\* effect are exactly theirs, whoever else migrates at the time and wherever
\* one of them fails ("migrations run in order", "migration statements run
\* transactionally", docs/storage-migrations.md; migrations.go 198-216).
SchemaAsRecorded ==
  /\ \A v \in recorded : 1..v \subseteq recorded
  /\ schema = UNION {Statement(v) : v \in recorded}

\* A store that Open has returned has every table its program knows of,
\* although the list of migrations to apply was read before another process
\* applied some of them (migrations.go 136-172).
OpenedIsCurrent ==
  \A p \in Opener : opener[p].pc = "open" => Versions(p) \subseteq recorded
=============================================================================
