---------------------------- MODULE StorageProofs ----------------------------
(***************************************************************************)
(* Proofs about what the storage layer promises of the disk: the schema is *)
(* exactly the recorded migrations, a file that atomicWriteFile replaces   *)
(* is never seen torn and outlives a power failure once it has returned,   *)
(* an acknowledged event is one line of the log; for any number of         *)
(* processes and goroutines, versions, files and events.                   *)
(***************************************************************************)
EXTENDS Migrations, AtomicFile, EventLog, TLAPS, FiniteSetTheorems,
        SequenceTheorems

(***************************************************************************)
(* Migrations.  A process that migrates has still to do whatever of its    *)
(* versions is not recorded, whoever records in the meantime; so the least *)
(* of its list is the first that is missing.                               *)
(***************************************************************************)
OpenerRecord == [pc     : {"closed", "version", "list", "migrate", "open"},
                 opens  : 0..MaxOpens,
                 todo   : SUBSET MaxVersion,
                 staged : SUBSET (MaxVersion \X (1..Statements))]

StagedFinite == \A p \in Opener : IsFiniteSet(opener[p].staged)

NothingOverlooked ==
  \A p \in Opener :
    /\ opener[p].pc = "migrate" => Versions(p) \subseteq recorded \cup opener[p].todo
    /\ opener[p].pc = "open" => Versions(p) \subseteq recorded

MigrationInv ==
  /\ MigrationTypeOK
  /\ StagedFinite
  /\ NothingOverlooked
  /\ SchemaAsRecorded

\* A process that has closed the database, or was refused it, is typed.
LEMMA ClosedType ==
  ASSUME NEW n \in 0..MaxOpens
  PROVE  Closed(n) \in OpenerRecord /\ Closed(n).staged = {}
BY DEF Closed, OpenerRecord

\* An empty database records nothing and holds nothing.
LEMMA MigrationInvInit == MigrationInit => MigrationInv
<1> SUFFICES ASSUME MigrationInit PROVE MigrationInv
  OBVIOUS
<1>1. 0 \in 0..MaxOpens
  BY MigrationAssumption
<1>2. MigrationTypeOK
  <2> HIDE DEF Closed
  <2> QED
    BY <1>1, ClosedType DEF MigrationInit, MigrationTypeOK, OpenerRecord
<1>3. StagedFinite
  BY FS_EmptySet DEF MigrationInit, StagedFinite, Closed
<1>4. NothingOverlooked
  BY DEF MigrationInit, NothingOverlooked, Closed
<1>5. SchemaAsRecorded
  BY DEF MigrationInit, SchemaAsRecorded
<1> QED
  BY <1>2, <1>3, <1>4, <1>5 DEF MigrationInv

\* A step that moves one process and leaves the tables alone.
LEMMA OpenerMoves ==
  ASSUME MigrationInv, NEW p \in Opener, NEW r \in OpenerRecord,
         opener' = [opener EXCEPT ![p] = r], IsFiniteSet(r.staged),
         r.pc = "migrate" => Versions(p) \subseteq recorded \cup r.todo,
         r.pc = "open" => Versions(p) \subseteq recorded,
         writer' \in Opener \cup {Nobody},
         UNCHANGED <<recorded, schema>>
  PROVE  MigrationInv'
<1> USE DEF MigrationInv
<1>1. MigrationTypeOK'
  BY DEF MigrationTypeOK, OpenerRecord
<1>2. \A q \in Opener : opener'[q] = IF q = p THEN r ELSE opener[q]
  BY DEF MigrationTypeOK
<1>3. StagedFinite'
  BY <1>2 DEF StagedFinite
<1>4. NothingOverlooked'
  BY <1>2 DEF NothingOverlooked, Versions
<1>5. SchemaAsRecorded'
  BY DEF SchemaAsRecorded
<1> QED
  BY <1>1, <1>3, <1>4, <1>5

\* One more statement of the transaction under way (tx.ExecContext).
LEMMA ExecStatementStep ==
  ASSUME MigrationInv, NEW p \in Opener, NEW v \in Versions(p),
         execStatement(p, v)
  PROVE  MigrationInv'
<1> DEFINE k == Cardinality(opener[p].staged) + 1
           r == [opener[p] EXCEPT !.staged = @ \cup {<<v, k>>}]
<1>1. /\ isNext(p, v) /\ k <= Statements /\ writer' = p
      /\ opener' = [opener EXCEPT ![p] = r]
      /\ UNCHANGED <<recorded, schema>>
  BY DEF execStatement, MigrationInv, MigrationTypeOK
<1>2. opener[p] \in OpenerRecord /\ IsFiniteSet(opener[p].staged)
  BY DEF MigrationInv, MigrationTypeOK, StagedFinite, OpenerRecord
<1>3. k \in 1..Statements
  BY <1>1, <1>2, FS_CardinalityType, MigrationAssumption
<1> HIDE DEF k
<1>4. <<v, k>> \in MaxVersion \X (1..Statements)
  BY <1>3 DEF MaxVersion
<1>5. r \in OpenerRecord /\ r.pc = "migrate" /\ r.todo = opener[p].todo
  BY <1>1, <1>2, <1>4 DEF OpenerRecord, isNext
<1>6. IsFiniteSet(r.staged)
  <2>1. r.staged = opener[p].staged \cup {<<v, k>>}
    BY <1>2 DEF OpenerRecord
  <2> QED
    BY <1>2, <2>1, FS_AddElement
<1> HIDE DEF r
<1> QED
  BY <1>1, <1>5, <1>6, OpenerMoves DEF MigrationInv, NothingOverlooked, isNext

\* The record and the statements of a migration take effect together, and no
\* version below it is missing (migrations.go 198-216).
LEMMA RecordMigrationStep ==
  ASSUME MigrationInv, NEW p \in Opener, NEW v \in Versions(p),
         recordMigration(p, v)
  PROVE  MigrationInv'
<1> DEFINE r == [opener[p] EXCEPT !.todo = @ \ {v}, !.staged = {}]
<1>1. /\ isNext(p, v) /\ opener[p].staged = Statement(v)
      /\ recorded' = recorded \cup {v}
      /\ schema' = schema \cup opener[p].staged
      /\ writer' \in Opener \cup {Nobody}
      /\ opener' = [opener EXCEPT ![p] = r]
  BY DEF recordMigration, MigrationInv, MigrationTypeOK
<1>2. opener[p] \in OpenerRecord
  BY DEF MigrationInv, MigrationTypeOK, OpenerRecord
<1>3. /\ r \in OpenerRecord /\ r.pc = opener[p].pc
      /\ r.todo = opener[p].todo \ {v} /\ r.staged = {}
  BY <1>2 DEF OpenerRecord
<1> HIDE DEF r
<1>4. \A q \in Opener : opener'[q] = IF q = p THEN r ELSE opener[q]
  BY <1>1 DEF MigrationInv, MigrationTypeOK
<1>5. MigrationTypeOK'
  <2>1. v \in MaxVersion
    BY DEF MaxVersion
  <2>2. schema' \subseteq MaxVersion \X (1..Statements)
    BY <1>1, <1>2 DEF MigrationInv, MigrationTypeOK, OpenerRecord
  <2>3. opener' \in [Opener -> OpenerRecord]
    BY <1>1, <1>3 DEF MigrationInv, MigrationTypeOK, OpenerRecord
  <2> QED
    BY <1>1, <2>1, <2>2, <2>3
       DEF MigrationInv, MigrationTypeOK, OpenerRecord
<1>6. StagedFinite'
  BY <1>3, <1>4, FS_EmptySet DEF MigrationInv, StagedFinite
<1>7. NothingOverlooked'
  <2>1. ASSUME NEW q \in Opener
        PROVE  /\ opener'[q].pc = "migrate" =>
                    Versions(q) \subseteq recorded' \cup opener'[q].todo
               /\ opener'[q].pc = "open" => Versions(q) \subseteq recorded'
    <3>1. CASE q = p
      BY <1>1, <1>3, <1>4, <3>1 DEF MigrationInv, NothingOverlooked, isNext
    <3>2. CASE q # p
      BY <1>1, <1>4, <3>2 DEF MigrationInv, NothingOverlooked
    <3> QED
      BY <3>1, <3>2
  <2> QED
    BY <2>1 DEF NothingOverlooked, Versions
<1>8. SchemaAsRecorded'
  <2>1. ASSUME NEW u \in 1..v
        PROVE  u \in recorded'
    <3>1. u \in Versions(p)
      BY MigrationAssumption DEF Versions
    <3>2. u \in recorded \/ u \in opener[p].todo
      BY <1>1, <3>1 DEF MigrationInv, NothingOverlooked, isNext
    <3>3. u \in opener[p].todo => u = v
      BY <1>1, MigrationAssumption DEF isNext, Versions
    <3> QED
      BY <1>1, <3>2, <3>3
  <2>2. \A u \in recorded' : 1..u \subseteq recorded'
    BY <1>1, <2>1 DEF MigrationInv, SchemaAsRecorded
  <2>3. schema' = UNION {Statement(u) : u \in recorded'}
    BY <1>1 DEF MigrationInv, SchemaAsRecorded
  <2> QED
    BY <2>2, <2>3 DEF SchemaAsRecorded, Statement
<1> QED
  BY <1>5, <1>6, <1>7, <1>8 DEF MigrationInv

\* Every step of opening and closing the database keeps the invariant.
LEMMA MigrationInvStep ==
  MigrationInv /\ [MigrationNext]_migrationVars => MigrationInv'
<1> SUFFICES ASSUME MigrationInv, [MigrationNext]_migrationVars
             PROVE  MigrationInv'
  OBVIOUS
<1>1. ASSUME NEW p \in Opener
      PROVE  /\ opener[p] \in OpenerRecord
             /\ IsFiniteSet(opener[p].staged)
             /\ Closed(opener[p].opens) \in OpenerRecord
             /\ Closed(opener[p].opens).staged = {}
             /\ Closed(opener[p].opens).pc = "closed"
             /\ writer \in Opener \cup {Nobody}
  <2>1. opener[p] \in OpenerRecord /\ IsFiniteSet(opener[p].staged)
    BY DEF MigrationInv, MigrationTypeOK, StagedFinite, OpenerRecord
  <2> QED
    BY <2>1, ClosedType
       DEF OpenerRecord, Closed, MigrationInv, MigrationTypeOK
<1>2. ASSUME NEW p \in Opener, Open(p)
      PROVE  MigrationInv'
  <2> DEFINE r == [opener[p] EXCEPT !.pc = "version", !.opens = @ + 1]
  <2>1. opener' = [opener EXCEPT ![p] = r] /\ UNCHANGED <<recorded, schema, writer>>
    BY <1>2 DEF Open, MigrationInv, MigrationTypeOK
  <2>2. opener[p].opens + 1 \in 0..MaxOpens
    BY <1>1, <1>2, MigrationAssumption DEF Open, OpenerRecord
  <2>3. r \in OpenerRecord /\ r.pc = "version" /\ r.staged = opener[p].staged
    BY <1>1, <2>2 DEF OpenerRecord
  <2> HIDE DEF r
  <2> QED
    BY <1>1, <2>1, <2>3, OpenerMoves
<1>3. ASSUME NEW p \in Opener, currentSchemaVersion(p)
      PROVE  MigrationInv'
  <2> DEFINE r == [opener[p] EXCEPT !.pc = "list"]
  <2>1. /\ \/ opener' = [opener EXCEPT ![p] = Closed(opener[p].opens)]
           \/ opener' = [opener EXCEPT ![p] = r]
        /\ UNCHANGED <<recorded, schema, writer>>
    BY <1>3 DEF currentSchemaVersion, MigrationInv, MigrationTypeOK
  <2>2. r \in OpenerRecord /\ r.pc = "list" /\ r.staged = opener[p].staged
    BY <1>1 DEF OpenerRecord
  <2> HIDE DEF r, Closed
  <2>3. CASE opener' = [opener EXCEPT ![p] = Closed(opener[p].opens)]
    <3>1. UNCHANGED <<recorded, schema, writer>>
      BY <2>1
    <3> QED
      BY <1>1, <2>3, <3>1, FS_EmptySet, OpenerMoves
  <2>4. CASE opener' = [opener EXCEPT ![p] = r]
    BY <1>1, <2>1, <2>2, <2>4, OpenerMoves
  <2> QED
    BY <2>1, <2>3, <2>4
<1>4. ASSUME NEW p \in Opener, appliedMigrations(p)
      PROVE  MigrationInv'
  <2> DEFINE r == [opener[p] EXCEPT !.pc = "migrate",
                                    !.todo = Versions(p) \ recorded]
  <2>1. opener' = [opener EXCEPT ![p] = r] /\ UNCHANGED <<recorded, schema, writer>>
    BY <1>4 DEF appliedMigrations, MigrationInv, MigrationTypeOK
  <2>2. Versions(p) \subseteq MaxVersion
    BY DEF MaxVersion
  <2>3. /\ r \in OpenerRecord /\ r.pc = "migrate"
        /\ r.staged = opener[p].staged /\ r.todo = Versions(p) \ recorded
    BY <1>1, <2>2 DEF OpenerRecord
  <2> HIDE DEF r
  <2> QED
    BY <1>1, <2>1, <2>3, OpenerMoves
<1>5. ASSUME NEW p \in Opener, openFails(p) \/ Close(p)
      PROVE  MigrationInv'
  <2>1. /\ opener' = [opener EXCEPT ![p] = Closed(opener[p].opens)]
        /\ writer' \in {writer, Nobody}
        /\ UNCHANGED <<recorded, schema>>
    BY <1>5 DEF openFails, Close, MigrationInv, MigrationTypeOK
  <2> HIDE DEF Closed
  <2> QED
    BY <1>1, <2>1, FS_EmptySet, OpenerMoves
<1>6. ASSUME NEW p \in Opener, OpenReturns(p)
      PROVE  MigrationInv'
  <2> DEFINE r == [opener[p] EXCEPT !.pc = "open"]
  <2>1. /\ opener' = [opener EXCEPT ![p] = r]
        /\ opener[p].pc = "migrate" /\ opener[p].todo = {}
        /\ UNCHANGED <<recorded, schema, writer>>
    BY <1>6 DEF OpenReturns, MigrationInv, MigrationTypeOK
  <2>2. r \in OpenerRecord /\ r.pc = "open" /\ r.staged = opener[p].staged
    BY <1>1 DEF OpenerRecord
  <2>3. Versions(p) \subseteq recorded
    BY <2>1 DEF MigrationInv, NothingOverlooked
  <2> HIDE DEF r
  <2> QED
    BY <1>1, <2>1, <2>2, <2>3, OpenerMoves
<1>7. CASE UNCHANGED migrationVars
  BY <1>7 DEF migrationVars, MigrationInv, MigrationTypeOK, StagedFinite,
              NothingOverlooked, SchemaAsRecorded
<1> QED
  BY <1>2, <1>3, <1>4, <1>5, <1>6, <1>7, ExecStatementStep, RecordMigrationStep
     DEF MigrationNext, runMigrations, applyMigration

\* The types of the tables, of the writer and of the processes.
THEOREM MigrationTypes == MigrationSpec => []MigrationTypeOK
<1>1. MigrationInv => MigrationTypeOK
  BY DEF MigrationInv
<1> QED
  BY <1>1, MigrationInvInit, MigrationInvStep, PTL DEF MigrationSpec

\* The tables of the database are those of the first so many migrations,
\* exactly the recorded ones (migrations.go 198-216).
THEOREM SchemaIsRecorded == MigrationSpec => []SchemaAsRecorded
<1>1. MigrationInv => SchemaAsRecorded
  BY DEF MigrationInv
<1> QED
  BY <1>1, MigrationInvInit, MigrationInvStep, PTL DEF MigrationSpec

\* A store that Open has returned has every table its program knows of
\* (migrations.go 136-172).
THEOREM OpenStoreIsCurrent == MigrationSpec => []OpenedIsCurrent
<1>1. MigrationInv => OpenedIsCurrent
  BY DEF MigrationInv, NothingOverlooked, OpenedIsCurrent
<1> QED
  BY <1>1, MigrationInvInit, MigrationInvStep, PTL DEF MigrationSpec

(***************************************************************************)
(* Files.  A file that the path may name, now or after a power failure, is *)
(* complete and on the disk; the files that writers are still at are their *)
(* own and were never named.                                               *)
(***************************************************************************)
WriterRecord == [pc  : {"idle", "write", "sync", "rename", "syncDir"},
                 tmp : WrittenFile]

Ranked == {g \in WrittenFile : rank[g] > 0}

FileShape ==
  /\ dir \in {"missing", "made", "kept"}
  /\ named \in mayName
  /\ mayName \subseteq WrittenFile
  /\ contents \in [WrittenFile -> {"none", "some", "all"}]
  /\ synced \subseteq WrittenFile
  /\ files \in 0..MaxFiles
  /\ rank \in [WrittenFile -> Nat]
  /\ returned \subseteq WrittenFile /\ gone \subseteq WrittenFile
  /\ fileWriter \in [FileWriter -> WriterRecord]

\* What the disk may show is whole, and so is what was there before, which a
\* lost directory leaves.
DiskWhole ==
  \A f \in mayName \cup {OldFile} : contents[f] = "all" /\ f \in synced

\* A temporary file is one that was made, is no other writer's, and was not
\* named before its writer renames it; only synced files are renamed.
OwnFile(w) ==
  LET f == fileWriter[w].tmp
  IN /\ fileWriter[w].pc # "idle" => f \in 1..files
     /\ fileWriter[w].pc \in {"write", "sync", "rename"} =>
          f \notin mayName /\ f \notin returned /\ rank[f] = 0
     /\ fileWriter[w].pc \in {"sync", "rename"} => contents[f] = "all"
     /\ fileWriter[w].pc = "rename" => f \in synced
     /\ fileWriter[w].pc = "syncDir" => rank[named] >= rank[f]

FilesApart ==
  \A v, w \in FileWriter :
    v # w /\ fileWriter[v].pc # "idle" /\ fileWriter[w].pc # "idle" =>
      fileWriter[v].tmp # fileWriter[w].tmp

\* Files that are still to be made are not anywhere.
FutureUntouched ==
  \A f \in WrittenFile : f > files =>
    f \notin mayName /\ f \notin returned /\ rank[f] = 0

\* No file was named after more files than there were.
RanksCount == \A f \in WrittenFile : rank[f] <= Cardinality(Ranked)

FileInv ==
  /\ FileShape
  /\ DiskWhole
  /\ \A w \in FileWriter : OwnFile(w)
  /\ FilesApart
  /\ FutureUntouched
  /\ RanksCount
  /\ ReturnedIsDurable

\* The path names the old file, and nobody writes.
LEMMA FileInvInit == AtomicInit => FileInv
<1> SUFFICES ASSUME AtomicInit PROVE FileInv
  OBVIOUS
<1>1. OldFile \in WrittenFile /\ 0 \in 0..MaxFiles
  BY AtomicAssumption DEF OldFile, WrittenFile
<1>2. IdleFileWriter \in WriterRecord /\ IdleFileWriter.pc = "idle"
  BY <1>1 DEF IdleFileWriter, WriterRecord
<1>3. FileShape
  <2> HIDE DEF IdleFileWriter, OldFile, WrittenFile
  <2> QED
    BY <1>1, <1>2 DEF AtomicInit, FileShape
<1>4. DiskWhole
  BY <1>1 DEF AtomicInit, DiskWhole
<1>5. \A w \in FileWriter : OwnFile(w)
  BY <1>2 DEF AtomicInit, OwnFile
<1>6. FilesApart
  BY <1>2 DEF AtomicInit, FilesApart
<1>7. FutureUntouched
  BY <1>1 DEF AtomicInit, FutureUntouched, OldFile
<1>8. RanksCount
  <2>1. Ranked = {}
    BY DEF AtomicInit, Ranked
  <2> QED
    BY <2>1, FS_EmptySet DEF AtomicInit, RanksCount
<1>9. ReturnedIsDurable
  BY DEF AtomicInit, ReturnedIsDurable
<1> QED
  BY <1>3, <1>4, <1>5, <1>6, <1>7, <1>8, <1>9 DEF FileInv

\* A writer makes a file that nobody has (O_EXCL, atomic.go).
LEMMA CreateStep ==
  ASSUME FileInv, NEW w \in FileWriter, createAtomicTempFile(w)
  PROVE  FileInv'
<1> DEFINE r == [pc |-> "write", tmp |-> files + 1]
<1>1. /\ files < MaxFiles /\ files' = files + 1
      /\ fileWriter' = [fileWriter EXCEPT ![w] = r]
      /\ dir' \in {dir, "made"}
      /\ UNCHANGED <<named, mayName, contents, synced, rank, returned, gone>>
  BY DEF createAtomicTempFile, ensureDirNoSymlink, atomicHistory
<1>2. files + 1 \in WrittenFile /\ files \in Nat /\ r \in WriterRecord
  BY <1>1, AtomicAssumption DEF FileInv, FileShape, WrittenFile, WriterRecord
<1>3. \A v \in FileWriter : fileWriter'[v] = IF v = w THEN r ELSE fileWriter[v]
  BY <1>1 DEF FileInv, FileShape
<1>4. FileShape'
  BY <1>1, <1>2, AtomicAssumption DEF FileInv, FileShape
<1>5. DiskWhole' /\ RanksCount' /\ ReturnedIsDurable'
  BY <1>1 DEF FileInv, DiskWhole, RanksCount, Ranked, ReturnedIsDurable
<1>6. ASSUME NEW v \in FileWriter
      PROVE  OwnFile(v)'
  <2>1. CASE v = w
    BY <1>1, <1>2, <1>3, <2>1 DEF FileInv, FutureUntouched, OwnFile
  <2>2. CASE v # w
    BY <1>1, <1>2, <1>3, <2>2 DEF FileInv, OwnFile
  <2> QED
    BY <2>1, <2>2
<1>7. FilesApart'
  BY <1>2, <1>3 DEF FileInv, FilesApart, OwnFile
<1>8. FutureUntouched'
  BY <1>1, <1>2 DEF FileInv, FutureUntouched, WrittenFile
<1> QED
  BY <1>4, <1>5, <1>6, <1>7, <1>8 DEF FileInv

\* A step of one writer that goes on with its file, or gives it up, and
\* touches nothing else but that file's own data.
LEMMA WriterMoves ==
  ASSUME FileInv, NEW w \in FileWriter, NEW r \in WriterRecord,
         fileWriter' = [fileWriter EXCEPT ![w] = r],
         r.pc = "idle" \/ (fileWriter[w].pc # "idle" /\ r.tmp = fileWriter[w].tmp),
         contents' \in [WrittenFile -> {"none", "some", "all"}],
         \A f \in WrittenFile \ {fileWriter[w].tmp} : contents'[f] = contents[f],
         fileWriter[w].pc # "write" => contents' = contents,
         synced \subseteq synced', synced' \subseteq WrittenFile,
         UNCHANGED <<dir, named, mayName, files, rank, returned, gone>>,
         OwnFile(w)'
  PROVE  FileInv'
<1>1. \A v \in FileWriter : fileWriter'[v] = IF v = w THEN r ELSE fileWriter[v]
  BY DEF FileInv, FileShape
<1>2. FileShape'
  BY DEF FileInv, FileShape
<1>3. RanksCount' /\ ReturnedIsDurable' /\ FutureUntouched'
  BY DEF FileInv, RanksCount, Ranked, ReturnedIsDurable, FutureUntouched
<1>4. DiskWhole'
  BY AtomicAssumption
     DEF FileInv, FileShape, DiskWhole, OwnFile, OldFile, WrittenFile
<1>5. ASSUME NEW v \in FileWriter, v # w
      PROVE  OwnFile(v)'
  <2>1. OwnFile(v) /\ OwnFile(w) /\ fileWriter'[v] = fileWriter[v]
    BY <1>1, <1>5 DEF FileInv
  <2>2. fileWriter[v].pc \in {"sync", "rename"} =>
          contents'[fileWriter[v].tmp] = contents[fileWriter[v].tmp]
    BY <1>5 DEF FileInv, FileShape, FilesApart, WriterRecord
  <2> QED
    BY <2>1, <2>2 DEF OwnFile
<1>6. FilesApart'
  BY <1>1 DEF FileInv, FilesApart
<1> QED
  BY <1>2, <1>3, <1>4, <1>5, <1>6 DEF FileInv

\* Writing, syncing and giving up a temporary file.
LEMMA TempStep ==
  ASSUME FileInv, NEW w \in FileWriter,
         writeTemp(w) \/ syncTemp(w) \/ writeFails(w)
  PROVE  FileInv'
<1>1. fileWriter[w] \in WriterRecord /\ fileWriter[w].tmp \in WrittenFile
  BY DEF FileInv, FileShape, WriterRecord
<1>2. OwnFile(w)
  BY DEF FileInv
<1> DEFINE f == fileWriter[w].tmp
<1>3. CASE writeTemp(w) /\ UNCHANGED fileWriter
  <2>1. /\ fileWriter[w].pc = "write"
        /\ contents' \in {[contents EXCEPT ![f] = "some"],
                          [contents EXCEPT ![f] = "all"]}
        /\ UNCHANGED <<dir, named, mayName, synced, files, rank, returned, gone>>
    BY <1>3 DEF writeTemp, atomicHistory
  <2>2. /\ contents' \in [WrittenFile -> {"none", "some", "all"}]
        /\ \A g \in WrittenFile \ {f} : contents'[g] = contents[g]
    BY <2>1 DEF FileInv, FileShape
  <2>3. fileWriter' = [fileWriter EXCEPT ![w] = fileWriter[w]]
    BY <1>3 DEF FileInv, FileShape
  <2>4. OwnFile(w)'
    BY <1>2, <1>3, <2>1 DEF OwnFile
  <2> QED
    BY <1>1, <2>1, <2>2, <2>3, <2>4, WriterMoves DEF FileInv, FileShape
<1>4. CASE writeTemp(w) /\ fileWriter' # fileWriter
  <2> DEFINE r == [fileWriter[w] EXCEPT !.pc = "sync"]
  <2>1. /\ fileWriter[w].pc = "write"
        /\ contents' = [contents EXCEPT ![f] = "all"]
        /\ fileWriter' = [fileWriter EXCEPT ![w] = r]
        /\ UNCHANGED <<dir, named, mayName, synced, files, rank, returned, gone>>
    BY <1>4 DEF writeTemp, atomicHistory, FileInv, FileShape
  <2>2. /\ contents' \in [WrittenFile -> {"none", "some", "all"}]
        /\ contents'[f] = "all"
        /\ \A g \in WrittenFile \ {f} : contents'[g] = contents[g]
    BY <1>1, <2>1 DEF FileInv, FileShape
  <2>3. r \in WriterRecord /\ r.pc = "sync" /\ r.tmp = f
    BY <1>1 DEF WriterRecord
  <2> HIDE DEF r
  <2>4. fileWriter'[w] = r
    BY <2>1 DEF FileInv, FileShape
  <2>5. OwnFile(w)'
    BY <1>2, <2>1, <2>2, <2>3, <2>4 DEF OwnFile
  <2> QED
    BY <1>1, <2>1, <2>2, <2>3, <2>5, WriterMoves DEF FileInv, FileShape
<1>5. CASE syncTemp(w)
  <2> DEFINE r == [fileWriter[w] EXCEPT !.pc = "rename"]
  <2>1. /\ fileWriter[w].pc = "sync"
        /\ synced' = synced \cup {f}
        /\ fileWriter' = [fileWriter EXCEPT ![w] = r]
        /\ UNCHANGED <<dir, named, mayName, contents, files, rank, returned, gone>>
    BY <1>5 DEF syncTemp, atomicHistory, FileInv, FileShape
  <2>2. r \in WriterRecord /\ r.pc = "rename" /\ r.tmp = f
    BY <1>1 DEF WriterRecord
  <2> HIDE DEF r
  <2>3. fileWriter'[w] = r
    BY <2>1 DEF FileInv, FileShape
  <2>4. OwnFile(w)'
    BY <1>2, <2>1, <2>2, <2>3 DEF OwnFile
  <2> QED
    BY <1>1, <2>1, <2>2, <2>4, WriterMoves DEF FileInv, FileShape
<1>6. CASE writeFails(w)
  <2>1. /\ fileWriter' = [fileWriter EXCEPT ![w] = IdleFileWriter]
        /\ UNCHANGED <<dir, named, mayName, contents, synced, files, rank, returned,
                    gone>>
    BY <1>6 DEF writeFails, atomicDisk, atomicHistory
  <2>2. IdleFileWriter \in WriterRecord /\ IdleFileWriter.pc = "idle"
    BY AtomicAssumption
       DEF IdleFileWriter, WriterRecord, OldFile, WrittenFile
  <2> HIDE DEF IdleFileWriter
  <2>3. OwnFile(w)'
    BY <2>1, <2>2 DEF OwnFile, FileInv, FileShape
  <2> QED
    BY <2>1, <2>2, <2>3, WriterMoves DEF FileInv, FileShape
<1> QED
  BY <1>3, <1>4, <1>5, <1>6

\* The renamed file is whole, and was named after all others.
LEMMA RenameStep ==
  ASSUME FileInv, NEW w \in FileWriter, Rename(w)
  PROVE  FileInv'
<1> DEFINE f == fileWriter[w].tmp
           r == [fileWriter[w] EXCEPT !.pc = "syncDir"]
           n == 1 + Cardinality(Ranked)
<1>1. /\ fileWriter[w].pc = "rename" /\ named' = f
      /\ mayName' = mayName \cup {f}
      /\ rank' = [rank EXCEPT ![f] = n]
      /\ fileWriter' = [fileWriter EXCEPT ![w] = r]
      /\ UNCHANGED <<dir, contents, synced, files, returned, gone>>
  BY DEF Rename, Ranked, FileInv, FileShape
<1>2. f \in WrittenFile /\ f \in 1..files
  BY <1>1 DEF FileInv, FileShape, WriterRecord, OwnFile
<1>3. /\ f \notin mayName /\ f \notin returned /\ rank[f] = 0
      /\ contents[f] = "all" /\ f \in synced
  BY <1>1 DEF FileInv, OwnFile
<1>4. r \in WriterRecord /\ r.pc = "syncDir" /\ r.tmp = f
  BY <1>2 DEF FileInv, FileShape, WriterRecord
<1>5. Ranked \subseteq WrittenFile /\ IsFiniteSet(WrittenFile)
  BY AtomicAssumption, FS_Interval DEF Ranked, WrittenFile
<1>6. IsFiniteSet(Ranked) /\ Cardinality(Ranked) \in Nat
  BY <1>5, FS_Subset, FS_CardinalityType
<1>7. n \in Nat /\ n > 0
  BY <1>6
<1> HIDE DEF r, n
<1>8. \A g \in WrittenFile : rank'[g] = IF g = f THEN n ELSE rank[g]
  BY <1>1 DEF FileInv, FileShape
<1>9. \A v \in FileWriter : fileWriter'[v] = IF v = w THEN r ELSE fileWriter[v]
  BY <1>1 DEF FileInv, FileShape
<1>10. Ranked' = Ranked \cup {f} /\ f \notin Ranked
  BY <1>2, <1>3, <1>7, <1>8 DEF Ranked
<1>11. Cardinality(Ranked)' = n
  BY <1>6, <1>10, FS_AddElement DEF n
<1>12. \A g \in WrittenFile : rank[g] <= n /\ rank[g] \in Nat
  BY <1>6 DEF FileInv, FileShape, RanksCount, n
<1>13. FileShape'
  BY <1>1, <1>2, <1>4, <1>7 DEF FileInv, FileShape
<1>14. DiskWhole'
  BY <1>1, <1>3 DEF FileInv, DiskWhole
<1>15. ASSUME NEW v \in FileWriter
       PROVE  OwnFile(v)'
  <2>1. CASE v = w
    BY <1>1, <1>2, <1>4, <1>7, <1>8, <1>9, <2>1 DEF OwnFile
  <2>2. CASE v # w
    <3>1. /\ fileWriter'[v] = fileWriter[v] /\ OwnFile(v)
          /\ fileWriter[v].tmp \in WrittenFile
      BY <1>9, <2>2 DEF FileInv, FileShape, WriterRecord
    <3>2. fileWriter[v].pc # "idle" => fileWriter[v].tmp # f
      BY <1>1, <2>2 DEF FileInv, FilesApart
    <3>3. rank'[named'] >= rank'[fileWriter[v].tmp]
      BY <1>1, <1>2, <1>7, <1>8, <1>12, <3>1
    <3> QED
      BY <1>1, <1>8, <3>1, <3>2, <3>3 DEF OwnFile
  <2> QED
    BY <2>1, <2>2
<1>16. FilesApart'
  BY <1>1, <1>4, <1>9 DEF FileInv, FilesApart
<1>17. FutureUntouched'
  BY <1>1, <1>2, <1>8 DEF FileInv, FileShape, FutureUntouched
<1>18. RanksCount'
  BY <1>7, <1>8, <1>11, <1>12 DEF RanksCount
<1>19. ReturnedIsDurable'
  <2>1. ASSUME NEW g \in returned \ gone, NEW h \in mayName'
        PROVE  rank'[h] >= rank'[g]
    <3>1. g \in WrittenFile /\ h \in WrittenFile /\ g # f
      BY <1>1, <1>2, <1>3 DEF FileInv, FileShape
    <3>2. CASE h = f
      BY <1>7, <1>8, <1>12, <3>1, <3>2
    <3>3. CASE h # f
      BY <1>1, <1>8, <3>1, <3>3 DEF FileInv, ReturnedIsDurable
    <3> QED
      BY <3>2, <3>3
  <2> QED
    BY <1>1, <2>1 DEF ReturnedIsDurable
<1> QED
  BY <1>13, <1>14, <1>15, <1>16, <1>17, <1>18, <1>19 DEF FileInv

\* Once the directory is on the disk, the path names this file or a later one.
LEMMA SyncDirStep ==
  ASSUME FileInv, NEW w \in FileWriter, syncDir(w)
  PROVE  FileInv'
<1> DEFINE f == fileWriter[w].tmp
<1>1. /\ fileWriter[w].pc = "syncDir" /\ mayName' = {named}
      /\ returned' = returned \cup {f}
      /\ fileWriter' = [fileWriter EXCEPT ![w] = IdleFileWriter]
      /\ UNCHANGED <<dir, named, contents, synced, files, rank, gone>>
  BY DEF syncDir
<1>2. /\ f \in WrittenFile /\ f \in 1..files /\ rank[named] >= rank[f]
      /\ named \in mayName
  BY <1>1 DEF FileInv, FileShape, WriterRecord, OwnFile
<1>3. IdleFileWriter \in WriterRecord /\ IdleFileWriter.pc = "idle"
  BY AtomicAssumption DEF IdleFileWriter, WriterRecord, OldFile, WrittenFile
<1> HIDE DEF IdleFileWriter
<1>4. \A v \in FileWriter :
        fileWriter'[v] = IF v = w THEN IdleFileWriter ELSE fileWriter[v]
  BY <1>1 DEF FileInv, FileShape
<1>5. FileShape'
  BY <1>1, <1>2, <1>3 DEF FileInv, FileShape
<1>6. DiskWhole' /\ RanksCount'
  BY <1>1, <1>2 DEF FileInv, DiskWhole, RanksCount, Ranked
<1>7. ASSUME NEW v \in FileWriter
      PROVE  OwnFile(v)'
  <2>1. CASE v = w
    BY <1>3, <1>4, <2>1 DEF OwnFile
  <2>2. CASE v # w
    <3>1. /\ fileWriter'[v] = fileWriter[v] /\ OwnFile(v)
          /\ fileWriter[v].pc # "idle" => fileWriter[v].tmp # f
      BY <1>1, <1>4, <2>2 DEF FileInv, FilesApart
    <3> QED
      BY <1>1, <1>2, <3>1 DEF OwnFile
  <2> QED
    BY <2>1, <2>2
<1>8. FilesApart'
  BY <1>3, <1>4 DEF FileInv, FilesApart
<1>9. FutureUntouched'
  BY <1>1, <1>2 DEF FileInv, FileShape, FutureUntouched
<1>10. ReturnedIsDurable'
  BY <1>1, <1>2 DEF FileInv, ReturnedIsDurable
<1> QED
  BY <1>5, <1>6, <1>7, <1>8, <1>9, <1>10 DEF FileInv

\* After a power failure the path names a file that it might name before, with
\* its data, or nothing, when the directory is gone; no writer is left.
LEMMA PowerFailureStep ==
  ASSUME FileInv, PowerFailure
  PROVE  FileInv'
<1>1. /\ named' \in mayName \cup {OldFile} /\ mayName' = {named'}
      /\ contents' = contents /\ synced' = synced
      /\ dir' \in {"missing", "made", "kept"}
      /\ fileWriter' = [w \in FileWriter |-> IdleFileWriter]
      /\ UNCHANGED <<files, rank, returned>>
  <2>1. CASE directorySurvives
    BY <2>1 DEF directorySurvives, PowerFailure, FileInv, FileShape, DiskWhole
  <2>2. CASE directoryLost
    BY <2>2 DEF directoryLost, PowerFailure
  <2> QED
    BY <2>1, <2>2 DEF PowerFailure
<1>2. IdleFileWriter \in WriterRecord /\ IdleFileWriter.pc = "idle"
  BY AtomicAssumption DEF IdleFileWriter, WriterRecord, OldFile, WrittenFile
<1>3. OldFile \in WrittenFile /\ ~(OldFile > files) /\ named' \in WrittenFile
  BY <1>1, AtomicAssumption DEF FileInv, FileShape, OldFile, WrittenFile
<1>4. /\ gone \subseteq gone' /\ gone' \subseteq WrittenFile
      /\ named' \in mayName \/ returned \subseteq gone'
  BY DEF PowerFailure, directorySurvives, directoryLost, FileInv, FileShape
<1> HIDE DEF IdleFileWriter, OldFile
<1>5. FileShape'
  BY <1>1, <1>2, <1>3, <1>4 DEF FileInv, FileShape
<1>6. DiskWhole' /\ RanksCount'
  BY <1>1 DEF FileInv, DiskWhole, RanksCount, Ranked
<1>7. ReturnedIsDurable'
  BY <1>1, <1>4 DEF FileInv, ReturnedIsDurable
<1>8. FutureUntouched'
  BY <1>1, <1>3 DEF FileInv, FileShape, FutureUntouched
<1>9. (\A w \in FileWriter : OwnFile(w))' /\ FilesApart'
  BY <1>1, <1>2 DEF OwnFile, FilesApart
<1> QED
  BY <1>5, <1>6, <1>7, <1>8, <1>9 DEF FileInv

\* Every step of the writers and every power failure keeps the invariant.
LEMMA FileInvStep == FileInv /\ [AtomicNext]_atomicVars => FileInv'
<1> SUFFICES ASSUME FileInv, [AtomicNext]_atomicVars PROVE FileInv'
  OBVIOUS
<1>1. CASE UNCHANGED atomicVars
  BY <1>1 DEF atomicVars, atomicDisk, atomicHistory, FileInv, FileShape,
              DiskWhole, OwnFile, FilesApart, FutureUntouched, RanksCount,
              Ranked, ReturnedIsDurable
<1> QED
  BY <1>1, CreateStep, TempStep, RenameStep, SyncDirStep, PowerFailureStep
     DEF AtomicNext, atomicWriteFile

\* The old file was there before anything was renamed.
OldUnranked == rank[OldFile] = 0

\* Every rename has a file of its own, so no rank is above the number of files.
LEMMA AtomicTyped == FileInv /\ OldUnranked => AtomicTypeOK
<1> SUFFICES ASSUME FileInv, OldUnranked PROVE AtomicTypeOK
  OBVIOUS
<1>1. files \in Nat /\ files <= MaxFiles
  BY AtomicAssumption DEF FileInv, FileShape
<1>2. Ranked \subseteq 1..files
  BY <1>1, AtomicAssumption
     DEF Ranked, FileInv, FileShape, FutureUntouched, OldUnranked, OldFile,
         WrittenFile
<1>3. IsFiniteSet(1..files) /\ Cardinality(1..files) = files
  BY <1>1, FS_Interval
<1>4. Cardinality(Ranked) <= files /\ Cardinality(Ranked) \in Nat
  BY <1>2, <1>3, FS_Subset, FS_CardinalityType
<1>5. rank \in [WrittenFile -> 0..MaxFiles]
  <2>1. ASSUME NEW f \in WrittenFile PROVE rank[f] \in 0..MaxFiles
    BY <1>1, <1>4, AtomicAssumption DEF FileInv, FileShape, RanksCount
  <2> QED
    BY <2>1 DEF FileInv, FileShape
<1> QED
  BY <1>5 DEF AtomicTypeOK, FileInv, FileShape, WriterRecord

\* Files that are renamed were made.
LEMMA OldUnrankedStep ==
  FileInv /\ OldUnranked /\ [AtomicNext]_atomicVars => OldUnranked'
<1> SUFFICES ASSUME FileInv, OldUnranked, [AtomicNext]_atomicVars
             PROVE  OldUnranked'
  OBVIOUS
<1>1. ASSUME NEW w \in FileWriter, Rename(w) PROVE OldUnranked'
  <2> DEFINE f == fileWriter[w].tmp
             n == 1 + Cardinality({g \in WrittenFile : rank[g] > 0})
  <2>1. rank' = [rank EXCEPT ![f] = n]
    BY <1>1 DEF Rename
  <2>2. f # OldFile
    BY <1>1 DEF Rename, FileInv, OwnFile, OldFile
  <2> HIDE DEF f, n
  <2> QED
    BY <2>1, <2>2 DEF OldUnranked, FileInv, FileShape
<1>2. ASSUME rank' = rank PROVE OldUnranked'
  BY <1>2 DEF OldUnranked
<1> QED
  BY <1>1, <1>2
     DEF AtomicNext, atomicWriteFile, createAtomicTempFile, writeTemp, syncTemp,
         syncDir, writeFails, PowerFailure, atomicVars, atomicHistory

\* The types of the disk, of the writers and of the history.
THEOREM AtomicTypes == AtomicSpec => []AtomicTypeOK
<1>1. AtomicInit => OldUnranked
  BY AtomicAssumption DEF AtomicInit, OldUnranked, OldFile, WrittenFile
<1> QED
  BY <1>1, FileInvInit, FileInvStep, OldUnrankedStep, AtomicTyped, PTL
     DEF AtomicSpec

\* The path never shows a part of a file, to a reader at any moment or after a
\* power failure at any moment (atomic.go 38-56).
THEOREM NeverSeenTorn == AtomicSpec => []NeverTorn
<1>1. FileInv => NeverTorn
  BY DEF FileInv, FileShape, DiskWhole, NeverTorn
<1> QED
  BY <1>1, FileInvInit, FileInvStep, PTL DEF AtomicSpec

\* What a write that returned nil has written outlives a power failure, or
\* gives way to a later write only, unless it goes with a directory that was
\* made for it and whose own name nothing syncs (atomic.go 22, 53-60).
THEOREM WriteOutlivesPower == AtomicSpec => []ReturnedIsDurable
<1>1. FileInv => ReturnedIsDurable
  BY DEF FileInv
<1> QED
  BY <1>1, FileInvInit, FileInvStep, PTL DEF AtomicSpec

(***************************************************************************)
(* The event log.  The mutex keeps the two parts of a line together, an    *)
(* event is written once, and what is acknowledged is on the disk; this    *)
(* last part holds because every write is synced.                          *)
(***************************************************************************)
Part == [event : Event, part : {"first", "second"}]
AppenderRecord == [pc    : {"idle", "lock", "first", "second", "sync"},
                   event : 0..MaxEvents]
piece(e, k) == [event |-> e, part |-> k]

LogShape ==
  /\ log \in Seq(Part)
  /\ durable \in 0..Len(log)
  /\ appender \in [Appender -> AppenderRecord]
  /\ events \in 0..MaxEvents
  /\ acknowledged \subseteq Event

\* Who writes holds the mutex.
OneWrites ==
  \A a \in Appender : appender[a].pc \in {"first", "second", "sync"} => mu = a

\* Goroutines write events of their own.
EventsApart ==
  \A a, b \in Appender :
    a # b /\ appender[a].pc # "idle" /\ appender[b].pc # "idle" =>
      appender[a].event # appender[b].event

\* The events of the file have begun.
EventsBegan == \A i \in 1..Len(log) : log[i].event <= events

\* What the file has of the event that a is at, before position n: nothing.
unwritten(a, n) == \A i \in 1..n : log[i].event # appender[a].event

\* How far a has come with its event.
HasWritten(a) ==
  LET e == appender[a].event
      n == Len(log)
      pc == appender[a].pc
  IN /\ pc # "idle" => e \in 1..events /\ e \notin acknowledged
     /\ pc \in {"lock", "first"} => unwritten(a, n)
     /\ pc = "second" => n >= 1 /\ log[n] = piece(e, "first") /\ unwritten(a, n - 1)
     /\ pc = "sync" => /\ n >= 2 /\ log[n - 1] = piece(e, "first")
                       /\ log[n] = piece(e, "second") /\ unwritten(a, n - 2)

\* The line of an acknowledged event is on the disk, and it is one line, unless
\* the whole file was lost.
AcknowledgedThere ==
  \A e \in acknowledged : e <= events /\
    (e \notin goneEvents => \E i \in 1..durable - 1 :
       log[i] = piece(e, "first") /\ log[i + 1] = piece(e, "second"))

FirstThenSecond ==
  \A i \in 1..Len(log) :
    log[i].part = "first" /\ log[i].event \in acknowledged =>
      i + 1 <= durable /\ log[i + 1] = piece(log[i].event, "second")

LogInv ==
  /\ LogShape
  /\ OneWrites
  /\ EventsApart
  /\ EventsBegan
  /\ \A a \in Appender : HasWritten(a)
  /\ AcknowledgedThere
  /\ FirstThenSecond

\* The invariant says what WrittenIsOneLine promises: a line begins where the
\* one before it ended, unless that one was cut short.
LEMMA LogInvSays == LogInv => WrittenIsOneLine
<1> SUFFICES ASSUME LogInv, NEW e \in acknowledged \ goneEvents
             PROVE  \E i \in 1..Len(log) - 1 :
                      /\ log[i] = piece(e, "first")
                      /\ log[i + 1] = piece(e, "second")
                      /\ i > 1 => \/ log[i - 1].part = "second"
                                  \/ log[i - 1].event \notin acknowledged
  BY DEF WrittenIsOneLine, piece
<1>1. PICK i \in 1..durable - 1 :
        log[i] = piece(e, "first") /\ log[i + 1] = piece(e, "second")
  BY DEF LogInv, AcknowledgedThere
<1>2. Len(log) \in Nat /\ durable \in 0..Len(log)
  BY DEF LogInv, LogShape
<1>3. i \in 1..Len(log) - 1 /\ i \in Int
  BY <1>1, <1>2
<1>4. ASSUME i > 1, log[i - 1].part # "second",
             log[i - 1].event \in acknowledged
      PROVE  FALSE
  <2>1. i - 1 \in 1..Len(log) /\ (i - 1) + 1 = i
    BY <1>2, <1>3, <1>4
  <2>2. log[i - 1] \in Part
    BY <2>1 DEF LogInv, LogShape
  <2>3. log[i - 1].part = "first"
    BY <2>2, <1>4 DEF Part
  <2>4. log[i] = piece(log[i - 1].event, "second")
    BY <2>1, <2>3, <1>4 DEF LogInv, FirstThenSecond
  <2> QED
    BY <2>4, <1>1 DEF piece
<1> QED
  BY <1>1, <1>3, <1>4

\* An empty file.
LEMMA LogInvInit == LogInit => LogInv
<1> SUFFICES ASSUME LogInit PROVE LogInv
  OBVIOUS
<1>1. IdleAppender \in AppenderRecord /\ IdleAppender.pc = "idle"
  BY LogAssumption DEF IdleAppender, AppenderRecord
<1> HIDE DEF IdleAppender
<1>2. log = <<>> /\ Len(log) = 0
  BY DEF LogInit
<1>3. LogShape
  BY <1>1, <1>2, LogAssumption DEF LogInit, LogShape
<1>4. OneWrites /\ EventsApart /\ \A a \in Appender : HasWritten(a)
  BY <1>1 DEF LogInit, OneWrites, EventsApart, HasWritten
<1>5. EventsBegan /\ AcknowledgedThere /\ FirstThenSecond
  BY <1>2 DEF LogInit, EventsBegan, AcknowledgedThere, FirstThenSecond
<1> QED
  BY <1>3, <1>4, <1>5 DEF LogInv

\* A step of one goroutine that writes nothing.
LEMMA AppenderMoves ==
  ASSUME LogInv, NEW a \in Appender, NEW r \in AppenderRecord,
         appender' = [appender EXCEPT ![a] = r],
         \A b \in Appender \ {a} :
           appender[b].pc \in {"first", "second", "sync"} => mu' = b,
         r.pc \in {"first", "second", "sync"} => mu' = a,
         r.pc = "idle" \/ (appender[a].pc # "idle" /\ r.event = appender[a].event),
         r.pc \in {"idle", appender[a].pc} \/
           (appender[a].pc = "lock" /\ r.pc = "first"),
         UNCHANGED <<log, durable, events, acknowledged, goneEvents>>
  PROVE  LogInv'
<1>1. \A b \in Appender : appender'[b] = IF b = a THEN r ELSE appender[b]
  BY DEF LogInv, LogShape
<1>2. LogShape' /\ EventsBegan' /\ AcknowledgedThere' /\ FirstThenSecond'
  BY DEF LogInv, LogShape, EventsBegan, AcknowledgedThere, FirstThenSecond
<1>3. OneWrites'
  BY <1>1 DEF LogInv, OneWrites
<1>4. EventsApart'
  BY <1>1 DEF LogInv, EventsApart
<1>5. ASSUME NEW b \in Appender
      PROVE  HasWritten(b)'
  <2>1. CASE b = a
    BY <1>1, <2>1 DEF LogInv, HasWritten, unwritten
  <2>2. CASE b # a
    BY <1>1, <2>2 DEF LogInv, HasWritten, unwritten
  <2> QED
    BY <2>1, <2>2
<1> QED
  BY <1>2, <1>3, <1>4, <1>5 DEF LogInv

\* A goroutine takes up an event that nobody has.
LEMMA EncodeStep ==
  ASSUME LogInv, NEW a \in Appender, encodeEvent(a)
  PROVE  LogInv'
<1> DEFINE r == [pc |-> "lock", event |-> events + 1]
<1>1. /\ appender[a].pc = "idle" /\ events < MaxEvents /\ events' = events + 1
      /\ appender' = [appender EXCEPT ![a] = r]
      /\ UNCHANGED <<log, durable, mu, acknowledged, goneEvents>>
  BY DEF encodeEvent, logHistory
<1>2. /\ r \in AppenderRecord /\ events' \in 0..MaxEvents /\ events \in Nat
      /\ events' \in 1..events'
  BY <1>1, LogAssumption DEF LogInv, LogShape, AppenderRecord
<1>3. \A b \in Appender : appender'[b] = IF b = a THEN r ELSE appender[b]
  BY <1>1 DEF LogInv, LogShape
<1>4. LogShape'
  BY <1>1, <1>2 DEF LogInv, LogShape
<1>5. \A i \in 1..Len(log) : log[i].event \in Nat /\ log[i].event <= events
  <2>1. \A i \in 1..Len(log) : log[i] \in Part
    BY DEF LogInv, LogShape
  <2> QED
    BY <2>1 DEF LogInv, EventsBegan, Part, Event
<1>6. \A e \in acknowledged : e \in Nat /\ e <= events
  BY DEF LogInv, LogShape, AcknowledgedThere, Event
<1>7. OneWrites' /\ EventsBegan' /\ AcknowledgedThere' /\ FirstThenSecond'
  <2>1. OneWrites'
    BY <1>1, <1>3 DEF LogInv, OneWrites
  <2>2. EventsBegan'
    BY <1>1, <1>2, <1>5 DEF EventsBegan
  <2>3. AcknowledgedThere'
    BY <1>1, <1>2, <1>6 DEF LogInv, AcknowledgedThere
  <2>4. FirstThenSecond'
    BY <1>1 DEF LogInv, FirstThenSecond
  <2> QED
    BY <2>1, <2>2, <2>3, <2>4
<1>8. EventsApart'
  <2>1. \A b \in Appender : appender[b].pc # "idle" => appender[b].event <= events
    BY <1>2 DEF LogInv, HasWritten
  <2>2. \A b \in Appender : appender[b].event \in Nat
    BY LogAssumption DEF LogInv, LogShape, AppenderRecord
  <2> QED
    BY <1>2, <1>3, <2>1, <2>2 DEF LogInv, EventsApart
<1>9. ASSUME NEW b \in Appender
      PROVE  HasWritten(b)'
  <2>1. CASE b = a
    <3>1. \A i \in 1..Len(log) : log[i].event # events + 1
      BY <1>2, <1>5
    <3>2. events + 1 \notin acknowledged
      BY <1>2, <1>6
    <3> QED
      BY <1>1, <1>2, <1>3, <2>1, <3>1, <3>2 DEF HasWritten, unwritten
  <2>2. CASE b # a
    <3>1. HasWritten(b) /\ appender'[b] = appender[b]
      BY <1>3, <2>2 DEF LogInv
    <3>2. appender[b].event \in 1..events => appender[b].event \in 1..events'
      BY <1>1, <1>2
    <3> QED
      BY <1>1, <3>1, <3>2 DEF HasWritten, unwritten
  <2> QED
    BY <2>1, <2>2
<1> QED
  BY <1>4, <1>7, <1>8, <1>9 DEF LogInv

\* A part of a line is appended by the goroutine that holds the mutex.
LEMMA AppendPartStep ==
  ASSUME LogInv, NEW a \in Appender, appendPart(a)
  PROVE  LogInv'
<1> DEFINE pc == appender[a].pc
           e == appender[a].event
           x == piece(e, pc)
           r == [appender[a] EXCEPT
                   !.pc = IF pc = "first" THEN "second" ELSE "sync"]
           n == Len(log)
<1>1. /\ pc \in {"first", "second"} /\ log' = Append(log, x)
      /\ appender' = [appender EXCEPT ![a] = r]
      /\ UNCHANGED <<durable, mu, events, acknowledged, goneEvents>>
  BY DEF appendPart, logHistory, step, piece, LogInv, LogShape
<1>2. /\ appender[a] \in AppenderRecord /\ e \in 1..events
      /\ e \notin acknowledged /\ HasWritten(a)
  BY <1>1 DEF LogInv, LogShape, HasWritten
<1>3. x \in Part /\ x.event = e /\ x.part = pc
  BY <1>1, <1>2, LogAssumption DEF piece, Part, Event, LogInv, LogShape
<1>4. /\ r \in AppenderRecord /\ r.event = e
      /\ pc = "first" => r.pc = "second"
      /\ pc = "second" => r.pc = "sync"
  BY <1>1, <1>2 DEF AppenderRecord
<1>5. /\ log' \in Seq(Part) /\ n \in Nat /\ Len(log)' = n + 1
      /\ log'[n + 1] = x /\ \A i \in 1..n : log'[i] = log[i]
  BY <1>1, <1>3, AppendProperties, LenProperties DEF LogInv, LogShape
<1> HIDE DEF r, x, n
<1>6. \A b \in Appender : appender'[b] = IF b = a THEN r ELSE appender[b]
  BY <1>1 DEF LogInv, LogShape
<1>7. durable \in Nat /\ durable <= n
  BY DEF LogInv, LogShape, n
<1>8. LogShape'
  BY <1>1, <1>4, <1>5, <1>7 DEF LogInv, LogShape
<1>9. OneWrites' /\ EventsApart'
  BY <1>1, <1>4, <1>6 DEF LogInv, OneWrites, EventsApart
<1>10. EventsBegan'
  <2>1. ASSUME NEW i \in 1..n + 1
        PROVE  log'[i].event <= events
    <3>1. CASE i = n + 1
      BY <1>2, <1>3, <1>5, <3>1
    <3>2. CASE i # n + 1
      BY <1>5, <3>2 DEF LogInv, EventsBegan, n
    <3> QED
      BY <3>1, <3>2
  <2> QED
    BY <1>1, <1>5, <2>1 DEF EventsBegan
<1>11. AcknowledgedThere'
  <2>1. ASSUME NEW d \in acknowledged \ goneEvents
        PROVE  \E i \in 1..durable - 1 :
                 log'[i] = piece(d, "first") /\ log'[i + 1] = piece(d, "second")
    <3>1. PICK i \in 1..durable - 1 :
            log[i] = piece(d, "first") /\ log[i + 1] = piece(d, "second")
      BY DEF LogInv, AcknowledgedThere
    <3>2. i \in 1..n /\ i + 1 \in 1..n
      BY <1>5, <1>7
    <3> QED
      BY <1>5, <3>1, <3>2
  <2>2. \A d \in acknowledged : d <= events
    BY DEF LogInv, AcknowledgedThere
  <2> QED
    BY <1>1, <2>1, <2>2 DEF AcknowledgedThere
<1>12. FirstThenSecond'
  <2>1. ASSUME NEW i \in 1..n + 1, log'[i].part = "first",
               log'[i].event \in acknowledged
        PROVE  i + 1 <= durable /\ log'[i + 1] = piece(log'[i].event, "second")
    <3>1. i # n + 1
      BY <1>2, <1>3, <1>5, <2>1
    <3>2. i \in 1..n /\ log'[i] = log[i]
      BY <1>5, <3>1
    <3>3. i + 1 <= durable /\ log[i + 1] = piece(log[i].event, "second")
      BY <2>1, <3>2 DEF LogInv, FirstThenSecond, n
    <3>4. i + 1 \in 1..n
      BY <1>5, <1>7, <3>2, <3>3
    <3> QED
      BY <1>5, <3>2, <3>3, <3>4
  <2> QED
    BY <1>1, <1>5, <2>1 DEF FirstThenSecond
<1>13. ASSUME NEW b \in Appender, b # a
       PROVE  HasWritten(b)'
  <2>1. HasWritten(b) /\ appender'[b] = appender[b]
    BY <1>6, <1>13 DEF LogInv
  <2>2. appender[b].pc \notin {"first", "second", "sync"}
    BY <1>1, <1>13 DEF LogInv, OneWrites
  <2>3. CASE appender[b].pc = "lock"
    <3>1. appender[b].event # e
      BY <1>1, <1>13, <2>3 DEF LogInv, EventsApart
    <3>2. \A i \in 1..n + 1 : log'[i].event # appender[b].event
      BY <1>3, <1>5, <2>1, <2>3, <3>1 DEF HasWritten, unwritten, n
    <3> QED
      BY <1>1, <1>5, <2>1, <2>3, <3>2 DEF HasWritten, unwritten
  <2>4. CASE appender[b].pc # "lock"
    BY <2>1, <2>2, <2>4, <1>1 DEF HasWritten, LogInv, LogShape, AppenderRecord
  <2> QED
    BY <2>3, <2>4
<1>14. HasWritten(a)'
  <2>1. appender'[a] = r
    BY <1>6
  <2>2. CASE pc = "first"
    <3>1. \A i \in 1..n : log'[i].event # e
      BY <1>2, <1>5, <2>2 DEF HasWritten, unwritten, n
    <3>2. n + 1 >= 1 /\ (n + 1) - 1 = n
      BY <1>5
    <3> QED
      BY <1>1, <1>2, <1>4, <1>5, <2>1, <2>2, <3>1, <3>2
         DEF HasWritten, unwritten, x
  <2>3. CASE pc = "second"
    <3>1. /\ n >= 1 /\ log[n] = piece(e, "first")
          /\ \A i \in 1..n - 1 : log[i].event # e
      BY <1>2, <2>3 DEF HasWritten, unwritten, n
    <3>2. /\ n + 1 >= 2 /\ (n + 1) - 1 = n /\ (n + 1) - 2 = n - 1
          /\ log'[n] = log[n]
          /\ \A i \in 1..n - 1 : log'[i].event # e
      BY <1>5, <3>1
    <3> QED
      BY <1>1, <1>2, <1>4, <1>5, <2>1, <2>3, <3>1, <3>2
         DEF HasWritten, unwritten, x
  <2> QED
    BY <1>1, <2>2, <2>3
<1> QED
  BY <1>8, <1>9, <1>10, <1>11, <1>12, <1>13, <1>14 DEF LogInv

\* Write returns nil: the file, which ends with the line of the event, is
\* synced before.
LEMMA SyncEventStep ==
  ASSUME SyncOnWrite, LogInv, NEW a \in Appender, syncEvent(a)
  PROVE  LogInv'
<1> DEFINE e == appender[a].event
           n == Len(log)
           r == [appender[a] EXCEPT !.pc = "idle"]
<1>1. /\ appender[a].pc = "sync" /\ durable' = n
      /\ acknowledged' = acknowledged \cup {e}
      /\ appender' = [appender EXCEPT ![a] = r]
      /\ mu' \in {mu, NoHolder} /\ (mu # a => mu' = mu)
      /\ UNCHANGED <<log, events, goneEvents>>
  BY DEF syncEvent, step, unlock, LogInv, LogShape
<1>2. /\ e \in 1..events /\ n >= 2 /\ log[n - 1] = piece(e, "first")
      /\ log[n] = piece(e, "second")
      /\ \A i \in 1..n - 2 : log[i].event # e
      /\ n \in Nat
  BY <1>1 DEF LogInv, HasWritten, unwritten, LogShape
<1>3. durable \in Nat /\ durable <= n
  BY DEF LogInv, LogShape
<1>4. r \in AppenderRecord /\ r.pc = "idle"
  BY DEF LogInv, LogShape, AppenderRecord
<1> HIDE DEF r
<1>5. \A b \in Appender : appender'[b] = IF b = a THEN r ELSE appender[b]
  BY <1>1 DEF LogInv, LogShape
<1>6. LogShape'
  <2>1. e \in Event
    BY <1>2, LogAssumption DEF LogInv, LogShape, Event
  <2>2. durable' \in 0..Len(log')
    BY <1>1, <1>2
  <2> QED
    BY <1>1, <1>4, <2>1, <2>2 DEF LogInv, LogShape
<1>7. OneWrites'
  <2>1. ASSUME NEW b \in Appender, b # a,
               appender[b].pc \in {"first", "second", "sync"}
        PROVE  FALSE
    BY <1>1, <2>1 DEF LogInv, OneWrites
  <2> QED
    BY <1>4, <1>5, <2>1 DEF OneWrites
<1>8. EventsApart' /\ EventsBegan'
  BY <1>1, <1>4, <1>5 DEF LogInv, EventsApart, EventsBegan
<1>9. AcknowledgedThere'
  <2>1. ASSUME NEW d \in acknowledged', d \notin goneEvents
        PROVE  \E i \in 1..n - 1 :
                 log[i] = piece(d, "first") /\ log[i + 1] = piece(d, "second")
    <3>1. CASE d = e
      <4>1. n - 1 \in 1..n - 1 /\ (n - 1) + 1 = n
        BY <1>2
      <4> QED
        BY <1>2, <3>1, <4>1
    <3>2. CASE d # e
      BY <1>1, <1>2, <1>3, <2>1, <3>2 DEF LogInv, AcknowledgedThere
    <3> QED
      BY <3>1, <3>2
  <2>2. \A d \in acknowledged' : d <= events
    BY <1>1, <1>2 DEF LogInv, AcknowledgedThere
  <2> QED
    BY <1>1, <2>1, <2>2 DEF AcknowledgedThere
<1>10. FirstThenSecond'
  <2>1. ASSUME NEW i \in 1..n, log[i].part = "first",
               log[i].event \in acknowledged'
        PROVE  i + 1 <= n /\ log[i + 1] = piece(log[i].event, "second")
    <3>1. CASE log[i].event \in acknowledged
      BY <1>3, <2>1, <3>1 DEF LogInv, FirstThenSecond
    <3>2. CASE log[i].event = e
      <4>1. i # n
        BY <1>2, <2>1 DEF piece
      <4>2. i = n - 1
        BY <1>2, <3>2, <4>1
      <4> QED
        BY <1>2, <3>2, <4>2
    <3> QED
      BY <1>1, <2>1, <3>1, <3>2
  <2> QED
    BY <1>1, <2>1 DEF FirstThenSecond
<1>11. ASSUME NEW b \in Appender
       PROVE  HasWritten(b)'
  <2>1. CASE b = a
    BY <1>4, <1>5, <2>1 DEF HasWritten
  <2>2. CASE b # a
    <3>1. HasWritten(b) /\ appender'[b] = appender[b]
      BY <1>5, <2>2 DEF LogInv
    <3>2. appender[b].pc # "idle" => appender[b].event # e
      BY <1>1, <2>2 DEF LogInv, EventsApart
    <3> QED
      BY <1>1, <3>1, <3>2 DEF HasWritten, unwritten
  <2> QED
    BY <2>1, <2>2
<1> QED
  BY <1>6, <1>7, <1>8, <1>9, <1>10, <1>11 DEF LogInv

\* What a power failure leaves of the file still has every acknowledged line.
LEMMA FileKeptStep ==
  ASSUME LogInv, LogCrash, ~fileLost
  PROVE  LogInv'
<1>1. PICK n \in durable..Len(log) :
        /\ \/ n = Len(log) /\ log' = log
           \/ log' = SubSeq(log, 1, n)
        /\ durable' \in durable..n
        /\ appender' = [a \in Appender |-> IdleAppender]
        /\ UNCHANGED <<events, acknowledged, goneEvents>>
  BY DEF LogCrash, fileSurvives, LogInv, LogShape
<1>2. Len(log) \in Nat /\ durable \in Nat /\ n \in Nat /\ n <= Len(log)
  BY DEF LogInv, LogShape
<1>a. PICK m \in Nat : durable' = m /\ durable <= m /\ m <= n
  BY <1>1, <1>2
<1>3. /\ log' \in Seq(Part) /\ Len(log') = n
      /\ \A i \in 1..n : log'[i] = log[i]
  <2>1. CASE log' = log /\ n = Len(log)
    BY <2>1 DEF LogInv, LogShape
  <2>2. CASE log' = SubSeq(log, 1, n)
    <3>1. log \in Seq(Part) /\ \A i \in 1..n : log[i] \in Part
      BY <1>2 DEF LogInv, LogShape
    <3> QED
      BY <1>2, <2>2, <3>1, SubSeqProperties
  <2> QED
    BY <1>1, <2>1, <2>2
<1>4. IdleAppender \in AppenderRecord /\ IdleAppender.pc = "idle"
  BY LogAssumption DEF IdleAppender, AppenderRecord
<1> HIDE DEF IdleAppender
<1>5. LogShape'
  BY <1>1, <1>2, <1>3, <1>4 DEF LogInv, LogShape
<1>6. OneWrites' /\ EventsApart' /\ \A a \in Appender : HasWritten(a)'
  BY <1>1, <1>4 DEF OneWrites, EventsApart, HasWritten
<1>7. EventsBegan'
  BY <1>1, <1>2, <1>3 DEF LogInv, EventsBegan
<1>8. AcknowledgedThere'
  <2>1. ASSUME NEW d \in acknowledged \ goneEvents
        PROVE  \E i \in 1..m - 1 :
                 log'[i] = piece(d, "first") /\ log'[i + 1] = piece(d, "second")
    <3>1. PICK i \in 1..durable - 1 :
            log[i] = piece(d, "first") /\ log[i + 1] = piece(d, "second")
      BY DEF LogInv, AcknowledgedThere
    <3>2. i \in 1..m - 1 /\ i \in 1..n /\ i + 1 \in 1..n
      BY <1>a, <1>2
    <3> QED
      BY <1>3, <3>1, <3>2
  <2>2. \A d \in acknowledged : d <= events
    BY DEF LogInv, AcknowledgedThere
  <2> QED
    BY <1>1, <1>a, <2>1, <2>2 DEF AcknowledgedThere
<1>9. FirstThenSecond'
  <2>1. ASSUME NEW i \in 1..n, log'[i].part = "first",
               log'[i].event \in acknowledged
        PROVE  i + 1 <= m /\ log'[i + 1] = piece(log'[i].event, "second")
    <3>1. log'[i] = log[i] /\ i \in 1..Len(log)
      BY <1>2, <1>3
    <3>2. i + 1 <= durable /\ log[i + 1] = piece(log[i].event, "second")
      BY <2>1, <3>1 DEF LogInv, FirstThenSecond
    <3>3. i + 1 <= m /\ i + 1 \in 1..n
      BY <1>a, <1>2, <3>2
    <3> QED
      BY <1>3, <3>1, <3>2, <3>3
  <2> QED
    BY <1>1, <1>a, <1>3, <2>1 DEF FirstThenSecond
<1> QED
  BY <1>5, <1>6, <1>7, <1>8, <1>9 DEF LogInv

\* A file that is lost as a whole takes what was acknowledged with it, and the
\* next writer begins a new one.
LEMMA FileLostStep ==
  ASSUME LogInv, LogCrash, fileLost
  PROVE  LogInv'
<1>1. /\ log' = <<>> /\ durable' = 0
      /\ goneEvents' = goneEvents \cup acknowledged
      /\ appender' = [a \in Appender |-> IdleAppender]
      /\ UNCHANGED <<events, acknowledged>>
  BY DEF LogCrash, fileLost
<1>2. log' \in Seq(Part) /\ Len(log') = 0
  BY <1>1
<1>3. IdleAppender \in AppenderRecord /\ IdleAppender.pc = "idle"
  BY LogAssumption DEF IdleAppender, AppenderRecord
<1> HIDE DEF IdleAppender
<1>4. LogShape'
  BY <1>1, <1>2, <1>3 DEF LogInv, LogShape
<1>5. OneWrites' /\ EventsApart' /\ \A a \in Appender : HasWritten(a)'
  BY <1>1, <1>3 DEF OneWrites, EventsApart, HasWritten
<1>6. EventsBegan' /\ FirstThenSecond' /\ AcknowledgedThere'
  BY <1>1, <1>2
     DEF LogInv, EventsBegan, FirstThenSecond, AcknowledgedThere
<1> QED
  BY <1>4, <1>5, <1>6 DEF LogInv

\* Every step of the log keeps the invariant, if every write is synced.
LEMMA LogInvStep == SyncOnWrite /\ LogInv /\ [LogNext]_logVars => LogInv'
<1> SUFFICES ASSUME SyncOnWrite, LogInv, [LogNext]_logVars PROVE LogInv'
  OBVIOUS
<1>1. ASSUME UNCHANGED <<log, durable, mu, appender, events, acknowledged,
                          goneEvents>>
      PROVE  LogInv'
  BY <1>1 DEF LogInv, LogShape, OneWrites, EventsApart, EventsBegan, HasWritten,
              unwritten, AcknowledgedThere, FirstThenSecond
<1>2. CASE OpenEventWriter \/ CloseWriter \/ UNCHANGED logVars
  BY <1>1, <1>2 DEF OpenEventWriter, CloseWriter, logVars, logHistory
<1>3. ASSUME NEW a \in Appender, lockWriter(a) \/ WriteFails(a)
      PROVE  LogInv'
  <2>1. PICK pc \in {"idle", "first"} :
          /\ appender' = [appender EXCEPT ![a] = [appender[a] EXCEPT !.pc = pc]]
          /\ appender[a].pc \in {"lock", "first", "second", "sync"}
          /\ pc = "first" => appender[a].pc = "lock" /\ mu = NoHolder /\ mu' = a
          /\ pc = "idle" => mu' = IF mu = a THEN NoHolder ELSE mu
          /\ UNCHANGED <<log, durable, events, acknowledged, goneEvents>>
    BY <1>3, LogAssumption
       DEF lockWriter, WriteFails, step, unlock, NoHolder, logHistory, LogInv,
           LogShape
  <2> DEFINE r == [appender[a] EXCEPT !.pc = pc]
  <2>2. r \in AppenderRecord /\ r.pc = pc /\ r.event = appender[a].event
    BY DEF LogInv, LogShape, AppenderRecord
  <2>3. ASSUME NEW b \in Appender \ {a},
               appender[b].pc \in {"first", "second", "sync"}
        PROVE  mu' = b
    <3>1. mu = b /\ mu # NoHolder
      BY <2>3, LogAssumption DEF LogInv, OneWrites, NoHolder
    <3> QED
      BY <2>1, <3>1
  <2> HIDE DEF r
  <2> QED
    BY <2>1, <2>2, <2>3, AppenderMoves DEF r
<1> QED
  BY <1>2, <1>3, EncodeStep, AppendPartStep, SyncEventStep, FileKeptStep, FileLostStep
     DEF LogNext

\* An event whose Write returned nil is one unbroken line of the file, after
\* any failures and deaths of the process, and after power failures, if every
\* write is synced and the file itself, whose name nothing syncs, is not lost
\* (jsonl.go 39-42, 63-92).
THEOREM AcknowledgedIsOneLine == SyncOnWrite => (LogSpec => []WrittenIsOneLine)
<1> SUFFICES ASSUME SyncOnWrite PROVE LogSpec => []WrittenIsOneLine
  OBVIOUS
<1>1. LogInv /\ [LogNext]_logVars => LogInv'
  BY LogInvStep
<1> QED
  BY <1>1, LogInvInit, LogInvSays, PTL DEF LogSpec

\* A goroutine that is not idle is at an event.
LogTyped ==
  /\ LogTypeOK
  /\ \A a \in Appender : appender[a].pc # "idle" => appender[a].event \in Event

\* Nothing is in the file, and no goroutine is at an event.
LEMMA LogTypedInit == LogInit => LogTyped
<1> SUFFICES ASSUME LogInit PROVE LogTyped
  OBVIOUS
<1>1. IdleAppender \in AppenderRecord /\ IdleAppender.pc = "idle"
  BY LogAssumption DEF IdleAppender, AppenderRecord
<1>2. log \in Seq(Part) /\ Len(log) = 0
  BY DEF LogInit
<1> HIDE DEF IdleAppender
<1> QED
  BY <1>1, <1>2, LogAssumption
     DEF LogInit, LogTyped, LogTypeOK, AppenderRecord, Part

\* Every step keeps the types, whether the writes are synced or not.
LEMMA LogTypedStep == LogTyped /\ [LogNext]_logVars => LogTyped'
<1> SUFFICES ASSUME LogTyped, [LogNext]_logVars PROVE LogTyped'
  OBVIOUS
<1>0. /\ log \in Seq(Part) /\ durable \in 0..Len(log)
      /\ mu \in Appender \cup {NoHolder}
      /\ appender \in [Appender -> AppenderRecord]
      /\ events \in 0..MaxEvents /\ acknowledged \subseteq Event
      /\ closed \in BOOLEAN /\ goneEvents \subseteq Event
      /\ eventFile \in {"missing", "made", "kept"}
      /\ \A a \in Appender :
           appender[a].pc # "idle" => appender[a].event \in Event
  BY DEF LogTyped, LogTypeOK, Part, AppenderRecord
<1>1. ASSUME log' \in Seq(Part), durable' \in 0..Len(log'),
             mu' \in Appender \cup {NoHolder}, closed' \in BOOLEAN,
             appender' \in [Appender -> AppenderRecord],
             events' \in 0..MaxEvents, acknowledged' \subseteq Event,
             goneEvents' \subseteq Event,
             eventFile' \in {"missing", "made", "kept"},
             \A a \in Appender :
               appender'[a].pc # "idle" => appender'[a].event \in Event
      PROVE  LogTyped'
  BY <1>1 DEF LogTyped, LogTypeOK, Part, AppenderRecord
<1>2. CASE OpenEventWriter \/ CloseWriter \/ UNCHANGED logVars
  BY <1>0, <1>1, <1>2 DEF OpenEventWriter, CloseWriter, logVars, logHistory
<1>3. CASE LogCrash
  <2>1. IdleAppender \in AppenderRecord /\ IdleAppender.pc = "idle"
    BY LogAssumption DEF IdleAppender, AppenderRecord
  <2> HIDE DEF IdleAppender
  <2>2. log' \in Seq(Part) /\ durable' \in 0..Len(log')
    <3>1. ASSUME NEW n \in durable..Len(log), log' = SubSeq(log, 1, n),
                 durable' = n
          PROVE  log' \in Seq(Part) /\ durable' \in 0..Len(log')
      <4>1. n \in Nat /\ n <= Len(log) /\ Len(log) \in Nat
        BY <1>0
      <4>2. SubSeq(log, 1, n) \in Seq(Part) /\ Len(SubSeq(log, 1, n)) = n
        BY <1>0, <4>1
      <4> QED
        BY <3>1, <4>1, <4>2
    <3>2. CASE fileLost
      BY <3>2 DEF fileLost
    <3> QED
      BY <1>0, <1>3, <3>1, <3>2 DEF LogCrash, fileSurvives
  <2>3. /\ closed' \in BOOLEAN /\ mu' = NoHolder
        /\ appender' = [a \in Appender |-> IdleAppender]
        /\ UNCHANGED <<events, acknowledged>>
        /\ goneEvents' \subseteq Event
        /\ eventFile' \in {"missing", "made", "kept"}
    BY <1>0, <1>3 DEF LogCrash, fileSurvives, fileLost
  <2> QED
    BY <1>0, <1>1, <2>1, <2>2, <2>3
<1>4. ASSUME NEW a \in Appender, NEW r \in AppenderRecord,
             appender' = [appender EXCEPT ![a] = r],
             r.pc # "idle" => r.event \in Event
      PROVE  /\ appender' \in [Appender -> AppenderRecord]
             /\ \A b \in Appender :
                  appender'[b].pc # "idle" => appender'[b].event \in Event
  BY <1>0, <1>4
<1>5. ASSUME NEW a \in Appender, encodeEvent(a) PROVE LogTyped'
  <2> DEFINE r == [pc |-> "lock", event |-> events + 1]
  <2>1. events + 1 \in Event /\ events + 1 \in 0..MaxEvents
    BY <1>0, <1>5, LogAssumption DEF encodeEvent, Event
  <2>2. r \in AppenderRecord /\ r.event \in Event
    BY <2>1 DEF AppenderRecord
  <2>3. /\ appender' = [appender EXCEPT ![a] = r] /\ events' = events + 1
        /\ UNCHANGED <<eventFile, log, durable, closed, mu, acknowledged,
                      goneEvents>>
    BY <1>5 DEF encodeEvent, logHistory
  <2> HIDE DEF r
  <2> QED
    BY <1>0, <1>1, <1>4, <2>1, <2>2, <2>3
<1>6. ASSUME NEW a \in Appender, NEW pc \in {"idle", "first", "second", "sync"},
             step(a, pc), appender[a].pc # "idle"
      PROVE  /\ appender' \in [Appender -> AppenderRecord]
             /\ \A b \in Appender :
                  appender'[b].pc # "idle" => appender'[b].event \in Event
  <2> DEFINE r == [appender[a] EXCEPT !.pc = pc]
  <2>1. r \in AppenderRecord /\ r.event = appender[a].event
    BY <1>0 DEF AppenderRecord
  <2>2. appender' = [appender EXCEPT ![a] = r]
    BY <1>6 DEF step
  <2> HIDE DEF r
  <2> QED
    BY <1>0, <1>4, <1>6, <2>1, <2>2
<1>7. ASSUME NEW a \in Appender,
             lockWriter(a) \/ syncEvent(a) \/ WriteFails(a)
      PROVE  LogTyped'
  <2>1. PICK pc \in {"idle", "first"} : step(a, pc) /\ appender[a].pc # "idle"
    BY <1>7 DEF lockWriter, syncEvent, WriteFails
  <2>2. mu' \in {a, NoHolder, mu}
    BY <1>7 DEF lockWriter, syncEvent, WriteFails, unlock
  <2>3. durable' \in {durable, Len(log)}
        /\ UNCHANGED <<eventFile, log, closed, events, goneEvents>>
    BY <1>7 DEF lockWriter, syncEvent, WriteFails, logHistory
  <2>4. acknowledged' \subseteq Event
    BY <1>0, <1>7 DEF lockWriter, syncEvent, WriteFails, logHistory
  <2>5. Len(log) \in Nat
    BY <1>0
  <2> QED
    BY <1>0, <1>1, <1>6, <2>1, <2>2, <2>3, <2>4, <2>5
<1>8. ASSUME NEW a \in Appender, appendPart(a) PROVE LogTyped'
  <2> DEFINE x == [event |-> appender[a].event, part |-> appender[a].pc]
  <2>1. PICK pc \in {"second", "sync"} : step(a, pc) /\ appender[a].pc # "idle"
    BY <1>8 DEF appendPart
  <2>2. x \in Part
    BY <1>0, <1>8 DEF appendPart, Part
  <2>3. /\ log' = Append(log, x)
        /\ UNCHANGED <<eventFile, durable, closed, mu, events, acknowledged,
                       goneEvents>>
    BY <1>8 DEF appendPart, logHistory
  <2> HIDE DEF x
  <2>4. log' \in Seq(Part) /\ Len(log') = Len(log) + 1 /\ Len(log) \in Nat
    BY <1>0, <2>2, <2>3
  <2> QED
    BY <1>0, <1>1, <1>6, <2>1, <2>3, <2>4
<1> QED
  BY <1>2, <1>3, <1>5, <1>7, <1>8 DEF LogNext

\* The types of the file, of the writer and of its goroutines.
THEOREM LogTypes == LogSpec => []LogTypeOK
BY LogTypedInit, LogTypedStep, PTL DEF LogSpec, LogTyped
=============================================================================
