--------------------------- MODULE JournalCursor ---------------------------
(***************************************************************************)
(* One stream of the journal collector (collectors/journal/runner.go) and  *)
(* its row in table collector_state, the cursor.                           *)
(*                                                                         *)
(* The entries of the stream are numbered from 1 in the order in which     *)
(* they were written; journald keeps the entries from head to tail.  A     *)
(* reader is a process that collects with persistence: the agent, or       *)
(* "collectors run journal --persist" beside it.  Between loading the      *)
(* cursor, running journalctl and saving the new cursor the journal grows, *)
(* old entries are vacuumed, and other readers take steps.                 *)
(*                                                                         *)
(* What an observation reports is kept in the history variables at the     *)
(* moment its cursor is saved: nothing that can fail comes after that.     *)
(***************************************************************************)
EXTENDS Integers, FiniteSets

CONSTANTS
  Reader,      \* processes that collect the stream
  MaxRecords,  \* StreamConfig.MaxRecords
  MaxEntries,  \* bound on the entries written
  MaxDamage    \* bound on the times the row is damaged

ASSUME JournalAssumption ==
  /\ MaxRecords \in Nat \ {0}
  /\ MaxEntries \in Nat
  /\ MaxDamage \in Nat

VARIABLES
  head, tail,  \* the journal: the entries kept are head..tail
  cursor,      \* the row: an entry, NoCursor or Corrupt
  reader,      \* the readers
  damage,      \* times the row has been damaged
  collected,   \* history: entries in a successful observation
  baselined,   \* history: entries behind a baseline reported as such
  resetted,    \* history: entries behind a baseline reported as a reset
  again,       \* history: an entry was collected a second time
  raced        \* history: a cursor was saved over one not loaded before

journalVars == <<head, tail, cursor, reader, damage,
                 collected, baselined, resetted, again, raced>>
journalHistory == <<collected, baselined, resetted, again, raced>>

NoCursor == 0
Corrupt == -1

Entry == 1..MaxEntries

ReaderRecord == [pc    : {"idle", "replay", "baseline", "save"},
                 fresh : BOOLEAN,       \* a baseline is being recorded
                 stale : BOOLEAN,       \* the baseline is a reset
                 from  : Corrupt..MaxEntries, \* the cursor that was loaded
                 batch : SUBSET Entry,  \* the records parsed
                 last  : 0..MaxEntries, \* lastCursor, 0 when empty
                 overtaken : BOOLEAN]   \* history: the row was written since

IdleReader == [pc |-> "idle", fresh |-> FALSE, stale |-> FALSE, from |-> 0,
               batch |-> {}, last |-> 0, overtaken |-> FALSE]

\* The readers under way when the row is written.
overtake(readers) ==
  [r \in Reader |-> IF readers[r].pc = "idle" THEN readers[r]
                   ELSE [readers[r] EXCEPT !.overtaken = TRUE]]

JournalInit ==
  /\ tail \in 0..MaxEntries
  /\ head = 1
  /\ cursor = NoCursor
  /\ reader = [r \in Reader |-> IdleReader]
  /\ damage = 0
  /\ collected = {}
  /\ baselined = {}
  /\ resetted = {}
  /\ again = FALSE
  /\ raced = FALSE

(***************************************************************************)
(* The world: journald writes and vacuums, a row is damaged.               *)
(***************************************************************************)
WriteEntry ==
  /\ tail < MaxEntries
  /\ tail' = tail + 1
  /\ UNCHANGED <<head, cursor, reader, damage, journalHistory>>

Vacuum ==
  /\ head <= tail
  /\ \E h \in (head + 1)..(tail + 1) : head' = h
  /\ UNCHANGED <<tail, cursor, reader, damage, journalHistory>>

DamageCursor ==
  /\ cursor > 0
  /\ damage < MaxDamage
  /\ damage' = damage + 1
  /\ cursor' = Corrupt
  /\ reader' = overtake(reader)
  /\ UNCHANGED <<head, tail, journalHistory>>

(***************************************************************************)
(* The reader.                                                             *)
(***************************************************************************)
\* A cursor that cannot be decoded counts as present and is replaced.
loadCursor(r) ==
  /\ reader[r].pc = "idle"
  /\ reader' = [reader EXCEPT ![r] =
       IF cursor \in {NoCursor, Corrupt}
       THEN [IdleReader EXCEPT !.pc = "baseline", !.fresh = TRUE,
                               !.from = cursor, !.stale = cursor = Corrupt]
       ELSE [IdleReader EXCEPT !.pc = "replay", !.from = cursor]]
  /\ UNCHANGED <<head, tail, cursor, damage, journalHistory>>

\* What journalctl prints for --after-cursor: the entries kept after it.
afterCursor(from) == {e \in head..tail : e > from}

\* What it prints for --lines=n without a cursor.
lastLines(n) == {e \in head..tail : e > tail - n}

lastOf(entries) ==
  IF entries = {} THEN 0
  ELSE CHOOSE e \in entries : \A f \in entries : f <= e

\* Mutated form: records above the limit are left out, their cursor is not.
ParseJSONLinesCuts(entries, limit) ==
  [records   |-> {e \in entries :
                    Cardinality({f \in entries : f <= e}) <= limit},
   last      |-> lastOf(entries),
   truncated |-> FALSE]

\* The records up to the limit, the last cursor among them, and whether
\* there were more.
ParseJSONLines(entries, limit) ==
  LET parsed == {e \in entries :
                   Cardinality({f \in entries : f <= e}) <= limit}
  IN [records   |-> parsed,
      last      |-> lastOf(parsed),
      truncated |-> parsed # entries]

\* collectStream with a cursor.  Output that is truncated leaves the cursor.
\* The command runner may lose the end of the output without an error; a cut
\* within a line is malformed and belongs to collectFails, a cut between two
\* lines does not show.
replay(r) ==
  /\ reader[r].pc = "replay"
  /\ \E cut \in (head - 1)..tail :
       LET printed == {e \in afterCursor(reader[r].from) : e <= cut}
           parsed == ParseJSONLines(printed, MaxRecords)
       IN reader' = [reader EXCEPT ![r] =
            IF parsed.truncated
            THEN IdleReader
            ELSE [@ EXCEPT !.pc = "save",
                           !.batch = parsed.records,
                           !.last = parsed.last]]
  /\ UNCHANGED <<head, tail, cursor, damage, journalHistory>>

\* journalctl refuses a cursor whose entry is gone.  It may also go on from
\* the next entry it has, which is the action above.
cursorInvalidated(r) ==
  /\ reader[r].pc = "replay"
  /\ reader[r].from < head
  /\ reader' = [reader EXCEPT ![r] =
       [@ EXCEPT !.pc = "baseline", !.fresh = TRUE, !.stale = TRUE]]
  /\ UNCHANGED <<head, tail, cursor, damage, journalHistory>>

\* The records themselves are dropped, only the cursor is wanted.  Here too
\* the line may be lost.
establishBaseline(r) ==
  /\ reader[r].pc = "baseline"
  /\ \E printed \in {lastLines(1), {}} :
       reader' = [reader EXCEPT ![r].pc = "save",
         ![r].last = ParseJSONLines(printed, 1).last]
  /\ UNCHANGED <<head, tail, cursor, damage, journalHistory>>

\* Any other failure: the context has ended, the store refuses, journalctl
\* fails or prints too much, the output cannot be parsed.
collectFails(r) ==
  /\ reader[r].pc # "idle"
  /\ reader' = [reader EXCEPT ![r] = IdleReader]
  /\ UNCHANGED <<head, tail, cursor, damage, journalHistory>>

\* Mutated form: the cursor of the first record is saved.
cursorToSaveFirst(parsed) ==
  IF parsed.batch = {} THEN parsed.last
  ELSE CHOOSE e \in parsed.batch : \A f \in parsed.batch : e <= f

cursorToSave(parsed) == parsed.last

\* An empty cursor is not written.  The observation follows.
saveCursor(r) ==
  LET mine == reader[r]
      passed == 1..mine.last
  IN /\ mine.pc = "save"
     /\ cursor' = IF mine.last = 0 THEN cursor ELSE cursorToSave(mine)
     /\ collected' = collected \cup mine.batch
     /\ baselined' = IF mine.fresh /\ ~mine.stale
                     THEN baselined \cup passed ELSE baselined
     /\ resetted' = IF mine.fresh /\ mine.stale
                    THEN resetted \cup passed ELSE resetted
     /\ again' = (again \/ mine.batch \cap collected # {})
     /\ raced' = (raced \/ (mine.last # 0 /\ mine.overtaken))
     /\ reader' = [(IF mine.last = 0 THEN reader ELSE overtake(reader))
                     EXCEPT ![r] = IdleReader]
     /\ UNCHANGED <<head, tail, damage>>

collectStream(r) ==
  \/ loadCursor(r)
  \/ replay(r)
  \/ cursorInvalidated(r)
  \/ establishBaseline(r)
  \/ collectFails(r)
  \/ saveCursor(r)

JournalNext ==
  \/ WriteEntry
  \/ Vacuum
  \/ DamageCursor
  \/ \E r \in Reader : collectStream(r)

JournalSpec == JournalInit /\ [][JournalNext]_journalVars

(***************************************************************************)
(* Properties.                                                             *)
(***************************************************************************)
JournalTypeOK ==
  /\ tail \in 0..MaxEntries
  /\ head \in 1..(tail + 1)
  /\ cursor \in {Corrupt} \cup 0..tail
  /\ reader \in [Reader -> ReaderRecord]
  /\ damage \in 0..MaxDamage
  /\ collected \subseteq Entry
  /\ baselined \subseteq Entry
  /\ resetted \subseteq Entry
  /\ again \in BOOLEAN
  /\ raced \in BOOLEAN

Accounted == collected \cup baselined \cup resetted \cup 1..(head - 1)

\* The cursor never stands behind an entry nobody was told about: each was in
\* an observation, lies behind a baseline that an observation announced, or
\* was vacuumed.  It holds although a save may overwrite a newer cursor,
\* outputs are truncated and the journal changes under the reader
\* (runner.go 88-186, cursor.go 34-43).
NoSilentSkip == cursor > 0 => 1..cursor \subseteq Accounted

\* An entry is collected a second time only after a reader has saved its
\* cursor over one it had not loaded (the row is not locked between loadCursor
\* and saveCursor, runner.go 93 and 135): one reader alone collects each entry
\* once, through vacuums, resets, truncated outputs and failures.
CollectedOnceUnlessRaced == again => raced
=============================================================================
