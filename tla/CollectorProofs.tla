-------------------------- MODULE CollectorProofs --------------------------
(***************************************************************************)
(* Theorems about the collectors' rows: the journal cursor, the file       *)
(* baseline, the counters of network, disk and processor, and the boot     *)
(* identity; for any number of processes, entries, writes, devices,        *)
(* reboots and damaged rows.                                               *)
(***************************************************************************)
EXTENDS JournalCursor, FileBaseline, DeviceCounters, CpuTime, BootIdentity,
        FiniteSetTheorems, TLAPS

(***************************************************************************)
(* The journal.  The cursor a reader carries was the row's at some time,   *)
(* so what lies behind it is accounted for; a batch closes the gap between *)
(* that cursor and the new one.                                            *)
(***************************************************************************)
ReaderAccounted(r) ==
  /\ reader[r].pc = "replay" => 1..reader[r].from \subseteq Accounted
  /\ reader[r].pc = "save" /\ ~reader[r].fresh =>
       1..reader[r].last \subseteq Accounted \cup reader[r].batch
  /\ reader[r].pc = "baseline" => reader[r].fresh
  /\ reader[r].from <= tail
  /\ reader[r].last <= tail

SkipInv == /\ JournalTypeOK
           /\ NoSilentSkip
           /\ \A r \in Reader : ReaderAccounted(r)

\* What journalctl prints after a cursor, up to where it is cut, ends with
\* the entry before the cut.
LEMMA LastAfterCursor ==
  ASSUME JournalTypeOK, NEW from \in Int, NEW cut \in (head - 1)..tail,
         NEW printed, printed = {e \in afterCursor(from) : e <= cut}
  PROVE  lastOf(printed) = IF printed = {} THEN 0 ELSE cut
<1>1. CASE printed = {}
  BY <1>1 DEF lastOf
<1>2. CASE printed # {}
  <2>1. cut \in printed /\ \A f \in printed : f <= cut
    BY <1>2, JournalAssumption DEF afterCursor, JournalTypeOK
  <2>2. \A e \in printed : (\A f \in printed : f <= e) => e = cut
    BY <2>1, JournalAssumption DEF afterCursor, JournalTypeOK
  <2> QED BY <1>2, <2>1, <2>2 DEF lastOf
<1> QED BY <1>1, <1>2

\* The last of entries that are all the newest one.
LEMMA LastOfOne ==
  ASSUME JournalTypeOK, NEW S, \A e \in S : e = tail
  PROVE  lastOf(S) \in {0, tail}
<1>1. CASE S = {}
  BY <1>1 DEF lastOf
<1>2. CASE S # {}
  <2>1. PICK x \in S : TRUE
    BY <1>2
  <2>2. x = tail /\ tail \in Int
    BY <2>1 DEF JournalTypeOK
  <2>3. tail \in S /\ \A f \in S : f <= tail
    BY <2>1, <2>2
  <2> QED BY <2>3, <1>2 DEF lastOf
<1> QED BY <1>1, <1>2

\* What journalctl prints for the last line is that entry or nothing.
LEMMA LastOfOneLine ==
  ASSUME JournalTypeOK, NEW printed \in {lastLines(1), {}}
  PROVE  ParseJSONLines(printed, 1).last \in {0, tail}
<1>1. \A e \in printed : e = tail
  BY JournalAssumption DEF lastLines, JournalTypeOK
<1>2. lastOf({e \in printed :
               Cardinality({f \in printed : f <= e}) <= 1}) \in {0, tail}
  BY <1>1, LastOfOne
<1> QED BY <1>2 DEF ParseJSONLines

\* Output that is not truncated is parsed whole.
LEMMA ParsedWhole ==
  ASSUME NEW S, NEW n, ~ParseJSONLines(S, n).truncated
  PROVE  /\ ParseJSONLines(S, n).records = S
         /\ ParseJSONLines(S, n).last = lastOf(S)
BY DEF ParseJSONLines

\* What each step leaves in a reader is a reader's record.
LEMMA IdleTyped == IdleReader \in ReaderRecord
BY JournalAssumption DEF IdleReader, ReaderRecord, Entry, Corrupt

\* The record of a reader that has found no usable cursor.
LEMMA BaselineTyped ==
  ASSUME NEW x \in ReaderRecord, NEW f \in Corrupt..MaxEntries,
         NEW s \in BOOLEAN
  PROVE  [x EXCEPT !.pc = "baseline", !.fresh = TRUE, !.from = f,
                   !.stale = s] \in ReaderRecord
BY DEF ReaderRecord

\* The record of a reader that has loaded a cursor.
LEMMA ReplayTyped ==
  ASSUME NEW x \in ReaderRecord, NEW f \in Corrupt..MaxEntries
  PROVE  [x EXCEPT !.pc = "replay", !.from = f] \in ReaderRecord
BY DEF ReaderRecord

\* The record of a reader that has its baseline.
LEMMA BaselineSaveTyped ==
  ASSUME NEW x \in ReaderRecord, NEW l \in 0..MaxEntries
  PROVE  [x EXCEPT !.pc = "save", !.last = l] \in ReaderRecord
BY DEF ReaderRecord

\* A row that is written leaves the readers' records well formed.
LEMMA OvertakeTyped ==
  ASSUME reader \in [Reader -> ReaderRecord]
  PROVE  overtake(reader) \in [Reader -> ReaderRecord]
BY DEF ReaderRecord, overtake

\* Types and the accounts hold in every state.
THEOREM SkipInvariant == JournalSpec => []SkipInv
<1> USE JournalAssumption DEF NoCursor, Corrupt
<1>1. ASSUME JournalInit PROVE SkipInv
  <2>1. IdleReader \in ReaderRecord
    BY DEF IdleReader, ReaderRecord, Entry
  <2>2. JournalTypeOK
    <3>1. reader \in [Reader -> ReaderRecord]
      BY <1>1, <2>1 DEF JournalInit
    <3>2. tail \in 0..MaxEntries /\ head \in 1..(tail + 1)
      BY <1>1 DEF JournalInit
    <3>3. again \in BOOLEAN /\ raced \in BOOLEAN
      BY <1>1, Zenon DEF JournalInit
    <3> QED BY <1>1, <3>1, <3>2, <3>3 DEF JournalInit, JournalTypeOK
  <2>3. NoSilentSkip
    BY <1>1 DEF JournalInit, NoSilentSkip
  <2>4. ASSUME NEW r \in Reader PROVE ReaderAccounted(r)
    BY <1>1 DEF JournalInit, ReaderAccounted, IdleReader
  <2> QED BY <2>2, <2>3, <2>4 DEF SkipInv
<1>2. ASSUME SkipInv, [JournalNext]_journalVars PROVE SkipInv'
  <2> USE <1>2 DEF SkipInv
  <2>1. CASE WriteEntry
    <3>1. JournalTypeOK'
      BY <2>1
         DEF WriteEntry, journalHistory, JournalTypeOK, ReaderRecord, Entry
    <3>2. NoSilentSkip'
      BY <2>1
         DEF WriteEntry, journalHistory, JournalTypeOK, NoSilentSkip,
             Accounted, Entry
    <3>3. ASSUME NEW q \in Reader PROVE ReaderAccounted(q)'
      BY <2>1, ReaderAccounted(q)
         DEF WriteEntry, journalHistory, JournalTypeOK, ReaderAccounted,
             Accounted, ReaderRecord,
             Entry
    <3> QED BY <3>1, <3>2, <3>3
  <2>2. CASE Vacuum
    <3>1. JournalTypeOK'
      BY <2>2 DEF Vacuum, journalHistory, JournalTypeOK, ReaderRecord, Entry
    <3>2. NoSilentSkip'
      BY <2>2
         DEF Vacuum, journalHistory, JournalTypeOK, NoSilentSkip, Accounted,
             Entry
    <3>3. ASSUME NEW q \in Reader PROVE ReaderAccounted(q)'
      BY <2>2, ReaderAccounted(q)
         DEF Vacuum, journalHistory, JournalTypeOK, ReaderAccounted,
             Accounted, ReaderRecord,
             Entry
    <3> QED BY <3>1, <3>2, <3>3
  <2>3. CASE DamageCursor
    <3>1. JournalTypeOK'
      <4>1. ASSUME NEW q \in Reader PROVE reader'[q] \in ReaderRecord
        BY <2>3 DEF DamageCursor, overtake, JournalTypeOK, ReaderRecord
      <4>2. reader' \in [Reader -> ReaderRecord]
        BY <4>1, <2>3 DEF DamageCursor, overtake
      <4> QED BY <4>2, <2>3 DEF DamageCursor, journalHistory, JournalTypeOK
    <3>2. NoSilentSkip'
      BY <2>3
         DEF DamageCursor, overtake, journalHistory, JournalTypeOK,
             NoSilentSkip, Accounted, Entry
    <3>3. ASSUME NEW q \in Reader PROVE ReaderAccounted(q)'
      BY <2>3, ReaderAccounted(q)
         DEF DamageCursor, overtake, journalHistory, JournalTypeOK,
             ReaderAccounted, Accounted, ReaderRecord,
             Entry
    <3> QED BY <3>1, <3>2, <3>3
  <2>4. ASSUME NEW r \in Reader, loadCursor(r) PROVE SkipInv'
    <3>1. JournalTypeOK'
      <4>1. reader'[r] \in ReaderRecord
        <5>1. cursor \in Corrupt..MaxEntries
          BY DEF JournalTypeOK
        <5>2. CASE cursor \in {NoCursor, Corrupt}
          <6>1. (cursor = Corrupt) \in BOOLEAN
            BY Zenon
          <6>2. reader'[r] =
                  [IdleReader EXCEPT !.pc = "baseline", !.fresh = TRUE,
                                     !.from = cursor,
                                     !.stale = cursor = Corrupt]
            BY <2>4, <5>2, Zenon DEF loadCursor, JournalTypeOK
          <6> QED BY <5>1, <6>1, <6>2, IdleTyped, BaselineTyped, Zenon
        <5>3. CASE cursor \notin {NoCursor, Corrupt}
          <6>1. reader'[r] =
                  [IdleReader EXCEPT !.pc = "replay", !.from = cursor]
            BY <2>4, <5>3, Zenon DEF loadCursor, JournalTypeOK
          <6> QED BY <5>1, <6>1, IdleTyped, ReplayTyped, Zenon
        <5> QED BY <5>2, <5>3
      <4>2. reader' \in [Reader -> ReaderRecord]
        BY <4>1, <2>4 DEF loadCursor, JournalTypeOK
      <4> QED BY <4>2, <2>4 DEF loadCursor, journalHistory, JournalTypeOK
    <3>2. NoSilentSkip'
      BY <2>4
         DEF loadCursor, IdleReader, journalHistory, JournalTypeOK,
             NoSilentSkip, Accounted, Entry
    <3>3. ASSUME NEW q \in Reader PROVE ReaderAccounted(q)'
      BY <2>4, NoSilentSkip, ReaderAccounted(q)
         DEF loadCursor, IdleReader, journalHistory, JournalTypeOK,
             ReaderAccounted, Accounted, NoSilentSkip,
             ReaderRecord, Entry
    <3> QED BY <3>1, <3>2, <3>3
  <2>5. ASSUME NEW r \in Reader, replay(r) PROVE SkipInv'
    <3> DEFINE from == reader[r].from
    <3>x. PICK cut \in (head - 1)..tail :
            LET printed == {e \in afterCursor(reader[r].from) : e <= cut}
                parsed == ParseJSONLines(printed, MaxRecords)
            IN reader' = [reader EXCEPT ![r] =
                 IF parsed.truncated
                 THEN IdleReader
                 ELSE [@ EXCEPT !.pc = "save",
                                !.batch = parsed.records,
                                !.last = parsed.last]]
      BY <2>5 DEF replay
    <3> DEFINE printed == {e \in afterCursor(from) : e <= cut}
               parsed == ParseJSONLines(printed, MaxRecords)
    <3>0. from \in Int /\ 1..from \subseteq Accounted
      BY <2>5 DEF replay, JournalTypeOK, ReaderRecord, ReaderAccounted
    <3>a. CASE parsed.truncated
      <4>0. reader' = [reader EXCEPT ![r] = IdleReader]
        BY <3>x, <3>a
      <4> HIDE DEF parsed
      <4>1. JournalTypeOK'
        BY <4>0, <2>5
           DEF replay, IdleReader, journalHistory, JournalTypeOK,
             ReaderRecord, Entry
      <4>2. NoSilentSkip'
        BY <4>0, <2>5
           DEF replay, IdleReader, journalHistory, JournalTypeOK,
               NoSilentSkip, Accounted, Entry
      <4>3. ASSUME NEW q \in Reader PROVE ReaderAccounted(q)'
        BY <4>0, <2>5, ReaderAccounted(q)
           DEF replay, IdleReader, journalHistory, JournalTypeOK,
               ReaderAccounted, Accounted, ReaderRecord,
             Entry
      <4> QED BY <4>1, <4>2, <4>3
    <3>b. CASE ~parsed.truncated
      <4>0. /\ parsed.records = printed
            /\ parsed.last = IF printed = {} THEN 0 ELSE cut
        <5>1. lastOf(printed) = IF printed = {} THEN 0 ELSE cut
          BY <3>0, LastAfterCursor
        <5> HIDE DEF printed
        <5> QED BY <3>b, <5>1, ParsedWhole
      <4>a. parsed.records \subseteq Entry /\ parsed.last \in 0..tail
        BY <4>0 DEF afterCursor, JournalTypeOK, Entry
      <4>b. 1..parsed.last \subseteq Accounted \cup parsed.records
        <5>1. CASE printed = {}
          BY <4>0, <5>1
        <5>2. ASSUME printed # {}, NEW e \in 1..cut
              PROVE  e \in Accounted \cup printed
          <6>1. e \in 1..from \/ e \in 1..(head - 1) \/ e \in printed
            BY <3>0 DEF afterCursor, JournalTypeOK
          <6> QED BY <6>1, <3>0 DEF Accounted
        <5> QED BY <4>0, <5>1, <5>2
      <4>c. reader' = [reader EXCEPT ![r] = [@ EXCEPT !.pc = "save",
                         !.batch = parsed.records, !.last = parsed.last]]
        BY <3>x, <3>b
      <4>d. UNCHANGED <<head, tail, cursor, damage, journalHistory>>
        BY <2>5 DEF replay
      <4> HIDE DEF parsed
      <4>1. JournalTypeOK'
        <5>1. reader[r] \in ReaderRecord
          BY DEF JournalTypeOK
        <5>2. reader'[r] \in ReaderRecord
          <6>1. reader'[r] = [reader[r] EXCEPT !.pc = "save",
                               !.batch = parsed.records, !.last = parsed.last]
            BY <4>c, Zenon DEF JournalTypeOK
          <6>2. parsed.last \in 0..MaxEntries
            BY <4>a DEF JournalTypeOK
          <6>3. parsed.records \in SUBSET Entry
            BY <4>a
          <6>4. PICK b \in SUBSET Entry, l \in 0..MaxEntries :
                  reader'[r] = [reader[r] EXCEPT !.pc = "save",
                                 !.batch = b, !.last = l]
            BY <6>1, <6>2, <6>3, Zenon
          <6> QED BY <5>1, <6>4 DEF ReaderRecord
        <5>3. reader' \in [Reader -> ReaderRecord]
          BY <5>2, <4>c DEF JournalTypeOK
        <5> QED BY <5>3, <4>d DEF journalHistory, JournalTypeOK
      <4>2. NoSilentSkip'
        BY <4>a, <4>b, <4>c, <4>d
           DEF journalHistory, JournalTypeOK, NoSilentSkip, Accounted, Entry
      <4>3. ASSUME NEW q \in Reader PROVE ReaderAccounted(q)'
        BY <4>a, <4>b, <4>c, <4>d, ReaderAccounted(q)
           DEF journalHistory, JournalTypeOK, ReaderAccounted, Accounted,
               ReaderRecord,
             Entry
      <4> QED BY <4>1, <4>2, <4>3
    <3> QED BY <3>a, <3>b
  <2>6. ASSUME NEW r \in Reader, cursorInvalidated(r) PROVE SkipInv'
    <3>1. JournalTypeOK'
      BY <2>6
         DEF cursorInvalidated, journalHistory, JournalTypeOK, ReaderRecord,
             Entry
    <3>2. NoSilentSkip'
      BY <2>6
         DEF cursorInvalidated, journalHistory, JournalTypeOK, NoSilentSkip,
             Accounted, Entry
    <3>3. ASSUME NEW q \in Reader PROVE ReaderAccounted(q)'
      BY <2>6, ReaderAccounted(q)
         DEF cursorInvalidated, journalHistory, JournalTypeOK,
             ReaderAccounted, Accounted, ReaderRecord,
             Entry
    <3> QED BY <3>1, <3>2, <3>3
  <2>7. ASSUME NEW r \in Reader, establishBaseline(r) PROVE SkipInv'
    <3>x. PICK printed \in {lastLines(1), {}} :
            reader' = [reader EXCEPT ![r].pc = "save",
                         ![r].last = ParseJSONLines(printed, 1).last]
      BY <2>7 DEF establishBaseline
    <3> DEFINE last == ParseJSONLines(printed, 1).last
    <3>a. last \in 0..tail
      <4>1. last \in {0, tail}
        BY LastOfOneLine
      <4> QED BY <4>1 DEF JournalTypeOK
    <3>b. reader' = [reader EXCEPT ![r].pc = "save", ![r].last = last]
      BY <3>x
    <3>c. UNCHANGED <<head, tail, cursor, damage, journalHistory>>
      BY <2>7 DEF establishBaseline
    <3> HIDE DEF last
    <3>1. JournalTypeOK'
      <4>1. reader'[r] \in ReaderRecord
        <5>1. reader[r] \in ReaderRecord /\ last \in 0..MaxEntries
          BY <3>a DEF JournalTypeOK
        <5>2. reader'[r] = [reader[r] EXCEPT !.pc = "save", !.last = last]
          BY <3>b DEF JournalTypeOK
        <5> QED BY <5>1, <5>2, BaselineSaveTyped, Zenon
      <4>2. reader' \in [Reader -> ReaderRecord]
        BY <4>1, <3>b DEF JournalTypeOK
      <4> QED BY <4>2, <3>c DEF journalHistory, JournalTypeOK
    <3>2. NoSilentSkip'
      BY <3>a, <3>b, <3>c, <2>7
         DEF journalHistory, JournalTypeOK, NoSilentSkip, Accounted, Entry
    <3>3. ASSUME NEW q \in Reader PROVE ReaderAccounted(q)'
      <4>1. CASE q # r
        BY <4>1, <3>b, <3>c, ReaderAccounted(q)
           DEF journalHistory, JournalTypeOK, ReaderAccounted, Accounted
      <4>2. CASE q = r
        <5>1. reader[r] \in ReaderRecord
          BY DEF JournalTypeOK
        <5>2. reader'[r] = [reader[r] EXCEPT !.pc = "save", !.last = last]
          BY <3>b DEF JournalTypeOK
        <5>3. /\ reader'[r].pc = "save" /\ reader'[r].last = last
              /\ reader'[r].from = reader[r].from
              /\ reader'[r].fresh = reader[r].fresh
          BY <5>1, <5>2 DEF ReaderRecord
        <5>4. reader[r].fresh
          BY <2>7, ReaderAccounted(r) DEF establishBaseline, ReaderAccounted
        <5> QED BY <4>2, <5>3, <5>4, <3>a, <3>c, ReaderAccounted(r)
                DEF ReaderAccounted
      <4> QED BY <4>1, <4>2
    <3> QED BY <3>1, <3>2, <3>3
  <2>8. ASSUME NEW r \in Reader, collectFails(r) PROVE SkipInv'
    <3>1. JournalTypeOK'
      BY <2>8
         DEF collectFails, IdleReader, journalHistory, JournalTypeOK,
             ReaderRecord, Entry
    <3>2. NoSilentSkip'
      BY <2>8
         DEF collectFails, IdleReader, journalHistory, JournalTypeOK,
             NoSilentSkip, Accounted, Entry
    <3>3. ASSUME NEW q \in Reader PROVE ReaderAccounted(q)'
      BY <2>8, ReaderAccounted(q)
         DEF collectFails, IdleReader, journalHistory, JournalTypeOK,
             ReaderAccounted, Accounted, ReaderRecord,
             Entry
    <3> QED BY <3>1, <3>2, <3>3
  <2>9. ASSUME NEW r \in Reader, saveCursor(r) PROVE SkipInv'
    <3>a. /\ Accounted \subseteq Accounted'
          /\ 1..reader[r].last \subseteq Accounted'
      BY <2>9, ReaderAccounted(r) DEF saveCursor, ReaderAccounted, Accounted,
         JournalTypeOK, ReaderRecord, Entry
    <3>1. JournalTypeOK'
      <4>1. reader[r] \in ReaderRecord /\ reader[r].last <= tail
        BY ReaderAccounted(r) DEF JournalTypeOK, ReaderAccounted
      <4>2. /\ reader[r].last \in 0..tail
            /\ reader[r].last \in 0..MaxEntries
            /\ reader[r].batch \subseteq Entry
            /\ 1..reader[r].last \subseteq Entry
        BY <4>1 DEF JournalTypeOK, ReaderRecord, Entry
      <4>3. reader' \in [Reader -> ReaderRecord]
        BY <2>9, IdleTyped, OvertakeTyped DEF saveCursor, JournalTypeOK
      <4>4. cursor' \in {Corrupt} \cup 0..tail
        BY <2>9, <4>2 DEF saveCursor, cursorToSave, JournalTypeOK
      <4>5. /\ collected' \subseteq Entry
            /\ baselined' \subseteq Entry
            /\ resetted' \subseteq Entry
        BY <2>9, <4>2 DEF saveCursor, JournalTypeOK
      <4>7. again' \in BOOLEAN /\ raced' \in BOOLEAN
        BY <2>9, Zenon DEF saveCursor
      <4>8. UNCHANGED <<head, tail, damage>>
        BY <2>9 DEF saveCursor
      <4> QED BY <4>3, <4>4, <4>5, <4>7, <4>8 DEF JournalTypeOK
    <3>2. NoSilentSkip'
      BY <3>a, <2>9
         DEF saveCursor, cursorToSave, overtake, IdleReader, JournalTypeOK,
             NoSilentSkip, Accounted, Entry
    <3>3. ASSUME NEW q \in Reader PROVE ReaderAccounted(q)'
      <4>0. reader \in [Reader -> ReaderRecord] /\ tail' = tail
            /\ tail \in Nat
        BY <2>9 DEF saveCursor, JournalTypeOK
      <4>1. CASE q = r
        <5>1. reader'[q] = IdleReader
          BY <2>9, <4>0, <4>1 DEF saveCursor, overtake
        <5> QED BY <5>1, <4>0 DEF ReaderAccounted, IdleReader
      <4>2. CASE q # r
        <5>1. \/ reader'[q] = reader[q]
              \/ reader'[q] = [reader[q] EXCEPT !.overtaken = TRUE]
          BY <2>9, <4>0, <4>2 DEF saveCursor, overtake
        <5>2. /\ reader'[q].pc = reader[q].pc
              /\ reader'[q].fresh = reader[q].fresh
              /\ reader'[q].from = reader[q].from
              /\ reader'[q].last = reader[q].last
              /\ reader'[q].batch = reader[q].batch
          BY <5>1, <4>0 DEF ReaderRecord
        <5> QED BY <5>2, <4>0, <3>a, ReaderAccounted(q) DEF ReaderAccounted
      <4> QED BY <4>1, <4>2
    <3> QED BY <3>1, <3>2, <3>3
  <2>10. CASE UNCHANGED journalVars
    BY <2>10 DEF journalVars, JournalTypeOK, NoSilentSkip, ReaderAccounted,
                 Accounted
  <2> QED
    BY <2>1, <2>2, <2>3, <2>4, <2>5, <2>6, <2>7, <2>8, <2>9, <2>10
       DEF JournalNext, collectStream
<1> QED BY <1>1, <1>2, PTL DEF JournalSpec

\* The types of the journal, of the row and of the readers.
THEOREM JournalTypes == JournalSpec => []JournalTypeOK
BY SkipInvariant, PTL DEF SkipInv

\* The cursor never stands behind an entry that no observation reported,
\* announced as baseline or reset, and that was not vacuumed.
THEOREM CursorAccounted == JournalSpec => []NoSilentSkip
BY SkipInvariant, PTL DEF SkipInv

(***************************************************************************)
(* A backlog.  Records above the limit make the output count as truncated, *)
(* which leaves the cursor (runner.go 119): what a reader does carry on is *)
(* within the limit, so all of a longer backlog is never among it.         *)
(***************************************************************************)
BatchBounded == \A r \in Reader : Cardinality(reader[r].batch) <= MaxRecords

\* A reader gets on from a backlog above the limit only if it has not seen all
\* of it: the end of journalctl's output was lost.
BacklogNeedsLoss ==
  [][\A r \in Reader :
       /\ reader[r].pc = "replay"
       /\ Cardinality(afterCursor(reader[r].from)) > MaxRecords
       /\ reader'[r].pc = "save"
       => reader'[r].batch # afterCursor(reader[r].from)]_journalVars

\* What is parsed whole is within the limit.
LEMMA WholeIsBounded ==
  ASSUME JournalTypeOK, NEW from \in Int, NEW cut \in (head - 1)..tail,
         NEW printed, printed = {e \in afterCursor(from) : e <= cut},
         ~ParseJSONLines(printed, MaxRecords).truncated
  PROVE  Cardinality(printed) <= MaxRecords
<1>1. CASE printed = {}
  BY <1>1, FS_EmptySet, JournalAssumption
<1>2. CASE printed # {}
  <2>1. cut \in printed /\ \A f \in printed : f <= cut
    BY <1>2, JournalAssumption DEF afterCursor, JournalTypeOK
  <2>2. printed = {e \in printed :
                     Cardinality({f \in printed : f <= e}) <= MaxRecords}
    BY Zenon DEF ParseJSONLines
  <2>3. Cardinality({f \in printed : f <= cut}) <= MaxRecords
    BY <2>1, <2>2
  <2>4. {f \in printed : f <= cut} = printed
    BY <2>1
  <2> QED BY <2>3, <2>4
<1> QED BY <1>1, <1>2

\* No observation holds more records than the stream's limit, whatever stands
\* behind its cursor (runner.go 104-131).
THEOREM BatchesBounded == JournalSpec => []BatchBounded
<1>1. JournalInit => BatchBounded
  BY FS_EmptySet, JournalAssumption DEF JournalInit, IdleReader, BatchBounded
<1>2. ASSUME JournalTypeOK, BatchBounded, [JournalNext]_journalVars
      PROVE  BatchBounded'
  <2> SUFFICES ASSUME NEW q \in Reader
               PROVE  Cardinality(reader'[q].batch) <= MaxRecords
    BY DEF BatchBounded
  <2>1. Cardinality(reader[q].batch) <= MaxRecords
    BY <1>2 DEF BatchBounded
  <2>2. Cardinality(IdleReader.batch) <= MaxRecords
    BY FS_EmptySet, JournalAssumption DEF IdleReader
  <2>3. reader \in [Reader -> ReaderRecord]
    BY <1>2 DEF JournalTypeOK
  <2>4. ASSUME reader'[q].batch \in {reader[q].batch, IdleReader.batch}
        PROVE  Cardinality(reader'[q].batch) <= MaxRecords
    BY <2>1, <2>2, <2>4
  <2>5. CASE WriteEntry \/ Vacuum \/ UNCHANGED journalVars
    BY <2>1, <2>5 DEF WriteEntry, Vacuum, journalVars
  <2>6. overtake(reader)[q].batch = reader[q].batch
    BY <2>3 DEF overtake, ReaderRecord
  <2>7. CASE DamageCursor
    BY <2>4, <2>6, <2>7 DEF DamageCursor
  <2>8. ASSUME NEW r \in Reader, collectStream(r)
        PROVE  Cardinality(reader'[q].batch) <= MaxRecords
    <3>1. CASE loadCursor(r)
      <4>1. reader'[q].batch \in {reader[q].batch, IdleReader.batch}
        BY <2>3, <3>1 DEF loadCursor, IdleReader
      <4> QED BY <2>4, <4>1
    <3>2. CASE replay(r)
      <4>1. PICK cut \in (head - 1)..tail :
              LET printed == {e \in afterCursor(reader[r].from) : e <= cut}
                  parsed == ParseJSONLines(printed, MaxRecords)
              IN reader' = [reader EXCEPT ![r] =
                   IF parsed.truncated
                   THEN IdleReader
                   ELSE [@ EXCEPT !.pc = "save",
                                  !.batch = parsed.records,
                                  !.last = parsed.last]]
        BY <3>2 DEF replay
      <4> DEFINE printed == {e \in afterCursor(reader[r].from) : e <= cut}
                 parsed == ParseJSONLines(printed, MaxRecords)
      <4>2. CASE parsed.truncated \/ r # q
        <5>1. reader'[q].batch \in {reader[q].batch, IdleReader.batch}
          BY <2>3, <4>1, <4>2
        <5> QED BY <2>4, <5>1
      <4>3. CASE ~parsed.truncated /\ r = q
        <5>1. reader[r].from \in Int
          BY <2>3, JournalAssumption DEF ReaderRecord, Corrupt
        <5>2. Cardinality(printed) <= MaxRecords
          BY <1>2, <4>3, <5>1, WholeIsBounded
        <5>3. parsed.records = printed
          BY <4>3, ParsedWhole
        <5> HIDE DEF printed, parsed
        <5>4. reader' = [reader EXCEPT ![r] =
                [@ EXCEPT !.pc = "save",
                          !.batch = parsed.records,
                          !.last = parsed.last]]
          BY <4>1, <4>3 DEF printed, parsed
        <5>5. reader'[q].batch = parsed.records
          BY <2>3, <4>3, <5>4 DEF ReaderRecord
        <5> QED BY <5>2, <5>3, <5>5
      <4> QED BY <4>2, <4>3
    <3>3. CASE cursorInvalidated(r)
      <4>1. reader'[q].batch = reader[q].batch
        BY <2>3, <3>3 DEF cursorInvalidated, ReaderRecord
      <4> QED BY <2>4, <4>1
    <3>4. CASE establishBaseline(r)
      <4>1. reader'[q].batch = reader[q].batch
        BY <2>3, <3>4 DEF establishBaseline, ReaderRecord
      <4> QED BY <2>4, <4>1
    <3>5. CASE collectFails(r)
      <4>1. reader'[q].batch \in {reader[q].batch, IdleReader.batch}
        BY <2>3, <3>5 DEF collectFails
      <4> QED BY <2>4, <4>1
    <3>6. CASE saveCursor(r)
      <4>1. reader' = [(IF reader[r].last = 0 THEN reader
                        ELSE overtake(reader)) EXCEPT ![r] = IdleReader]
        BY <3>6 DEF saveCursor
      <4>2. overtake(reader) \in [Reader -> ReaderRecord]
        BY <2>3, OvertakeTyped
      <4>3. reader'[q].batch \in {reader[q].batch, IdleReader.batch}
        BY <2>3, <2>6, <4>1, <4>2
      <4> QED BY <2>4, <4>3
    <3> QED
      BY <2>8, <3>1, <3>2, <3>3, <3>4, <3>5, <3>6 DEF collectStream
  <2> QED BY <1>2, <2>5, <2>7, <2>8 DEF JournalNext
<1> QED BY <1>1, <1>2, JournalTypes, PTL DEF JournalSpec

\* More records than the limit since the cursor: no collection that sees them
\* all takes the cursor on, however often it is retried (runner.go 119).
THEOREM BacklogHeldUntilLoss == JournalSpec => BacklogNeedsLoss
<1>1. ASSUME JournalTypeOK, BatchBounded', NEW r \in Reader,
             Cardinality(afterCursor(reader[r].from)) > MaxRecords
      PROVE  reader'[r].batch # afterCursor(reader[r].from)
  <2> DEFINE behind == afterCursor(reader[r].from)
  <2>1. Cardinality(reader'[r].batch) <= MaxRecords
    BY <1>1 DEF BatchBounded
  <2>2. behind \subseteq head..tail /\ head \in Int /\ tail \in Int
    BY <1>1, JournalAssumption DEF afterCursor, JournalTypeOK
  <2>3. IsFiniteSet(behind)
    BY <2>2, FS_Interval, FS_Subset
  <2>4. Cardinality(behind) \in Nat
    BY <2>3, FS_CardinalityType
  <2> HIDE DEF behind
  <2>5. Cardinality(behind) > MaxRecords
    BY <1>1 DEF behind
  <2>6. reader'[r].batch # behind
    BY <2>1, <2>4, <2>5, JournalAssumption
  <2> QED BY <2>6 DEF behind
<1>2. JournalTypeOK /\ BatchBounded' =>
        [\A r \in Reader :
           /\ reader[r].pc = "replay"
           /\ Cardinality(afterCursor(reader[r].from)) > MaxRecords
           /\ reader'[r].pc = "save"
           => reader'[r].batch # afterCursor(reader[r].from)]_journalVars
  BY <1>1
<1> QED BY <1>2, JournalTypes, BatchesBounded, PTL DEF BacklogNeedsLoss

(***************************************************************************)
(* Each entry once.  While no cursor was saved over one that its reader    *)
(* had not loaded, what was collected lies before the cursor, and a reader *)
(* that nobody has overtaken still carries the row's cursor: its batch     *)
(* begins after it.  A damaged row forgets where that was; the baseline    *)
(* that replaces it is taken at the end of the journal.                    *)
(***************************************************************************)
Ahead(r) ==
  /\ reader[r].pc # "idle" /\ ~reader[r].overtaken => reader[r].from = cursor
  /\ reader[r].pc # "save" => reader[r].batch = {}
  /\ reader[r].pc = "replay" => reader[r].from > 0 /\ ~reader[r].fresh
  /\ reader[r].pc = "save" /\ ~reader[r].fresh =>
       /\ reader[r].from > 0
       /\ reader[r].batch \subseteq (reader[r].from + 1)..reader[r].last
       /\ reader[r].last = 0 \/ reader[r].from < reader[r].last
  /\ reader[r].pc = "save" /\ reader[r].fresh =>
       /\ reader[r].batch = {}
       /\ \/ reader[r].last = 0 \/ reader[r].overtaken
          \/ collected \subseteq 1..reader[r].last

CollectedBefore ==
  /\ collected \subseteq 1..tail
  /\ ~raced => ~again /\ (cursor # Corrupt => collected \subseteq 1..cursor)

OnceInv == CollectedBefore /\ \A r \in Reader : Ahead(r)

\* A reader whose step is the only one leaves the others as they were.
LEMMA OneReader ==
  ASSUME JournalTypeOK, NEW r \in Reader, NEW x \in ReaderRecord,
         reader' = [reader EXCEPT ![r] = x], OnceInv,
         UNCHANGED <<tail, cursor, collected, again, raced>>,
         /\ x.pc # "idle" /\ ~x.overtaken => x.from = cursor
         /\ x.pc # "save" => x.batch = {}
         /\ x.pc = "replay" => x.from > 0 /\ ~x.fresh
         /\ x.pc = "save" /\ ~x.fresh =>
              /\ x.from > 0
              /\ x.batch \subseteq (x.from + 1)..x.last
              /\ x.last = 0 \/ x.from < x.last
         /\ x.pc = "save" /\ x.fresh =>
              /\ x.batch = {}
              /\ x.last = 0 \/ x.overtaken \/ collected \subseteq 1..x.last
  PROVE  OnceInv'
<1>1. CollectedBefore'
  BY DEF OnceInv, CollectedBefore
<1>2. ASSUME NEW q \in Reader PROVE Ahead(q)'
  <2>1. reader \in [Reader -> ReaderRecord]
    BY DEF JournalTypeOK
  <2>2. CASE q = r
    <3>1. reader'[q] = x
      BY <2>1, <2>2
    <3> QED
      BY <3>1 DEF Ahead
  <2>3. CASE q # r
    <3>1. reader'[q] = reader[q]
      BY <2>1, <2>3
    <3> QED
      BY <3>1 DEF Ahead, OnceInv
  <2> QED
    BY <2>2, <2>3
<1> QED
  BY <1>1, <1>2 DEF OnceInv

\* A row that is written overtakes every reader that is under way.
LEMMA OvertakenReader ==
  ASSUME JournalTypeOK, NEW q \in Reader, NEW x,
         x = overtake(reader)[q]
  PROVE  /\ x.pc = reader[q].pc /\ x.fresh = reader[q].fresh
         /\ x.from = reader[q].from /\ x.last = reader[q].last
         /\ x.batch = reader[q].batch
         /\ x.pc # "idle" => x.overtaken
<1>1. reader[q] \in ReaderRecord
  BY DEF JournalTypeOK
<1>2. CASE reader[q].pc = "idle"
  BY <1>2 DEF overtake
<1>3. CASE reader[q].pc # "idle"
  <2>1. x = [reader[q] EXCEPT !.overtaken = TRUE]
    BY <1>3 DEF overtake
  <2> QED
    BY <1>1, <2>1 DEF ReaderRecord
<1> QED
  BY <1>2, <1>3

\* Every step keeps the order of what was collected, the cursor and what the
\* readers carry.
LEMMA OnceStep ==
  ASSUME SkipInv, SkipInv', OnceInv, [JournalNext]_journalVars
  PROVE  OnceInv'
<1> USE JournalAssumption DEF NoCursor, Corrupt
<1>t. JournalTypeOK /\ JournalTypeOK'
  BY DEF SkipInv
<1>1. CASE WriteEntry
  <2>1. /\ tail' = tail + 1 /\ tail \in Nat
        /\ UNCHANGED <<cursor, reader, collected, again, raced>>
    BY <1>1, <1>t DEF WriteEntry, journalHistory, JournalTypeOK
  <2>2. CollectedBefore'
    BY <2>1 DEF OnceInv, CollectedBefore
  <2> QED
    BY <2>1, <2>2 DEF OnceInv, Ahead
<1>2. CASE Vacuum
  BY <1>2 DEF Vacuum, journalHistory, OnceInv, CollectedBefore, Ahead
<1>3. CASE DamageCursor
  <2>1. /\ cursor' = Corrupt /\ reader' = overtake(reader)
        /\ UNCHANGED <<tail, collected, again, raced>>
    BY <1>3 DEF DamageCursor, journalHistory
  <2>2. CollectedBefore'
    BY <2>1 DEF OnceInv, CollectedBefore
  <2>3. ASSUME NEW q \in Reader PROVE Ahead(q)'
    <3>1. /\ reader'[q].pc = reader[q].pc /\ reader'[q].fresh = reader[q].fresh
          /\ reader'[q].from = reader[q].from
          /\ reader'[q].last = reader[q].last
          /\ reader'[q].batch = reader[q].batch
          /\ reader'[q].pc # "idle" => reader'[q].overtaken
      BY <1>t, <2>1, OvertakenReader
    <3> QED
      BY <2>1, <3>1 DEF Ahead, OnceInv
  <2> QED
    BY <2>2, <2>3 DEF OnceInv
<1>4. ASSUME NEW r \in Reader, loadCursor(r) PROVE OnceInv'
  <2>1. /\ UNCHANGED <<tail, cursor, collected, again, raced>>
        /\ cursor \in Corrupt..MaxEntries
        /\ reader \in [Reader -> ReaderRecord]
    BY <1>4, <1>t DEF loadCursor, journalHistory, JournalTypeOK
  <2>2. CASE cursor \in {NoCursor, Corrupt}
    <3> DEFINE x == [IdleReader EXCEPT !.pc = "baseline", !.fresh = TRUE,
                                       !.from = cursor,
                                       !.stale = cursor = Corrupt]
    <3>1. reader' = [reader EXCEPT ![r] = x]
      BY <1>4, <2>2 DEF loadCursor
    <3>2. (cursor = Corrupt) \in BOOLEAN
      BY Zenon
    <3>3. x \in ReaderRecord
      BY <2>1, <3>2, IdleTyped, BaselineTyped, Zenon
    <3>4. x.pc = "baseline" /\ x.from = cursor /\ x.batch = {}
      BY DEF IdleReader
    <3> HIDE DEF x
    <3> QED
      BY <1>t, <2>1, <3>1, <3>3, <3>4, OneReader
  <2>3. CASE cursor \notin {NoCursor, Corrupt}
    <3> DEFINE x == [IdleReader EXCEPT !.pc = "replay", !.from = cursor]
    <3>1. reader' = [reader EXCEPT ![r] = x]
      BY <1>4, <2>3 DEF loadCursor
    <3>3. x \in ReaderRecord
      BY <2>1, IdleTyped, ReplayTyped, Zenon
    <3>4. /\ x.pc = "replay" /\ x.from = cursor /\ x.batch = {} /\ ~x.fresh
          /\ x.from > 0
      BY <2>1, <2>3 DEF IdleReader
    <3> HIDE DEF x
    <3> QED
      BY <1>t, <2>1, <3>1, <3>3, <3>4, OneReader
  <2> QED
    BY <2>2, <2>3
<1>5. ASSUME NEW r \in Reader, replay(r) PROVE OnceInv'
  <2>1. /\ UNCHANGED <<tail, cursor, collected, again, raced>>
        /\ reader \in [Reader -> ReaderRecord] /\ reader' \in [Reader -> ReaderRecord]
        /\ reader[r].pc = "replay" /\ Ahead(r)
    BY <1>5, <1>t DEF replay, journalHistory, JournalTypeOK, OnceInv
  <2>2. PICK cut \in (head - 1)..tail :
          LET printed == {e \in afterCursor(reader[r].from) : e <= cut}
              parsed == ParseJSONLines(printed, MaxRecords)
          IN reader' = [reader EXCEPT ![r] =
               IF parsed.truncated
               THEN IdleReader
               ELSE [@ EXCEPT !.pc = "save",
                              !.batch = parsed.records,
                              !.last = parsed.last]]
    BY <1>5 DEF replay
  <2> DEFINE printed == {e \in afterCursor(reader[r].from) : e <= cut}
             parsed == ParseJSONLines(printed, MaxRecords)
  <2>3. CASE parsed.truncated
    <3>1. reader' = [reader EXCEPT ![r] = IdleReader]
      BY <2>2, <2>3
    <3>2. IdleReader.pc = "idle" /\ IdleReader.batch = {}
      BY DEF IdleReader
    <3> QED
      BY <1>t, <2>1, <3>1, <3>2, IdleTyped, OneReader
  <2>4. CASE ~parsed.truncated
    <3> DEFINE x == [reader[r] EXCEPT !.pc = "save", !.batch = parsed.records,
                                      !.last = parsed.last]
    <3>1. reader' = [reader EXCEPT ![r] = x]
      BY <2>2, <2>4
    <3>2. x \in ReaderRecord
      BY <2>1, <3>1
    <3>3. reader[r].from \in Int /\ reader[r] \in ReaderRecord
      BY <2>1 DEF ReaderRecord
    <3>4. /\ parsed.records = printed
          /\ parsed.last = IF printed = {} THEN 0 ELSE cut
      <4>1. parsed.records = printed /\ parsed.last = lastOf(printed)
        BY <2>4, ParsedWhole
      <4>2. lastOf(printed) = IF printed = {} THEN 0 ELSE cut
        BY <1>t, <3>3, LastAfterCursor
      <4> QED
        BY <4>1, <4>2
    <3> HIDE DEF parsed
    <3>5. /\ x.pc = "save" /\ x.batch = printed
          /\ x.last = IF printed = {} THEN 0 ELSE cut
          /\ x.from = reader[r].from /\ x.fresh = reader[r].fresh
          /\ x.overtaken = reader[r].overtaken
      BY <3>3, <3>4 DEF ReaderRecord
    <3> HIDE DEF x
    <3>6. printed \subseteq (x.from + 1)..cut
      BY <1>t, <3>3, <3>5 DEF afterCursor, JournalTypeOK
    <3>7. /\ x.batch \subseteq (x.from + 1)..x.last
          /\ x.last = 0 \/ x.from < x.last
      BY <1>t, <3>3, <3>5, <3>6 DEF JournalTypeOK
    <3>8. /\ x.from > 0 /\ ~x.fresh
          /\ ~x.overtaken => x.from = cursor
      BY <2>1, <3>5 DEF Ahead
    <3> QED
      BY <1>t, <2>1, <3>1, <3>2, <3>5, <3>7, <3>8, OneReader
  <2> QED
    BY <2>3, <2>4
<1>6. ASSUME NEW r \in Reader, cursorInvalidated(r) PROVE OnceInv'
  <2> DEFINE x == [reader[r] EXCEPT !.pc = "baseline", !.fresh = TRUE,
                                    !.stale = TRUE]
  <2>1. /\ UNCHANGED <<tail, cursor, collected, again, raced>>
        /\ reader[r] \in ReaderRecord
        /\ reader[r].pc = "replay" /\ Ahead(r)
        /\ reader' = [reader EXCEPT ![r] = x]
    BY <1>6, <1>t DEF cursorInvalidated, journalHistory, JournalTypeOK, OnceInv
  <2>2. /\ x \in ReaderRecord /\ x.pc = "baseline"
        /\ x.batch = reader[r].batch /\ x.from = reader[r].from
        /\ x.overtaken = reader[r].overtaken
    BY <2>1 DEF ReaderRecord
  <2> HIDE DEF x
  <2>3. x.batch = {} /\ (~x.overtaken => x.from = cursor)
    BY <2>1, <2>2 DEF Ahead
  <2> QED
    BY <1>t, <2>1, <2>2, <2>3, OneReader
<1>7. ASSUME NEW r \in Reader, establishBaseline(r) PROVE OnceInv'
  <2>1. /\ UNCHANGED <<tail, cursor, collected, again, raced>>
        /\ reader[r] \in ReaderRecord
        /\ reader[r].pc = "baseline" /\ Ahead(r) /\ ReaderAccounted(r)
    BY <1>7, <1>t DEF establishBaseline, journalHistory, JournalTypeOK, OnceInv, SkipInv
  <2>2. PICK printed \in {lastLines(1), {}} :
          reader' = [reader EXCEPT ![r].pc = "save",
            ![r].last = ParseJSONLines(printed, 1).last]
    BY <1>7 DEF establishBaseline
  <2> DEFINE last == ParseJSONLines(printed, 1).last
             x == [reader[r] EXCEPT !.pc = "save", !.last = last]
  <2>3. last \in {0, tail} /\ last \in 0..MaxEntries
    <3>1. last \in {0, tail}
      BY <1>t, LastOfOneLine
    <3> QED
      BY <1>t, <3>1 DEF JournalTypeOK
  <2> HIDE DEF last
  <2>4. reader' = [reader EXCEPT ![r] = x]
    BY <1>t, <2>2 DEF last, JournalTypeOK
  <2>5. /\ x \in ReaderRecord /\ x.pc = "save" /\ x.last = last
        /\ x.batch = reader[r].batch /\ x.from = reader[r].from
        /\ x.overtaken = reader[r].overtaken /\ x.fresh = reader[r].fresh
    BY <2>1, <2>3 DEF ReaderRecord
  <2> HIDE DEF x
  <2>6. /\ x.batch = {} /\ (~x.overtaken => x.from = cursor) /\ x.fresh
        /\ x.last = 0 \/ collected \subseteq 1..x.last
    BY <2>1, <2>3, <2>5 DEF Ahead, ReaderAccounted, OnceInv, CollectedBefore
  <2> QED
    BY <1>t, <2>1, <2>4, <2>5, <2>6, OneReader
<1>8. ASSUME NEW r \in Reader, collectFails(r) PROVE OnceInv'
  <2>1. /\ UNCHANGED <<tail, cursor, collected, again, raced>>
        /\ reader' = [reader EXCEPT ![r] = IdleReader]
    BY <1>8 DEF collectFails, journalHistory
  <2>2. IdleReader.pc = "idle" /\ IdleReader.batch = {}
    BY DEF IdleReader
  <2> QED
    BY <1>t, <2>1, <2>2, IdleTyped, OneReader
<1>9. ASSUME NEW r \in Reader, saveCursor(r) PROVE OnceInv'
  <2>1. /\ reader[r].pc = "save" /\ Ahead(r) /\ reader[r] \in ReaderRecord
        /\ reader[r].last \in Nat /\ reader[r].last <= tail
        /\ cursor' = IF reader[r].last = 0 THEN cursor ELSE reader[r].last
        /\ collected' = collected \cup reader[r].batch
        /\ again' = (again \/ reader[r].batch \cap collected # {})
        /\ raced' = (raced \/ (reader[r].last # 0 /\ reader[r].overtaken))
        /\ reader' = [(IF reader[r].last = 0 THEN reader ELSE overtake(reader))
                        EXCEPT ![r] = IdleReader]
        /\ tail' = tail
        /\ reader \in [Reader -> ReaderRecord]
    <3>1. ReaderAccounted(r)
      BY DEF SkipInv
    <3>2. reader[r] \in ReaderRecord
      BY <1>t DEF JournalTypeOK
    <3>3. reader[r].last \in Nat
      BY <3>2 DEF ReaderRecord
    <3> QED
      BY <1>9, <1>t, <3>1, <3>2, <3>3
         DEF saveCursor, cursorToSave, OnceInv, JournalTypeOK, ReaderAccounted
  <2>2. /\ cursor \in Int /\ tail \in Nat /\ reader[r].from \in Int
        /\ reader[r].fresh \in BOOLEAN
        /\ collected \subseteq 1..tail
        /\ ~raced => ~again /\ (cursor # Corrupt => collected \subseteq 1..cursor)
    BY <1>t, <2>1 DEF JournalTypeOK, ReaderRecord, OnceInv, CollectedBefore
  <2>3. IdleReader.pc = "idle" /\ IdleReader.batch = {}
    BY DEF IdleReader
  <2>4. CASE reader[r].last = 0
    <3>1. reader[r].batch = {}
      BY <2>1, <2>2, <2>4 DEF Ahead
    <3>2. reader' = [reader EXCEPT ![r] = IdleReader]
      BY <2>1, <2>4
    <3>3. UNCHANGED <<tail, cursor, collected>>
      BY <2>1, <2>4, <3>1
    <3>4. again \in BOOLEAN /\ raced \in BOOLEAN
      BY <1>t DEF JournalTypeOK
    <3>5. UNCHANGED <<again, raced>>
      BY <2>1, <2>4, <3>1, <3>4, Zenon
    <3> QED
      BY <1>t, <2>3, <3>2, <3>3, <3>5, IdleTyped, OneReader
  <2>5. CASE reader[r].last # 0
    <3>1. /\ cursor' = reader[r].last
          /\ reader' = [overtake(reader) EXCEPT ![r] = IdleReader]
          /\ raced' = (raced \/ reader[r].overtaken)
      BY <2>1, <2>5
    <3>2. reader[r].batch \subseteq 1..reader[r].last
      BY <2>1, <2>2, <2>5 DEF Ahead
    <3>3. collected' \subseteq 1..tail'
      <4>1. reader[r].batch \subseteq 1..tail
        BY <2>1, <2>2, <3>2
      <4> QED
        BY <2>1, <2>2, <4>1
    <3>4. ASSUME ~raced' PROVE ~again' /\ collected' \subseteq 1..cursor'
      <4>1. /\ ~raced /\ ~reader[r].overtaken
            /\ reader[r].from = cursor
        BY <2>1, <3>1, <3>4 DEF Ahead
      <4>2. CASE reader[r].fresh
        <5>1. reader[r].batch = {} /\ collected \subseteq 1..reader[r].last
          BY <2>1, <2>5, <4>1, <4>2 DEF Ahead
        <5> QED
          BY <2>1, <2>2, <3>1, <4>1, <5>1
      <4>3. CASE ~reader[r].fresh
        <5>1. /\ cursor > 0 /\ cursor < reader[r].last
              /\ reader[r].batch \subseteq (cursor + 1)..reader[r].last
              /\ collected \subseteq 1..cursor
          BY <2>1, <2>2, <2>5, <4>1, <4>3 DEF Ahead
        <5>2. reader[r].batch \cap collected = {}
          BY <2>2, <5>1
        <5>3. collected \subseteq 1..reader[r].last
          BY <2>1, <2>2, <5>1
        <5> QED
          BY <2>1, <2>2, <3>1, <3>2, <4>1, <5>2, <5>3
      <4> QED
        BY <4>2, <4>3
    <3>5. ASSUME NEW q \in Reader PROVE Ahead(q)'
      <4>1. CASE q = r
        <5>1. reader'[q] = IdleReader
          BY <3>1, <4>1 DEF overtake
        <5> QED
          BY <5>1, <2>3 DEF Ahead
      <4>2. CASE q # r
        <5>1. reader'[q] = overtake(reader)[q]
          BY <3>1, <4>2 DEF overtake
        <5>2. /\ reader'[q].pc = reader[q].pc
              /\ reader'[q].fresh = reader[q].fresh
              /\ reader'[q].from = reader[q].from
              /\ reader'[q].last = reader[q].last
              /\ reader'[q].batch = reader[q].batch
              /\ reader'[q].pc # "idle" => reader'[q].overtaken
          BY <1>t, <5>1, OvertakenReader
        <5> QED
          BY <5>2 DEF Ahead, OnceInv
      <4> QED
        BY <4>1, <4>2
    <3> QED
      BY <3>3, <3>4, <3>5 DEF OnceInv, CollectedBefore
  <2> QED
    BY <2>4, <2>5
<1>10. CASE UNCHANGED journalVars
  BY <1>10 DEF journalVars, OnceInv, CollectedBefore, Ahead
<1> QED
  BY <1>1, <1>2, <1>3, <1>4, <1>5, <1>6, <1>7, <1>8, <1>9, <1>10
     DEF JournalNext, collectStream

\* While no reader has saved its cursor over one that it had not loaded,
\* every entry is in at most one observation, through vacuums, resets,
\* damaged rows, truncated outputs and failures (collectors/journal).
THEOREM CollectedAtMostOnce == JournalSpec => []CollectedOnceUnlessRaced
<1>1. JournalInit => OnceInv
  BY DEF JournalInit, OnceInv, CollectedBefore, Ahead, IdleReader
<1>2. OnceInv => CollectedOnceUnlessRaced
  BY DEF OnceInv, CollectedBefore, CollectedOnceUnlessRaced
<1>3. SkipInv /\ SkipInv' /\ OnceInv /\ [JournalNext]_journalVars => OnceInv'
  BY OnceStep
<1> QED
  BY <1>1, <1>2, <1>3, SkipInvariant, PTL DEF JournalSpec

(***************************************************************************)
(* The file baseline.                                                      *)
(***************************************************************************)
\* Two snapshots between which no change is reported are the same.
LEMMA UnchangedIsEqual ==
  ASSUME NEW a \in Snapshot \cup {Absent}, NEW b \in Snapshot \cup {Absent},
         compareSnapshots(a, b) = "unchanged"
  PROVE  a = b
<1>1. CASE a \in Snapshot /\ b \in Snapshot
  <2>1. a.exists /\ b.exists
    BY <1>1 DEF Snapshot
  <2>2. /\ a.type = b.type /\ a.mode = b.mode /\ a.owner = b.owner
        /\ a.hash = b.hash /\ a.meta = b.meta /\ a.exists = b.exists
    BY <1>1, <2>1 DEF compareSnapshots, Snapshot
  <2> QED BY <1>1, <2>2 DEF Snapshot
<1>2. CASE a \in Snapshot /\ b = Absent
  BY <1>2 DEF Snapshot, Absent, compareSnapshots
<1>3. CASE a = Absent /\ b \in Snapshot
  BY <1>3 DEF Snapshot, Absent, compareSnapshots
<1> QED BY <1>1, <1>2, <1>3

\* Lstat of an object is a snapshot.
LEMMA LstatTyped ==
  ASSUME NEW f \in Object PROVE lstat(f) \in Snapshot
BY FileAssumption DEF Object, Snapshot, lstat

\* So is a snapshot to which the hash of the contents is added.
LEMMA HashTyped ==
  ASSUME NEW s \in Snapshot, NEW h \in 1..MaxWrites
  PROVE  [s EXCEPT !.hash = h] \in Snapshot
<1>1. h \in 0..MaxWrites
  BY FileAssumption
<1> QED BY <1>1 DEF Snapshot

\* What each step leaves in a watcher is a watcher's record.
LEMMA IdleWatcherTyped == IdleWatcher \in WatcherRecord
BY DEF IdleWatcher, WatcherRecord

\* The record of a watcher that is to read the contents.
LEMMA ContentsTyped ==
  ASSUME NEW s \in Snapshot, NEW o \in 1..MaxWrites
  PROVE  [pc |-> "contents", lstat |-> s, object |-> o] \in WatcherRecord
BY DEF WatcherRecord

\* The record of a watcher that has its snapshot.
LEMMA LoadTyped ==
  ASSUME NEW s \in Snapshot \cup {Absent}, NEW from \in Source
  PROVE  [pc |-> "load", snapshot |-> s, source |-> from] \in WatcherRecord
BY DEF WatcherRecord

\* The record of a watcher that is about to save.
LEMMA SaveTyped ==
  ASSUME NEW s \in Snapshot \cup {Absent}, NEW from \in Source, NEW c \in Change
  PROVE  [pc |-> "save", snapshot |-> s, source |-> from, change |-> c]
           \in WatcherRecord
BY DEF WatcherRecord

\* A watcher that has saved has still the same snapshot and change.
LEMMA ReportTyped ==
  ASSUME NEW x \in WatcherRecord, x.pc = "save"
  PROVE  /\ [x EXCEPT !.pc = "report"] \in WatcherRecord
         /\ [x EXCEPT !.pc = "report"].pc = "report"
         /\ [x EXCEPT !.pc = "report"].snapshot = x.snapshot
         /\ [x EXCEPT !.pc = "report"].source = x.source
         /\ [x EXCEPT !.pc = "report"].change = x.change
<1>1. x \in [pc : {"save", "report"}, snapshot : Snapshot \cup {Absent},
             source : Source, change : Change]
  BY DEF WatcherRecord
<1>2. [x EXCEPT !.pc = "report"]
        \in [pc : {"save", "report"}, snapshot : Snapshot \cup {Absent},
             source : Source, change : Change]
  BY <1>1
<1> QED BY <1>1, <1>2 DEF WatcherRecord

\* compareSnapshots names one of the kinds of change.
LEMMA CompareTyped ==
  ASSUME NEW a \in Snapshot \cup {Absent}, NEW b \in Snapshot \cup {Absent}
  PROVE compareSnapshots(a, b) \in Change
<1>1. a.exists = TRUE \/ a.exists = FALSE
  BY DEF Snapshot, Absent
<1>2. b.exists = TRUE \/ b.exists = FALSE
  BY DEF Snapshot, Absent
<1> QED BY <1>1, <1>2 DEF compareSnapshots, Change

\* The fields of a watcher's record by its place in the code.
LEMMA WatcherFields ==
  ASSUME NEW x \in WatcherRecord
  PROVE  /\ x.pc = "contents" => x.lstat \in Snapshot
         /\ x.pc \in {"load", "save", "report"} =>
              x.snapshot \in Snapshot \cup {Absent} /\ x.source \in Source
         /\ x.pc \in {"save", "report"} => x.change \in Change
BY DEF WatcherRecord

\* Where contents come from is one of the three.
LEMMA SourceTyped ==
  ASSUME NEW w \in Watcher PROVE sourceNow(w) \in Source
BY DEF sourceNow, Source

\* A snapshot on its way to the store as unchanged, or just stored as such, is
\* one that was reported or is still to be: it equals the baseline it was
\* compared with.
UnchangedIsKnown(w) ==
  watcher[w].pc \in {"save", "report"} /\ watcher[w].change = "unchanged" =>
    watcher[w].snapshot \in accounted
FileInv ==
  /\ FileTypeOK
  /\ BaselineWasNoticed
  /\ \A w \in Watcher : UnchangedIsKnown(w)

\* What a watcher has still to report is a snapshot.
LEMMA ToReportTyped ==
  ASSUME FileTypeOK, NEW w \in Watcher
  PROVE  toReport(w) \subseteq Snapshot \cup {Absent}
<1>1. watcher[w] \in WatcherRecord
  BY DEF FileTypeOK
<1> QED BY <1>1, WatcherFields DEF toReport

\* What one watcher's step does not take back from reports stays accounted for.
LEMMA AccountedGrows ==
  ASSUME NEW w \in Watcher,
         noticed \subseteq noticed', lost \subseteq lost',
         \A v \in Watcher : v # w => watcher'[v] = watcher[v],
         toReport(w) \subseteq noticed' \cup lost' \cup toReport(w)'
  PROVE  accounted \subseteq accounted'
<1>1. SUFFICES ASSUME NEW s \in accounted PROVE s \in accounted'
  OBVIOUS
<1>2. CASE s \in noticed \cup lost
  BY <1>2 DEF accounted
<1>3. ASSUME NEW v \in Watcher, s \in toReport(v) PROVE s \in accounted'
  <2>1. CASE v = w
    BY <1>3, <2>1 DEF accounted
  <2>2. CASE v # w
    <3>1. s \in toReport(v)'
      BY <1>3, <2>2 DEF toReport
    <3> QED BY <3>1 DEF accounted
  <2> QED BY <2>1, <2>2
<1> QED BY <1>1, <1>2, <1>3 DEF accounted

\* A step of one watcher that leaves the row alone, and either goes back to the
\* start or on to a place before the save, keeps the invariant.
LEMMA WatcherStep ==
  ASSUME FileInv, FileTypeOK', NEW w \in Watcher,
         baseline' = baseline, noticed \subseteq noticed', lost \subseteq lost',
         \A v \in Watcher : v # w => watcher'[v] = watcher[v],
         toReport(w) \subseteq noticed' \cup lost',
         watcher'[w].pc \notin {"save", "report"}
  PROVE  FileInv'
<1>1. toReport(w) \subseteq noticed' \cup lost' \cup toReport(w)'
  OBVIOUS
<1>2. accounted \subseteq accounted'
  BY <1>1, AccountedGrows
<1>3. ASSUME NEW v \in Watcher PROVE UnchangedIsKnown(v)'
  BY <1>2 DEF FileInv, UnchangedIsKnown
<1>4. BaselineWasNoticed'
  BY <1>2 DEF FileInv, BaselineWasNoticed
<1> QED BY <1>3, <1>4 DEF FileInv

\* Types, and the baseline is known, in every state.
THEOREM FileInvariant == FileSpec => []FileInv
<1> USE FileAssumption
<1>1. ASSUME FileInit PROVE FileInv
  <2>1. watcher \in [Watcher -> WatcherRecord]
    BY <1>1, IdleWatcherTyped DEF FileInit
  <2>2. FileTypeOK
    BY <1>1, <2>1 DEF FileInit, FileTypeOK, Source
  <2> QED BY <1>1, <2>2 DEF FileInit, FileInv, BaselineWasNoticed,
              UnchangedIsKnown, IdleWatcher
<1>2. ASSUME FileInv, [FileNext]_fileVars PROVE FileInv'
  <2> USE <1>2
  <2>0. FileTypeOK
    BY DEF FileInv
  <2>1. CASE ChangeFile
    <3>1. writes' \in 1..MaxWrites
      <4>1. writes < MaxWrites /\ writes' = writes + 1
        BY <2>1 DEF ChangeFile
      <4> QED BY <2>0, <4>1 DEF FileTypeOK
    <3>2. file' \in {Nothing} \cup Object
      <4>0. file # Nothing => file \in Object
        BY <2>0 DEF FileTypeOK
      <4>1. ASSUME file # Nothing, NEW m \in 1..MaxWrites,
                   file' = [file EXCEPT !.contents = writes', !.meta = m]
            PROVE  file' \in Object
        BY <4>0, <4>1, <3>1 DEF Object
      <4>2. ASSUME file # Nothing, NEW m \in Mode, NEW s \in SpecialBits,
                   file' = [file EXCEPT !.mode = m, !.special = s]
            PROVE  file' \in Object
        BY <4>0, <4>2 DEF Object
      <4>3. ASSUME file # Nothing, NEW o \in Owner,
                   file' = [file EXCEPT !.owner = o]
            PROVE  file' \in Object
        BY <4>0, <4>3 DEF Object
      <4>4. \A m \in looks(writes') : m \in 1..MaxWrites
        BY <3>1 DEF looks
      <4> QED BY <2>1, <4>1, <4>2, <4>3, <4>4 DEF ChangeFile
    <3>3. FileTypeOK'
      BY <2>0, <2>1, <3>1, <3>2 DEF ChangeFile, FileTypeOK, fileHistory
    <3> QED BY <2>1, <3>3 DEF ChangeFile, FileInv, BaselineWasNoticed, fileHistory,
              UnchangedIsKnown, accounted, toReport
  <2>2. CASE DamageBaseline
    <3>1. FileTypeOK'
      BY <2>0, <2>2 DEF DamageBaseline, FileTypeOK, fileHistory
    <3> QED BY <2>2, <3>1 DEF DamageBaseline, FileInv, BaselineWasNoticed,
              fileHistory, UnchangedIsKnown, accounted, toReport
  <2>3. ASSUME NEW w \in Watcher, snapshotLstat(w) PROVE FileInv'
    <3>1. watcher'[w] \in WatcherRecord /\ watcher'[w].pc \notin {"save", "report"}
      <4>1. CASE file = Nothing
        <5>1. watcher'[w] = [pc |-> "load", snapshot |-> Absent, source |-> "same"]
          BY <2>0, <2>3, <4>1, Zenon DEF snapshotLstat, FileTypeOK
        <5>2. Absent \in Snapshot \cup {Absent} /\ "same" \in Source
          BY DEF Source
        <5> QED BY <5>1, <5>2, LoadTyped
      <4>2. CASE watcher'[w] = IdleWatcher
        BY <4>2, IdleWatcherTyped DEF IdleWatcher
      <4>3. CASE file # Nothing /\ watcher'[w] # IdleWatcher
        <5>1. file \in Object
          BY <2>0, <4>3 DEF FileTypeOK
        <5>2. lstat(file) \in Snapshot /\ file.object \in 1..MaxWrites
          BY <5>1, LstatTyped DEF Object
        <5>3. \/ watcher'[w] = [pc |-> "load", snapshot |-> lstat(file),
                                source |-> "same"]
              \/ watcher'[w] = [pc |-> "contents", lstat |-> lstat(file),
                                object |-> file.object]
          BY <2>0, <2>3, <4>3 DEF snapshotLstat, FileTypeOK
        <5>4. lstat(file) \in Snapshot \cup {Absent} /\ "same" \in Source
          BY <5>2 DEF Source
        <5> QED BY <5>2, <5>3, <5>4, LoadTyped, ContentsTyped
      <4> QED BY <4>1, <4>2, <4>3
    <3>2. /\ watcher' = [watcher EXCEPT ![w] = watcher'[w]]
          /\ watcher[w].pc = "idle"
      BY <2>0, <2>3 DEF snapshotLstat, FileTypeOK
    <3>3. UNCHANGED <<file, writes, baseline, noticed, lost, source>>
      BY <2>3 DEF snapshotLstat, fileHistory
    <3>4. FileTypeOK'
      BY <2>0, <3>1, <3>2, <3>3 DEF FileTypeOK
    <3>5. toReport(w) = {}
      BY <3>2 DEF toReport
    <3>6. \A v \in Watcher : v # w => watcher'[v] = watcher[v]
      BY <2>0, <3>2 DEF FileTypeOK
    <3> QED BY <3>1, <3>3, <3>4, <3>5, <3>6, WatcherStep
  <2>4. ASSUME NEW w \in Watcher, snapshotContents(w) PROVE FileInv'
    <3>1. watcher'[w] \in WatcherRecord /\ watcher'[w].pc \notin {"save", "report"}
      <4>1. CASE watcher'[w] = IdleWatcher
        BY <4>1, IdleWatcherTyped DEF IdleWatcher
      <4>2. CASE watcher'[w] # IdleWatcher
        <5> DEFINE hashed == [watcher[w].lstat EXCEPT !.hash = file.contents]
        <5>1. /\ file # Nothing
              /\ watcher'[w] = [pc |-> "load", snapshot |-> hashed,
                                source |-> sourceNow(w)]
          BY <2>0, <2>4, <4>2 DEF snapshotContents, FileTypeOK
        <5>2. watcher[w].lstat \in Snapshot
          BY <2>0, <2>4, WatcherFields DEF snapshotContents, FileTypeOK
        <5>3. file.contents \in 1..MaxWrites
          BY <2>0, <5>1 DEF FileTypeOK, Object
        <5>4. hashed \in Snapshot \cup {Absent}
          BY <5>2, <5>3, HashTyped
        <5> HIDE DEF hashed
        <5> QED BY <5>1, <5>4, LoadTyped, SourceTyped
      <4> QED BY <4>1, <4>2
    <3>2. /\ watcher' = [watcher EXCEPT ![w] = watcher'[w]]
          /\ watcher[w].pc = "contents"
      BY <2>0, <2>4 DEF snapshotContents, FileTypeOK
    <3>3. UNCHANGED <<file, writes, baseline, noticed, lost, source>>
      BY <2>4 DEF snapshotContents, fileHistory
    <3>4. FileTypeOK'
      BY <2>0, <3>1, <3>2, <3>3 DEF FileTypeOK
    <3>5. toReport(w) = {}
      BY <3>2 DEF toReport
    <3>6. \A v \in Watcher : v # w => watcher'[v] = watcher[v]
      BY <2>0, <3>2 DEF FileTypeOK
    <3> QED BY <3>1, <3>3, <3>4, <3>5, <3>6, WatcherStep
  <2>5. ASSUME NEW w \in Watcher, loadSnapshot(w) PROVE FileInv'
    <3> DEFINE snapshot == watcher[w].snapshot
               from == watcher[w].source
               change == IF baseline = NoBaseline THEN "baseline_recorded"
                         ELSE IF baseline = CorruptBaseline
                           THEN "baseline reset"
                         ELSE compareSnapshots(baseline, snapshot)
    <3>0. watcher[w] \in WatcherRecord /\ watcher[w].pc = "load"
      BY <2>0, <2>5 DEF loadSnapshot, FileTypeOK
    <3>1. snapshot \in Snapshot \cup {Absent} /\ from \in Source
      BY <3>0, WatcherFields
    <3>2. change = "unchanged" => snapshot \in accounted
      <4>1. ASSUME baseline \notin {NoBaseline, CorruptBaseline},
                   compareSnapshots(baseline, snapshot) = "unchanged"
            PROVE  snapshot \in accounted
        <5>1. baseline \in Snapshot \cup {Absent} /\ baseline \in accounted
          BY <4>1 DEF FileInv, FileTypeOK, BaselineWasNoticed
        <5> QED BY <4>1, <5>1, <3>1, UnchangedIsEqual
      <4> QED BY <4>1
    <3>3. change \in Change
      <4>1. ASSUME baseline \notin {NoBaseline, CorruptBaseline}
            PROVE  compareSnapshots(baseline, snapshot) \in Change
        <5>1. baseline \in Snapshot \cup {Absent}
          BY <2>0, <4>1 DEF FileTypeOK
        <5> QED BY <5>1, <3>1, CompareTyped
      <4> QED BY <4>1 DEF Change
    <3>4. watcher' = [watcher EXCEPT ![w] = [pc |-> "save", snapshot |-> snapshot,
                        source |-> from, change |-> change]]
      BY <2>5 DEF loadSnapshot
    <3>5. UNCHANGED <<file, writes, baseline, noticed, lost, source>>
      BY <2>5 DEF loadSnapshot, fileHistory
    <3> HIDE DEF snapshot, from, change
    <3>6. [pc |-> "save", snapshot |-> snapshot, source |-> from,
           change |-> change] \in WatcherRecord
      BY <3>1, <3>3, SaveTyped
    <3>7. FileTypeOK'
      BY <2>0, <3>4, <3>5, <3>6 DEF FileTypeOK
    <3>8. /\ watcher'[w] = [pc |-> "save", snapshot |-> snapshot,
                            source |-> from, change |-> change]
          /\ \A v \in Watcher : v # w => watcher'[v] = watcher[v]
      BY <2>0, <3>4 DEF FileTypeOK
    <3>9. accounted \subseteq accounted'
      <4>1. toReport(w) = {}
        BY <3>0 DEF toReport
      <4>2. toReport(w) \subseteq noticed' \cup lost' \cup toReport(w)'
        BY <4>1
      <4>3. noticed \subseteq noticed' /\ lost \subseteq lost'
        BY <3>5
      <4> QED BY <3>8, <4>2, <4>3, AccountedGrows
    <3>10. ASSUME NEW v \in Watcher PROVE UnchangedIsKnown(v)'
      BY <3>2, <3>8, <3>9 DEF FileInv, UnchangedIsKnown
    <3>11. BaselineWasNoticed'
      BY <3>5, <3>9 DEF FileInv, BaselineWasNoticed
    <3> QED BY <3>7, <3>10, <3>11 DEF FileInv
  <2>6. ASSUME NEW w \in Watcher, saveSnapshot(w) PROVE FileInv'
    <3>0. watcher[w] \in WatcherRecord /\ watcher[w].pc = "save"
      BY <2>0, <2>6 DEF saveSnapshot, FileTypeOK
    <3>1. /\ watcher[w].snapshot \in Snapshot \cup {Absent}
          /\ watcher[w].source \in Source
      BY <3>0, WatcherFields
    <3>2. /\ watcher'[w] = [watcher[w] EXCEPT !.pc = "report"]
          /\ \A v \in Watcher : v # w => watcher'[v] = watcher[v]
          /\ watcher' = [watcher EXCEPT ![w] = watcher'[w]]
      BY <2>0, <2>6 DEF saveSnapshot, FileTypeOK
    <3>3. /\ watcher'[w] \in WatcherRecord
          /\ watcher'[w].pc = "report"
          /\ watcher'[w].snapshot = watcher[w].snapshot
          /\ watcher'[w].change = watcher[w].change
      BY <3>0, <3>2, ReportTyped
    <3>4. /\ baseline' = watcher[w].snapshot /\ source' = watcher[w].source
          /\ UNCHANGED <<file, writes, noticed, lost>>
      BY <2>6 DEF saveSnapshot
    <3>5. FileTypeOK'
      BY <2>0, <3>1, <3>2, <3>3, <3>4 DEF FileTypeOK
    <3>6. accounted \subseteq accounted'
      <4>1. toReport(w) = {}
        BY <3>0 DEF toReport
      <4>2. toReport(w) \subseteq noticed' \cup lost' \cup toReport(w)'
        BY <4>1
      <4>3. noticed \subseteq noticed' /\ lost \subseteq lost'
        BY <3>4
      <4> QED BY <3>2, <4>2, <4>3, AccountedGrows
    <3>7. watcher[w].snapshot \in accounted'
      <4>1. CASE watcher[w].change = "unchanged"
        BY <4>1, <3>0, <3>6 DEF FileInv, UnchangedIsKnown
      <4>2. CASE watcher[w].change # "unchanged"
        BY <4>2, <3>3 DEF accounted, toReport
      <4> QED BY <4>1, <4>2
    <3>8. ASSUME NEW v \in Watcher PROVE UnchangedIsKnown(v)'
      BY <3>2, <3>3, <3>6, <3>7 DEF FileInv, UnchangedIsKnown
    <3>9. BaselineWasNoticed'
      BY <3>4, <3>7 DEF BaselineWasNoticed
    <3> QED BY <3>5, <3>8, <3>9 DEF FileInv
  <2>7. ASSUME NEW w \in Watcher, snapshotObservation(w) \/ watchFails(w)
        PROVE  FileInv'
    <3>1. /\ watcher' = [watcher EXCEPT ![w] = IdleWatcher]
          /\ UNCHANGED <<file, writes, baseline, source>>
          /\ \/ noticed' = noticed \cup toReport(w) /\ lost' = lost
             \/ lost' = lost \cup toReport(w) /\ noticed' = noticed
      BY <2>7 DEF snapshotObservation, watchFails
    <3>2. FileTypeOK'
      BY <2>0, <3>1, IdleWatcherTyped, ToReportTyped DEF FileTypeOK
    <3>3. /\ watcher'[w] = IdleWatcher
          /\ \A v \in Watcher : v # w => watcher'[v] = watcher[v]
      BY <2>0, <3>1 DEF FileTypeOK
    <3>4. watcher'[w].pc \notin {"save", "report"}
      BY <3>3 DEF IdleWatcher
    <3>5. /\ noticed \subseteq noticed' /\ lost \subseteq lost'
          /\ toReport(w) \subseteq noticed' \cup lost'
      BY <3>1
    <3> QED BY <3>1, <3>2, <3>3, <3>4, <3>5, WatcherStep
  <2>8. CASE UNCHANGED fileVars
    BY <2>8 DEF fileVars, fileHistory, FileInv, FileTypeOK, BaselineWasNoticed,
              UnchangedIsKnown, accounted, toReport
  <2> QED BY <2>1, <2>2, <2>3, <2>4, <2>5, <2>6, <2>7, <2>8
          DEF FileNext, collectTarget
<1> QED BY <1>1, <1>2, PTL DEF FileSpec

\* The types of the path, of the row and of the watchers.
THEOREM FileTypes == FileSpec => []FileTypeOK
BY FileInvariant, PTL DEF FileInv

\* A change of the path becomes the baseline in silence only with the death of
\* the watcher that has saved it, for any number of watchers, modes, owners
\* and changes.
THEOREM BaselineNoticed == FileSpec => []BaselineWasNoticed
BY FileInvariant, PTL DEF FileInv

\* What a watcher carries is complete once it is on its way to the store,
\* and lacks only the contents before that.
CarriesComplete(w) ==
  Complete(watcher[w].snapshot) /\ ofOneObject(watcher[w].snapshot, watcher[w].source)
WatcherComplete(w) ==
  /\ watcher[w].pc = "contents" =>
       /\ watcher[w].lstat.type # "symlink"
       /\ ~targetTypeMismatch(watcher[w].lstat.type)
  /\ watcher[w].pc \in {"load", "save"} => CarriesComplete(w)

CompleteInv == BaselineComplete /\ \A w \in Watcher : WatcherComplete(w)

\* A step of one watcher that leaves the row alone keeps the invariant if that
\* watcher carries a complete sample afterwards.
LEMMA CompleteStep ==
  ASSUME CompleteInv, NEW w \in Watcher, baseline' = baseline, source' = source,
         \A v \in Watcher : v # w => watcher'[v] = watcher[v],
         WatcherComplete(w)'
  PROVE  CompleteInv'
<1>1. ASSUME NEW v \in Watcher, v # w PROVE WatcherComplete(v)'
  BY <1>1 DEF CompleteInv, WatcherComplete, CarriesComplete
<1>2. BaselineComplete'
  BY DEF CompleteInv, BaselineComplete
<1> QED BY <1>1, <1>2 DEF CompleteInv

\* Every baseline stored is a complete sample of the path, and of one object
\* unless a directory was listed, whatever happens to the path between Lstat
\* and the read of its contents.
THEOREM BaselineAlwaysComplete == FileSpec => []BaselineComplete
<1> USE FileAssumption
<1>1. ASSUME FileInit PROVE CompleteInv
  BY <1>1 DEF FileInit, CompleteInv, BaselineComplete, WatcherComplete,
              IdleWatcher
<1>2. ASSUME FileTypeOK, CompleteInv, [FileNext]_fileVars PROVE CompleteInv'
  <2> USE <1>2
  <2>1. CASE ChangeFile \/ DamageBaseline
    BY <2>1 DEF ChangeFile, DamageBaseline, fileHistory, CompleteInv,
                BaselineComplete, WatcherComplete, CarriesComplete
  <2>3. ASSUME NEW w \in Watcher, snapshotLstat(w) PROVE CompleteInv'
    <3>0. /\ \A v \in Watcher : v # w => watcher'[v] = watcher[v]
          /\ baseline' = baseline /\ source' = source
      BY <2>3 DEF snapshotLstat, FileTypeOK, fileHistory
    <3>1. CASE file = Nothing
      <4>1. watcher'[w] = [pc |-> "load", snapshot |-> Absent, source |-> "same"]
        BY <2>3, <3>1, Zenon DEF snapshotLstat, FileTypeOK
      <4>2. WatcherComplete(w)'
        BY <4>1 DEF WatcherComplete, CarriesComplete, Complete, ofOneObject
      <4> QED BY <3>0, <4>2, CompleteStep
    <3>2. CASE watcher'[w] = IdleWatcher
      <4>1. WatcherComplete(w)'
        BY <3>2 DEF WatcherComplete, IdleWatcher
      <4> QED BY <3>0, <4>1, CompleteStep
    <3>3. CASE file # Nothing /\ watcher'[w] # IdleWatcher
      <4>1. /\ file.type # "symlink"
            /\ ~targetTypeMismatch(file.type)
            /\ \/ /\ watcher'[w] = [pc |-> "load", snapshot |-> lstat(file),
                                    source |-> "same"]
                  /\ ~hasContents(file)
               \/ watcher'[w] = [pc |-> "contents", lstat |-> lstat(file),
                                 object |-> file.object]
        BY <2>3, <3>3 DEF snapshotLstat, FileTypeOK
      <4>2. /\ lstat(file).type = file.type
            /\ hasContents(lstat(file)) = hasContents(file)
        BY DEF lstat, hasContents
      <4>3. WatcherComplete(w)'
        BY <4>1, <4>2 DEF WatcherComplete, CarriesComplete, Complete, ofOneObject
      <4> QED BY <3>0, <4>3, CompleteStep
    <3> QED BY <3>1, <3>2, <3>3
  <2>4. ASSUME NEW w \in Watcher, snapshotContents(w) PROVE CompleteInv'
    <3>0. /\ \A v \in Watcher : v # w => watcher'[v] = watcher[v]
          /\ baseline' = baseline /\ source' = source
      BY <2>4 DEF snapshotContents, FileTypeOK, fileHistory
    <3>1. CASE watcher'[w] = IdleWatcher
      <4>1. WatcherComplete(w)'
        BY <3>1 DEF WatcherComplete, IdleWatcher
      <4> QED BY <3>0, <4>1, CompleteStep
    <3>2. CASE watcher'[w] # IdleWatcher
      <4> DEFINE hashed == [watcher[w].lstat EXCEPT !.hash = file.contents]
      <4>1. /\ file # Nothing
            /\ file.object = watcher[w].object
                 \/ watcher[w].lstat.type = "directory"
            /\ file.contents \notin TooLarge
            /\ watcher'[w] = [pc |-> "load", snapshot |-> hashed,
                              source |-> sourceNow(w)]
        BY <2>4, <3>2 DEF snapshotContents, FileTypeOK
      <4>2. watcher[w].lstat \in Snapshot /\ file.contents \in 1..MaxWrites
        BY <2>4, <4>1, WatcherFields
           DEF snapshotContents, FileTypeOK, Object
      <4>3. /\ hashed.type = watcher[w].lstat.type
            /\ hashed.hash = file.contents
            /\ hashed.exists
        BY <4>2 DEF Snapshot
      <4> HIDE DEF hashed
      <4>4. Complete(hashed)
        BY <4>1, <4>2, <4>3, <2>4
           DEF snapshotContents, CompleteInv, WatcherComplete, Complete
      <4>5. ofOneObject(hashed, sourceNow(w))
        BY <4>1, <4>3 DEF ofOneObject, sourceNow
      <4>6. WatcherComplete(w)'
        BY <4>1, <4>4, <4>5 DEF WatcherComplete, CarriesComplete
      <4> QED BY <3>0, <4>6, CompleteStep
    <3> QED BY <3>1, <3>2
  <2>5. ASSUME NEW w \in Watcher, loadSnapshot(w) PROVE CompleteInv'
    <3>0. /\ \A v \in Watcher : v # w => watcher'[v] = watcher[v]
          /\ baseline' = baseline /\ source' = source
      BY <2>5 DEF loadSnapshot, FileTypeOK, fileHistory
    <3>1. /\ watcher'[w].pc = "save"
          /\ watcher'[w].snapshot = watcher[w].snapshot
          /\ watcher'[w].source = watcher[w].source
          /\ watcher[w].pc = "load"
      BY <2>5 DEF loadSnapshot, FileTypeOK
    <3>2. WatcherComplete(w)'
      BY <3>1 DEF CompleteInv, WatcherComplete, CarriesComplete
    <3> QED BY <3>0, <3>2, CompleteStep
  <2>6. ASSUME NEW w \in Watcher, saveSnapshot(w) PROVE CompleteInv'
    <3>1. /\ watcher[w].pc = "save"
          /\ baseline' = watcher[w].snapshot /\ source' = watcher[w].source
          /\ watcher'[w] = [watcher[w] EXCEPT !.pc = "report"]
          /\ \A v \in Watcher : v # w => watcher'[v] = watcher[v]
          /\ watcher[w] \in WatcherRecord
      BY <2>6 DEF saveSnapshot, FileTypeOK
    <3>2. BaselineComplete'
      BY <3>1 DEF CompleteInv, WatcherComplete, CarriesComplete, BaselineComplete
    <3>3. watcher'[w].pc = "report"
      BY <3>1, ReportTyped
    <3>4. ASSUME NEW v \in Watcher PROVE WatcherComplete(v)'
      BY <3>1, <3>3 DEF CompleteInv, WatcherComplete, CarriesComplete
    <3> QED BY <3>2, <3>4 DEF CompleteInv
  <2>7. ASSUME NEW w \in Watcher, snapshotObservation(w) \/ watchFails(w)
        PROVE  CompleteInv'
    <3>1. /\ watcher'[w] = IdleWatcher
          /\ \A v \in Watcher : v # w => watcher'[v] = watcher[v]
          /\ baseline' = baseline /\ source' = source
      BY <2>7 DEF snapshotObservation, watchFails, FileTypeOK
    <3>2. WatcherComplete(w)'
      BY <3>1 DEF WatcherComplete, IdleWatcher
    <3> QED BY <3>1, <3>2, CompleteStep
  <2>8. CASE UNCHANGED fileVars
    BY <2>8 DEF fileVars, fileHistory, CompleteInv, BaselineComplete,
                WatcherComplete, CarriesComplete
  <2> QED BY <2>1, <2>3, <2>4, <2>5, <2>6, <2>7, <2>8
          DEF FileNext, collectTarget
<1> QED BY <1>1, <1>2, FileInvariant, PTL DEF FileSpec, FileInv, CompleteInv

(***************************************************************************)
(* Daily totals.  A snapshot is what one reading of the counters leaves in *)
(* a sample, in a row and in a row that a sampler has loaded: the counters *)
(* of the devices that were there, what they had moved by then, and the    *)
(* reboots so far.  Two snapshots of the same boot differ by the traffic   *)
(* between them, and a later boot's counters never show more than it, so a *)
(* sampler adds no more than the traffic unless its row is the newer one.  *)
(***************************************************************************)
samplersOf(c) == {p \in Sampler : sample[p].of = c}

\* The rows of a collector: the stored one, and the ones that were loaded.
Rows(c) == ({row[c]} \ {NoRow, Damaged}) \cup
           ({sample[p].base : p \in samplersOf(c)} \ {NoRow, NotLoaded})

snapshot(stats, at, n) ==
  [stats |-> stats, at |-> [d \in DOMAIN stats |-> at[d]], boots |-> n]
snapshotOfSample(s) == snapshot(s.stats, s.moved, s.boots)
snapshotOfRow(r) == snapshot(r.stats, r.at, r.boots)

\* What readDevices would see.
statsNow(c) == [d \in {x \in devicesOf(c) : bytes[x] # Gone} |-> bytes[d]]
snapshotNow(c) == snapshot(statsNow(c), moved, boots)

Snapshots(c) == {snapshotOfSample(sample[p]) : p \in samplersOf(c)} \cup
                {snapshotOfRow(r) : r \in Rows(c)}

Agree(x, y) ==
  \A d \in DOMAIN x.stats \cap DOMAIN y.stats :
    /\ x.boots = y.boots => y.stats[d] - x.stats[d] = y.at[d] - x.at[d]
    /\ x.boots < y.boots => /\ x.at[d] <= y.at[d]
                            /\ y.stats[d] - x.stats[d] <= y.at[d] - x.at[d]

SnapshotTyped(x, c) ==
  /\ DOMAIN x.stats \subseteq devicesOf(c)
  /\ x.boots \in Nat
  /\ \A d \in DOMAIN x.stats : x.stats[d] \in Nat /\ x.at[d] \in Nat

\* A snapshot is not ahead of the world, and agrees with it.
Past(x, c) ==
  /\ SnapshotTyped(x, c)
  /\ x.boots <= boots
  /\ \A d \in DOMAIN x.stats : x.at[d] <= moved[d]
  /\ Agree(x, snapshotNow(c))

RowTyped(r, c) ==
  /\ DOMAIN r.daily \subseteq devicesOf(c)
  /\ \A d \in DOMAIN r.daily : r.daily[d] \in DailyCounter
  /\ r.at \in [Device -> Nat] /\ r.since \in [Device -> Nat]

WithinTraffic(r) ==
  \A d \in DOMAIN r.daily : r.daily[d].total <= r.at[d] - r.since[d]

\* The row a sampler has loaded is not newer than its counters.
NotNewer(r, s) ==
  /\ r.boots <= s.boots
  /\ \A d \in DOMAIN s.stats : r.at[d] <= s.moved[d]

SampleOK(s, c) ==
  /\ s.day \in 0..MaxDay
  /\ DOMAIN s.stats \subseteq devicesOf(c)
  /\ s.moved \in [Device -> Nat]
  /\ c \notin overtaken /\ s.base \notin {NoRow, NotLoaded} => NotNewer(s.base, s)

WorldOK ==
  /\ bytes \in [Device -> {Gone} \cup Nat]
  /\ moved \in [Device -> Nat]
  /\ boots \in Nat /\ today \in 0..MaxDay

CollectorOK(c) ==
  /\ \A x \in Snapshots(c) : Past(x, c)
  /\ \A x, y \in Snapshots(c) : Agree(x, y)
  /\ \A r \in Rows(c) : RowTyped(r, c) /\ (c \notin overtaken => WithinTraffic(r))
  /\ \A p \in samplersOf(c) : SampleOK(sample[p], c)

DailyInv == WorldOK /\ \A c \in Collector : CollectorOK(c)

\* The collectors' devices are devices.
LEMMA DevicesOf ==
  ASSUME NEW c \in Collector
  PROVE  devicesOf(c) \subseteq Device
BY DEF devicesOf, Device, Collector

\* What is now agrees with everything taken before, and with itself.
LEMMA NowAgrees ==
  ASSUME WorldOK, NEW c \in Collector
  PROVE  /\ Past(snapshotNow(c), c)
         /\ \A x : Past(x, c) => Agree(snapshotNow(c), x)
<1> DEFINE now == snapshotNow(c)
<1>1. /\ DOMAIN now.stats = {d \in devicesOf(c) : bytes[d] # Gone}
      /\ \A d \in DOMAIN now.stats : now.stats[d] = bytes[d] /\ now.at[d] = moved[d]
      /\ now.boots = boots
  BY DEF snapshotNow, snapshot, statsNow
<1>2. /\ \A d \in DOMAIN now.stats :
           now.stats[d] \in Nat /\ now.at[d] \in Nat /\ moved[d] \in Nat
      /\ boots \in Nat
  BY <1>1, DevicesOf DEF WorldOK
<1> HIDE DEF now
<1>3. Agree(now, now)
  BY <1>2 DEF Agree
<1>4. Past(now, c)
  BY <1>1, <1>2, <1>3 DEF Past, SnapshotTyped, now
<1>5. ASSUME NEW x, Past(x, c) PROVE Agree(now, x)
  <2>1. /\ \A d \in DOMAIN x.stats : x.stats[d] \in Nat /\ x.at[d] \in Nat
        /\ x.boots \in Nat /\ x.boots <= boots
        /\ Agree(x, now)
    BY <1>5 DEF Past, SnapshotTyped, now
  <2> QED
    BY <1>1, <1>2, <2>1 DEF Agree
<1> QED
  BY <1>4, <1>5 DEF now

\* Counters that follow the traffic, or start again with more reboots, keep
\* every snapshot in the past.
LEMMA PastKept ==
  ASSUME WorldOK, WorldOK', NEW c \in Collector, NEW x, Past(x, c),
         \/ /\ boots' = boots
            /\ \A d \in Device :
                 /\ moved[d] <= moved'[d]
                 /\ bytes'[d] # Gone =>
                      /\ bytes[d] # Gone
                      /\ bytes'[d] - bytes[d] = moved'[d] - moved[d]
         \/ /\ boots < boots' /\ moved' = moved
            /\ \A d \in Device : bytes'[d] \in {bytes[d], Gone, 0}
  PROVE  Past(x, c)'
<1> DEFINE D == {d \in devicesOf(c) : bytes[d] # Gone}
           D2 == {d \in devicesOf(c) : bytes'[d] # Gone}
<1>1. /\ snapshotNow(c).boots = boots /\ DOMAIN snapshotNow(c).stats = D
      /\ \A d \in D : /\ snapshotNow(c).stats[d] = bytes[d]
                      /\ snapshotNow(c).at[d] = moved[d]
  BY DEF snapshotNow, snapshot, statsNow
<1>2. /\ snapshotNow(c)'.boots = boots' /\ DOMAIN snapshotNow(c)'.stats = D2
      /\ \A d \in D2 : /\ snapshotNow(c)'.stats[d] = bytes'[d]
                       /\ snapshotNow(c)'.at[d] = moved'[d]
  BY DEF snapshotNow, snapshot, statsNow
<1>3. /\ DOMAIN x.stats \subseteq devicesOf(c) /\ devicesOf(c) \subseteq Device
      /\ x.boots \in Nat /\ x.boots <= boots
      /\ \A d \in DOMAIN x.stats : x.stats[d] \in Nat /\ x.at[d] \in Nat
      /\ \A d \in DOMAIN x.stats : x.at[d] <= moved[d]
      /\ SnapshotTyped(x, c)
  BY DevicesOf DEF Past, SnapshotTyped
<1>4. /\ boots \in Nat /\ boots' \in Nat
      /\ \A d \in Device : /\ moved[d] \in Nat /\ moved'[d] \in Nat
                           /\ bytes[d] # Gone => bytes[d] \in Nat
                           /\ bytes'[d] # Gone => bytes'[d] \in Nat
  BY DEF WorldOK
<1>5. \A d \in DOMAIN x.stats \cap D :
        /\ x.boots = boots => bytes[d] - x.stats[d] = moved[d] - x.at[d]
        /\ x.boots < boots => bytes[d] - x.stats[d] <= moved[d] - x.at[d]
  BY <1>1 DEF Past, Agree
<1>6. boots <= boots' /\ \A d \in DOMAIN x.stats : moved[d] <= moved'[d]
  BY <1>3, <1>4
<1>7. /\ x.boots <= boots'
      /\ \A d \in DOMAIN x.stats : x.at[d] <= moved'[d]
  BY <1>3, <1>4, <1>6
<1>8. \A d \in DOMAIN x.stats \cap D2 :
        /\ x.boots = boots' => bytes'[d] - x.stats[d] = moved'[d] - x.at[d]
        /\ x.boots < boots' => bytes'[d] - x.stats[d] <= moved'[d] - x.at[d]
  <2> SUFFICES ASSUME NEW d \in DOMAIN x.stats \cap D2
               PROVE /\ x.boots = boots' =>
                          bytes'[d] - x.stats[d] = moved'[d] - x.at[d]
                     /\ x.boots < boots' =>
                          bytes'[d] - x.stats[d] <= moved'[d] - x.at[d]
    OBVIOUS
  <2>1. /\ d \in Device /\ d \in devicesOf(c) /\ bytes'[d] \in Nat
        /\ moved[d] \in Nat
        /\ moved'[d] \in Nat /\ x.stats[d] \in Nat /\ x.at[d] \in Nat
        /\ bytes[d] # Gone => bytes[d] \in Nat /\ d \in DOMAIN x.stats \cap D
        /\ x.at[d] <= moved[d]
    BY <1>3, <1>4
  <2>2. CASE boots' = boots /\ bytes[d] # Gone
              /\ bytes'[d] - bytes[d] = moved'[d] - moved[d]
    BY <1>3, <1>4, <1>5, <2>1, <2>2
  <2>3. CASE boots < boots' /\ moved' = moved /\ bytes'[d] = 0
    BY <1>3, <1>4, <2>1, <2>3
  <2>4. CASE boots < boots' /\ moved' = moved /\ bytes'[d] = bytes[d]
              /\ bytes[d] # Gone
    <3>1. bytes[d] - x.stats[d] <= moved[d] - x.at[d]
      BY <1>3, <1>4, <1>5, <2>1, <2>4
    <3>2. bytes'[d] - x.stats[d] <= moved'[d] - x.at[d]
      BY <2>4, <3>1
    <3> QED
      BY <1>3, <1>4, <2>4, <3>2
  <2> QED
    BY <2>1, <2>2, <2>3, <2>4
<1>9. Agree(x, snapshotNow(c)')
  BY <1>2, <1>7, <1>8 DEF Agree
<1> QED
  BY <1>3, <1>7, <1>9 DEF Past, SnapshotTyped

\* A step of the samplers keeps a collector's part of the invariant when it
\* takes no snapshot but the present one and adds no row that is wrong.
LEMMA CollectorKept ==
  ASSUME WorldOK, NEW c \in Collector, CollectorOK(c), UNCHANGED counterWorld,
         overtaken \subseteq overtaken',
         Snapshots(c)' \subseteq Snapshots(c) \cup {snapshotNow(c)},
         \A r \in Rows(c)' :
           \/ r \in Rows(c)
           \/ RowTyped(r, c) /\ (c \notin overtaken' => WithinTraffic(r)),
         \A p \in samplersOf(c)' :
           \/ p \in samplersOf(c) /\ sample'[p] = sample[p]
           \/ SampleOK(sample[p], c)'
  PROVE  CollectorOK(c)'
<1>1. UNCHANGED <<bytes, boots, today, moved>>
  BY DEF counterWorld
<1>2. \A x : Past(x, c)' <=> Past(x, c)
  BY <1>1 DEF Past, SnapshotTyped, snapshotNow, statsNow, snapshot, Agree
<1>3. \A x \in Snapshots(c)' : Past(x, c)'
  BY <1>2, NowAgrees DEF CollectorOK
<1>4. ASSUME NEW x \in Snapshots(c)', NEW y \in Snapshots(c)' PROVE Agree(x, y)
  <2>1. Past(snapshotNow(c), c) /\ \A z : Past(z, c) => Agree(snapshotNow(c), z)
    BY NowAgrees
  <2>2. \A z : Past(z, c) => Agree(z, snapshotNow(c))
    BY DEF Past
  <2>3. Past(x, c) /\ Past(y, c)
    BY <2>1 DEF CollectorOK
  <2>4. x \in Snapshots(c) /\ y \in Snapshots(c) => Agree(x, y)
    BY DEF CollectorOK
  <2> QED
    BY <2>1, <2>2, <2>3, <2>4
<1>5. ASSUME NEW r \in Rows(c)'
      PROVE  RowTyped(r, c) /\ (c \notin overtaken' => WithinTraffic(r))
  BY <1>5 DEF CollectorOK
<1>6. ASSUME NEW p \in samplersOf(c)' PROVE SampleOK(sample[p], c)'
  <2>1. CASE p \in samplersOf(c) /\ sample'[p] = sample[p]
    <3>1. SampleOK(sample[p], c)
      BY <2>1 DEF CollectorOK
    <3> QED
      BY <2>1, <3>1 DEF SampleOK
  <2> QED
    BY <1>6, <2>1
<1>7. /\ \A x, y \in Snapshots(c)' : Agree(x, y)
      /\ \A r \in Rows(c)' : RowTyped(r, c) /\ (c \notin overtaken' => WithinTraffic(r))
  BY <1>4, <1>5
<1> QED
  BY <1>3, <1>6, <1>7 DEF CollectorOK, RowTyped, WithinTraffic, Agree

\* What a difference adds to a total: nothing, or the growth of the counter.
LEMMA AddedIsGrowth ==
  ASSUME NEW previous \in Nat, NEW current \in Nat, NEW has \in BOOLEAN,
         NEW old, old.total \in Nat, NEW day,
         NEW u, u = UpdateDailyCounter(old, day,
                      CalculateCounterDelta(previous, current, has))
  PROVE  /\ u.day = day
         /\ \E added \in Nat :
              /\ u.total = (IF old.day = day THEN old.total ELSE 0) + added
              /\ added = 0 \/ (has /\ added = current - previous)
              /\ u = [day |-> day, total |-> u.total]
<1> DEFINE delta == CalculateCounterDelta(previous, current, has)
<1>0. u.day = day /\ u = [day |-> day, total |-> u.total]
  <2> HIDE DEF delta
  <2> QED
    BY DEF UpdateDailyCounter, delta
<1>1. CASE ~has \/ current < previous
  <2>1. ~(delta.valid /\ ~delta.reset)
    BY <1>1 DEF CalculateCounterDelta, NoDelta
  <2> HIDE DEF delta
  <2>2. u.total = (IF old.day = day THEN old.total ELSE 0) + 0
    BY <2>1 DEF UpdateDailyCounter, delta
  <2> QED
    BY <1>0, <2>2
<1>2. CASE has /\ previous <= current
  <2>1. delta.valid /\ ~delta.reset /\ delta.delta = current - previous
    BY <1>2 DEF CalculateCounterDelta
  <2>2. current - previous \in Nat
    BY <1>2
  <2> HIDE DEF delta
  <2>3. u.total = (IF old.day = day THEN old.total ELSE 0) + (current - previous)
    BY <2>1 DEF UpdateDailyCounter, delta
  <2> QED
    BY <1>0, <1>2, <2>2, <2>3
<1> QED
  BY <1>1, <1>2

\* A sampler's new row has its counters, and totals within the traffic if the
\* row it had loaded had them and was not newer.
LEMMA RowAfterOK ==
  ASSUME WorldOK, NEW c \in Collector, CollectorOK(c), NEW p \in samplersOf(c),
         sample[p].base # NotLoaded
  PROVE  /\ snapshotOfRow(rowAfter(sample[p])) = snapshotOfSample(sample[p])
         /\ RowTyped(rowAfter(sample[p]), c)
         /\ c \notin overtaken => WithinTraffic(rowAfter(sample[p]))
<1> DEFINE s == sample[p]
           new == rowAfter(s)
           old == s.base
<1>1. /\ SampleOK(s, c) /\ Past(snapshotOfSample(s), c)
      /\ DOMAIN s.stats \subseteq devicesOf(c) /\ devicesOf(c) \subseteq Device
      /\ s.moved \in [Device -> Nat]
      /\ snapshotOfSample(s) \in Snapshots(c)
  BY DevicesOf DEF CollectorOK, SampleOK, Snapshots
<1>2. /\ snapshotOfSample(s).stats = s.stats /\ snapshotOfSample(s).boots = s.boots
      /\ snapshotOfSample(s).at = [d \in DOMAIN s.stats |-> s.moved[d]]
  BY DEF snapshotOfSample, snapshot
<1>3. /\ \A d \in DOMAIN s.stats : s.stats[d] \in Nat
      /\ s.boots \in Nat /\ s.day \in 0..MaxDay
  BY <1>1, <1>2 DEF Past, SnapshotTyped, SampleOK
<1> HIDE DEF s
<1>4. CASE old = NoRow
  <2>1. new = [stats |-> s.stats, daily |-> [d \in {} |-> NoDaily],
               at |-> s.moved, since |-> [d \in Device |-> 0], boots |-> s.boots]
    BY <1>4 DEF rowAfter
  <2>2. /\ new.stats = s.stats /\ DOMAIN new.daily = {} /\ new.at = s.moved
        /\ new.since = [d \in Device |-> 0] /\ new.boots = s.boots
    BY <2>1
  <2> HIDE DEF new
  <2>3. snapshotOfRow(new) = snapshotOfSample(s)
    BY <2>2 DEF snapshotOfRow, snapshotOfSample, snapshot
  <2>4. RowTyped(new, c) /\ WithinTraffic(new)
    BY <1>1, <2>2 DEF RowTyped, WithinTraffic
  <2> QED
    BY <2>3, <2>4 DEF new, s
<1>5. CASE old # NoRow
  <2>1. old \in Rows(c)
    BY <1>5 DEF Rows, s
  <2>2. /\ RowTyped(old, c) /\ (c \notin overtaken => WithinTraffic(old))
        /\ snapshotOfRow(old) \in Snapshots(c)
        /\ Past(snapshotOfRow(old), c)
        /\ Agree(snapshotOfRow(old), snapshotOfSample(s))
    BY <1>1, <2>1 DEF CollectorOK, Snapshots
  <2>3. /\ snapshotOfRow(old).stats = old.stats
        /\ snapshotOfRow(old).boots = old.boots
        /\ snapshotOfRow(old).at = [d \in DOMAIN old.stats |-> old.at[d]]
    BY DEF snapshotOfRow, snapshot
  <2>4. /\ \A d \in DOMAIN old.stats : old.stats[d] \in Nat
        /\ old.boots \in Nat
        /\ old.at \in [Device -> Nat] /\ old.since \in [Device -> Nat]
        /\ DOMAIN old.daily \subseteq devicesOf(c)
        /\ \A d \in DOMAIN old.daily : old.daily[d] \in DailyCounter
    BY <2>2, <2>3 DEF Past, SnapshotTyped, RowTyped
  <2>5. c \notin overtaken => NotNewer(old, s)
    BY <1>1, <1>5 DEF SampleOK, s
  <2> DEFINE daily == dailyAfter(old, s.stats, s.day)
             starts(d) == /\ d \in DOMAIN s.stats
                          /\ \/ d \notin DOMAIN old.daily
                             \/ old.daily[d].day # s.day
             at == [d \in Device |-> IF d \in DOMAIN s.stats THEN s.moved[d]
                                     ELSE old.at[d]]
             since == [d \in Device |-> IF starts(d) THEN old.at[d]
                                        ELSE old.since[d]]
  <2>6. /\ new.stats = s.stats /\ new.daily = daily /\ new.at = at
        /\ new.since = since /\ new.boots = s.boots
    BY <1>5 DEF rowAfter
  <2> HIDE DEF new, daily
  <2>7. snapshotOfRow(new) = snapshotOfSample(s)
    <3>1. [d \in DOMAIN s.stats |-> at[d]] = [d \in DOMAIN s.stats |-> s.moved[d]]
      BY <1>1
    <3> HIDE DEF at
    <3> QED
      BY <2>6, <3>1 DEF snapshotOfRow, snapshotOfSample, snapshot
  <2>8. at \in [Device -> Nat] /\ since \in [Device -> Nat]
    BY <1>1, <2>4
  <2>9. /\ DOMAIN daily = DOMAIN old.daily \cup DOMAIN s.stats
        /\ \A d \in DOMAIN daily \ DOMAIN s.stats : daily[d] = old.daily[d]
    BY DEF daily, dailyAfter
  <2>10. ASSUME NEW d \in DOMAIN s.stats
         PROVE  /\ daily[d] \in DailyCounter
                /\ c \notin overtaken => daily[d].total <= at[d] - since[d]
    <3> DEFINE had == d \in DOMAIN old.stats
               previous == IF had THEN old.stats[d] ELSE 0
               prior == IF d \in DOMAIN old.daily THEN old.daily[d] ELSE NoDaily
    <3>1. /\ previous \in Nat /\ had \in BOOLEAN /\ s.stats[d] \in Nat
          /\ d \in Device
      BY <1>1, <1>3, <2>4
    <3>2. /\ prior.total \in Nat
          /\ starts(d) => prior.day # s.day
          /\ ~starts(d) => d \in DOMAIN old.daily /\ prior = old.daily[d]
      BY <1>3, <2>4 DEF NoDaily, DailyCounter, Gone
    <3>3. daily[d] = UpdateDailyCounter(prior, s.day,
                       CalculateCounterDelta(previous, s.stats[d], had))
      <4>1. CASE had
        <5>1. daily[d] = UpdateDailyCounter(prior, s.day,
                           CalculateCounterDelta(old.stats[d], s.stats[d], TRUE))
          BY <4>1 DEF daily, dailyAfter
        <5>2. had = TRUE /\ previous = old.stats[d]
          BY <4>1
        <5> QED
          BY <5>1, <5>2, Zenon
      <4>2. CASE ~had
        <5>1. daily[d] = UpdateDailyCounter(prior, s.day,
                           CalculateCounterDelta(0, s.stats[d], FALSE))
          BY <4>2 DEF daily, dailyAfter
        <5>2. had = FALSE /\ previous = 0
          BY <4>2
        <5> QED
          BY <5>1, <5>2, Zenon
      <4> QED
        BY <4>1, <4>2
    <3> HIDE DEF previous, prior, had
    <3>4. PICK added \in Nat :
            /\ daily[d].total = (IF prior.day = s.day THEN prior.total ELSE 0) + added
            /\ added = 0 \/ (had /\ added = s.stats[d] - previous)
            /\ daily[d] = [day |-> s.day, total |-> daily[d].total]
      BY <3>1, <3>2, <3>3, AddedIsGrowth
    <3>5. daily[d] \in DailyCounter
      BY <1>3, <3>2, <3>4 DEF DailyCounter
    <3>6. /\ at[d] = s.moved[d]
          /\ since[d] = IF starts(d) THEN old.at[d] ELSE old.since[d]
          /\ s.moved[d] \in Nat /\ old.at[d] \in Nat /\ old.since[d] \in Nat
      BY <1>1, <2>4, <3>1
    <3> HIDE DEF at, since, starts
    <3>7. ASSUME c \notin overtaken PROVE daily[d].total <= at[d] - since[d]
      <4>1. old.boots <= s.boots /\ old.at[d] <= s.moved[d]
        BY <2>5, <3>7 DEF NotNewer
      <4>2. had => s.stats[d] - previous <= s.moved[d] - old.at[d]
        <5>1. had => /\ d \in DOMAIN snapshotOfRow(old).stats
                     /\ d \in DOMAIN snapshotOfSample(s).stats
                     /\ snapshotOfRow(old).at[d] = old.at[d]
                     /\ snapshotOfSample(s).at[d] = s.moved[d]
                     /\ previous = old.stats[d]
          BY <1>2, <2>3 DEF had, previous
        <5>2. had => /\ old.boots = s.boots =>
                          s.stats[d] - previous = s.moved[d] - old.at[d]
                     /\ old.boots < s.boots =>
                          s.stats[d] - previous <= s.moved[d] - old.at[d]
          BY <1>2, <2>2, <2>3, <5>1 DEF Agree
        <5> QED
          BY <1>3, <2>4, <3>1, <3>6, <4>1, <5>2
      <4>3. added <= s.moved[d] - old.at[d]
        BY <3>1, <3>4, <3>6, <4>1, <4>2
      <4>4. CASE starts(d)
        BY <3>2, <3>4, <3>6, <4>3, <4>4
      <4>5. CASE ~starts(d)
        <5>1. prior.total <= old.at[d] - old.since[d]
          BY <2>2, <3>2, <3>7, <4>5 DEF WithinTraffic
        <5>2. daily[d].total <= prior.total + added
          BY <3>2, <3>4
        <5>3. daily[d].total \in Nat
          BY <3>5 DEF DailyCounter
        <5> QED
          BY <3>2, <3>6, <4>3, <4>5, <5>1, <5>2, <5>3
      <4> QED
        BY <4>4, <4>5
    <3> QED
      BY <3>5, <3>7
  <2>11. ASSUME NEW d \in DOMAIN daily \ DOMAIN s.stats
         PROVE  /\ daily[d] \in DailyCounter
                /\ c \notin overtaken => daily[d].total <= at[d] - since[d]
    <3>1. /\ d \in DOMAIN old.daily /\ d \in Device /\ daily[d] = old.daily[d]
          /\ daily[d] \in DailyCounter
      BY <1>1, <2>4, <2>9
    <3>2. at[d] = old.at[d] /\ since[d] = old.since[d]
      BY <3>1
    <3> QED
      BY <2>2, <3>1, <3>2 DEF WithinTraffic
  <2> HIDE DEF at, since
  <2>12. RowTyped(new, c)
    BY <1>1, <2>4, <2>6, <2>8, <2>9, <2>10, <2>11 DEF RowTyped
  <2>13. c \notin overtaken => WithinTraffic(new)
    BY <2>6, <2>9, <2>10, <2>11 DEF WithinTraffic
  <2> QED
    BY <2>7, <2>12, <2>13 DEF new, s
<1> QED
  BY <1>4, <1>5

DailyTyped == DOMAIN sample = Sampler /\ DOMAIN row = Collector

\* What one sampler's step does to the rows and snapshots of a collector.
SamplerMoved(p, z, c) ==
  /\ sample'[p] = z
  /\ \A q \in samplersOf(c)' \ {p} :
       q \in samplersOf(c) /\ sample'[q] = sample[q]
  /\ p \in samplersOf(c)' => z.of = c
  /\ \A r \in Rows(c)' :
       \/ r \in Rows(c)
       \/ r = row'[c] /\ row'[c] # row[c]
       \/ r = z.base /\ z.of = c /\ z.base \notin {NoRow, NotLoaded}
  /\ \A x \in Snapshots(c)' :
       \/ x \in Snapshots(c)
       \/ x = snapshotOfRow(row'[c]) /\ row'[c] # row[c]
       \/ z.of = c /\ x = snapshotOfSample(z)
       \/ /\ z.of = c /\ z.base \notin {NoRow, NotLoaded}
          /\ x = snapshotOfRow(z.base)

\* A step of one sampler is such a step.
LEMMA OneSampler ==
  ASSUME DailyTyped, NEW p \in Sampler, NEW z,
         sample' = [sample EXCEPT ![p] = z], NEW c \in Collector
  PROVE  SamplerMoved(p, z, c)
<1>1. /\ sample'[p] = z
      /\ \A q \in Sampler \ {p} : sample'[q] = sample[q]
  BY DEF DailyTyped
<1>2. /\ \A q \in samplersOf(c)' \ {p} :
           q \in samplersOf(c) /\ sample'[q] = sample[q]
      /\ p \in samplersOf(c)' => z.of = c
  BY <1>1 DEF samplersOf
<1>3. ASSUME NEW r \in Rows(c)'
      PROVE  \/ r \in Rows(c)
             \/ r = row'[c] /\ row'[c] # row[c]
             \/ r = z.base /\ z.of = c /\ z.base \notin {NoRow, NotLoaded}
  BY <1>1, <1>2 DEF Rows
<1>4. ASSUME NEW x \in Snapshots(c)'
      PROVE  \/ x \in Snapshots(c)
             \/ x = snapshotOfRow(row'[c]) /\ row'[c] # row[c]
             \/ z.of = c /\ x = snapshotOfSample(z)
             \/ /\ z.of = c /\ z.base \notin {NoRow, NotLoaded}
                /\ x = snapshotOfRow(z.base)
  <2>1. CASE \E q \in samplersOf(c)' : x = snapshotOfSample(sample'[q])
    <3>1. PICK q \in samplersOf(c)' : x = snapshotOfSample(sample'[q])
      BY <2>1
    <3> QED
      BY <1>1, <1>2, <3>1 DEF Snapshots
  <2>2. CASE \E r \in Rows(c)' : x = snapshotOfRow(r)
    <3>1. PICK r \in Rows(c)' : x = snapshotOfRow(r)
      BY <2>2
    <3> QED
      BY <1>3, <3>1 DEF Snapshots
  <2>3. \/ \E q \in samplersOf(c)' : x = snapshotOfSample(sample'[q])
        \/ \E r \in Rows(c)' : x = snapshotOfRow(r)
    BY <1>4 DEF Snapshots, snapshotOfSample, snapshotOfRow
  <2> QED
    BY <2>1, <2>2, <2>3
<1> QED
  BY <1>1, <1>2, <1>3, <1>4 DEF SamplerMoved

\* A sample that gives up, or dies with its process.
LEMMA NoSampleIsNobodys ==
  \A c \in Collector : NoSample.of # c
BY DEF NoSample, Collector

\* readDevices takes the present snapshot.
LEMMA ReadStep ==
  ASSUME WorldOK, DailyTyped, NEW p \in Sampler, NEW collector \in Collector,
         readDevices(p, collector), NEW c \in Collector, CollectorOK(c)
  PROVE  CollectorOK(c)'
<1>0. PICK z :
        z = [of    |-> collector,
             day   |-> today,
             stats |-> [d \in {x \in devicesOf(collector) : bytes[x] # Gone}
                          |-> bytes[d]],
             moved |-> moved,
             boots |-> boots,
             base  |-> NotLoaded]
  OBVIOUS
<1>1. /\ sample' = [sample EXCEPT ![p] = z]
      /\ UNCHANGED counterWorld /\ overtaken' = overtaken /\ row' = row
  BY <1>0 DEF readDevices, counterRows
<1>2. /\ z.of = collector /\ z.base = NotLoaded /\ z.day = today
      /\ z.stats = statsNow(collector) /\ z.moved = moved /\ z.boots = boots
  BY <1>0 DEF statsNow
<1>3. snapshotOfSample(z) = snapshotNow(collector)
  BY <1>2 DEF snapshotOfSample, snapshotNow
<1>4. SampleOK(z, collector)'
  BY <1>1, <1>2 DEF SampleOK, WorldOK, statsNow, counterWorld
<1>m. SamplerMoved(p, z, c)
  BY <1>1, OneSampler
<1>5. /\ \A r \in Rows(c)' : r \in Rows(c)
      /\ Snapshots(c)' \subseteq Snapshots(c) \cup {snapshotNow(c)}
      /\ \A q \in samplersOf(c)' :
           \/ q \in samplersOf(c) /\ sample'[q] = sample[q]
           \/ q = p /\ sample'[q] = z /\ c = collector
  BY <1>1, <1>2, <1>3, <1>m DEF SamplerMoved
<1>6. \A q \in samplersOf(c)' :
        \/ q \in samplersOf(c) /\ sample'[q] = sample[q]
        \/ SampleOK(sample[q], c)'
  BY <1>4, <1>5
<1> QED
  BY <1>1, <1>5, <1>6, CollectorKept

\* loadDevices notes when the row is newer than the sampler's counters.
LEMMA LoadDevicesStep ==
  ASSUME WorldOK, DailyTyped, NEW p \in Sampler, NEW collector \in Collector,
         loadDevices(p, collector), NEW c \in Collector, CollectorOK(c)
  PROVE  CollectorOK(c)'
<1>0. PICK s, z, r0 :
        s = sample[p] /\ r0 = row[collector] /\ z = [s EXCEPT !.base = r0]
  OBVIOUS
<1>1. /\ sample' = [sample EXCEPT ![p] = z]
      /\ UNCHANGED counterWorld /\ row' = row
      /\ s.of = collector /\ r0 # Damaged
      /\ overtaken \subseteq overtaken'
  BY <1>0 DEF loadDevices, DailyTyped
<1>2. collector \notin overtaken' /\ r0 # NoRow =>
        /\ ~(r0.boots > s.boots)
        /\ \A d \in DOMAIN s.stats : ~(r0.at[d] > s.moved[d])
  BY <1>0 DEF loadDevices
<1>3. z.of = s.of /\ z.day = s.day /\ z.stats = s.stats /\ z.moved = s.moved
      /\ z.boots = s.boots /\ z.base = r0
  BY <1>0
<1>4. c = collector => /\ p \in samplersOf(c)
                       /\ r0 # NoRow => r0 \in Rows(c)
  BY <1>0, <1>1 DEF samplersOf, Rows
<1>5. snapshotOfSample(z) = snapshotOfSample(s)
  BY <1>3 DEF snapshotOfSample
<1>6. /\ \A r \in Rows(c)' : r \in Rows(c)
      /\ Snapshots(c)' \subseteq Snapshots(c)
      /\ \A q \in samplersOf(c)' :
           \/ q \in samplersOf(c) /\ sample'[q] = sample[q]
           \/ q = p /\ sample'[q] = z /\ c = collector
  <2>1. c = collector => snapshotOfSample(s) \in Snapshots(c)
    BY <1>0, <1>4 DEF Snapshots
  <2>2. c = collector /\ r0 # NoRow => snapshotOfRow(r0) \in Snapshots(c)
    BY <1>4 DEF Snapshots
  <2>3. SamplerMoved(p, z, c)
    BY <1>1, OneSampler
  <2> QED
    BY <1>1, <1>3, <1>4, <1>5, <2>1, <2>2, <2>3 DEF SamplerMoved
<1>7. c = collector => SampleOK(z, c)'
  <2> SUFFICES ASSUME c = collector PROVE SampleOK(z, c)'
    OBVIOUS
  <2>1. SampleOK(s, c) /\ Past(snapshotOfSample(s), c)
    BY <1>0, <1>4 DEF CollectorOK, Snapshots
  <2>2. /\ s.day \in 0..MaxDay /\ DOMAIN s.stats \subseteq devicesOf(c)
        /\ s.moved \in [Device -> Nat] /\ s.boots \in Nat
    BY <2>1 DEF SampleOK, Past, SnapshotTyped, snapshotOfSample, snapshot
  <2>3. c \notin overtaken' /\ r0 # NoRow => NotNewer(r0, z)
    <3> SUFFICES ASSUME c \notin overtaken', r0 # NoRow PROVE NotNewer(r0, z)
      OBVIOUS
    <3>1. RowTyped(r0, c) /\ Past(snapshotOfRow(r0), c)
      BY <1>4 DEF CollectorOK, Snapshots
    <3>2. r0.at \in [Device -> Nat] /\ r0.boots \in Nat
      BY <3>1 DEF RowTyped, Past, SnapshotTyped, snapshotOfRow, snapshot
    <3>3. \A d \in DOMAIN s.stats : r0.at[d] \in Nat /\ s.moved[d] \in Nat
      BY <2>2, <3>2, DevicesOf
    <3> QED
      BY <1>2, <1>3, <2>2, <3>2, <3>3 DEF NotNewer
  <2> QED
    BY <1>3, <2>2, <2>3 DEF SampleOK
<1>8. \A q \in samplersOf(c)' :
        \/ q \in samplersOf(c) /\ sample'[q] = sample[q]
        \/ SampleOK(sample[q], c)'
  BY <1>6, <1>7 DEF SampleOK
<1> QED
  BY <1>1, <1>6, <1>8, CollectorKept

\* saveDevices writes the row that follows from the sampler's own counters.
LEMMA SaveDevicesStep ==
  ASSUME WorldOK, DailyTyped, NEW p \in Sampler, NEW collector \in Collector,
         saveDevices(p, collector), NEW c \in Collector, CollectorOK(c)
  PROVE  CollectorOK(c)'
<1>0. PICK s, new : s = sample[p] /\ new = rowAfter(s)
  OBVIOUS
<1>1. /\ sample' = [sample EXCEPT ![p] = NoSample]
      /\ UNCHANGED counterWorld /\ overtaken' = overtaken
      /\ s.of = collector /\ s.base # NotLoaded
      /\ row' = [row EXCEPT ![collector] = new]
  BY <1>0 DEF saveDevices
<1>2. /\ row'[collector] = new
      /\ c # collector => row'[c] = row[c]
  BY <1>1 DEF DailyTyped
<1>3. c = collector =>
        /\ snapshotOfRow(new) \in Snapshots(c)
        /\ RowTyped(new, c)
        /\ c \notin overtaken => WithinTraffic(new)
  <2>1. c = collector => p \in samplersOf(c)
    BY <1>0, <1>1 DEF samplersOf
  <2>2. c = collector => snapshotOfSample(s) \in Snapshots(c)
    BY <1>0, <2>1 DEF Snapshots
  <2> QED
    BY <1>0, <1>1, <2>1, <2>2, RowAfterOK
<1>m. SamplerMoved(p, NoSample, c)
  BY <1>1, OneSampler
<1>4. /\ \A r \in Rows(c)' :
           r \in Rows(c) \/ (r = new /\ c = collector)
      /\ Snapshots(c)' \subseteq Snapshots(c)
      /\ \A q \in samplersOf(c)' :
           q \in samplersOf(c) /\ sample'[q] = sample[q]
  BY <1>1, <1>2, <1>3, <1>m, NoSampleIsNobodys DEF SamplerMoved
<1> QED
  BY <1>1, <1>3, <1>4, CollectorKept

\* A sampler that gives up leaves the row alone.
LEMMA SampleFailsStep ==
  ASSUME WorldOK, DailyTyped, NEW p \in Sampler, sampleFails(p),
         NEW c \in Collector, CollectorOK(c)
  PROVE  CollectorOK(c)'
<1>1. /\ sample' = [sample EXCEPT ![p] = NoSample]
      /\ UNCHANGED counterWorld /\ row' = row /\ overtaken' = overtaken
  BY DEF sampleFails, counterRows
<1>m. SamplerMoved(p, NoSample, c)
  BY <1>1, OneSampler
<1>2. /\ \A r \in Rows(c)' : r \in Rows(c)
      /\ Snapshots(c)' \subseteq Snapshots(c)
      /\ \A q \in samplersOf(c)' :
           q \in samplersOf(c) /\ sample'[q] = sample[q]
  BY <1>1, <1>m, NoSampleIsNobodys DEF SamplerMoved
<1> QED
  BY <1>1, <1>2, CollectorKept

\* A damaged row is no row to compare with, and none to save over.
LEMMA DamageRowStep ==
  ASSUME WorldOK, DailyTyped, NEW collector \in Collector,
         DamageRow(collector), NEW c \in Collector, CollectorOK(c)
  PROVE  CollectorOK(c)'
<1>1. /\ row' = [row EXCEPT ![collector] = Damaged]
      /\ UNCHANGED counterWorld /\ sample' = sample /\ overtaken' = overtaken
  BY DEF DamageRow
<1>2. row'[c] \in {row[c], Damaged}
  BY <1>1 DEF DailyTyped
<1>3. /\ samplersOf(c)' = samplersOf(c)
      /\ \A r \in Rows(c)' : r \in Rows(c)
  BY <1>1, <1>2 DEF samplersOf, Rows
<1>4. Snapshots(c)' \subseteq Snapshots(c)
  BY <1>1, <1>3 DEF Snapshots, snapshotOfSample, snapshotOfRow
<1> QED
  BY <1>1, <1>3, <1>4, CollectorKept

\* Traffic counts; devices that come and go and the machine that reboots make
\* counters start again; a reboot ends the samplers.
LEMMA WorldStep ==
  ASSUME WorldOK, DailyTyped, NEW collector \in Collector,
         \/ Traffic(collector) \/ RemoveDevice(collector)
         \/ ReturnDevice(collector) \/ Reboot \/ NewDay,
         NEW c \in Collector, CollectorOK(c)
  PROVE  WorldOK' /\ DailyTyped' /\ CollectorOK(c)'
<1>d. devicesOf(collector) \subseteq Device
  BY DevicesOf
<1>w. /\ bytes \in [Device -> {Gone} \cup Nat] /\ moved \in [Device -> Nat]
      /\ boots \in Nat /\ today \in 0..MaxDay
  BY DEF WorldOK
<1>1. /\ overtaken' = overtaken /\ row' = row
      /\ sample' = sample \/ sample' = [p \in Sampler |-> NoSample]
  BY DEF Traffic, RemoveDevice, ReturnDevice, Reboot, NewDay, counterRows
<1>2. DailyTyped'
  BY <1>1 DEF DailyTyped
<1>3. /\ bytes' \in [Device -> {Gone} \cup Nat] /\ moved' \in [Device -> Nat]
      /\ boots' \in Nat /\ today' \in 0..MaxDay
      /\ \/ /\ boots' = boots
            /\ \A d \in Device :
                 /\ moved[d] <= moved'[d]
                 /\ bytes'[d] # Gone =>
                      /\ bytes[d] # Gone
                      /\ bytes'[d] - bytes[d] = moved'[d] - moved[d]
         \/ /\ boots < boots' /\ moved' = moved
            /\ \A d \in Device : bytes'[d] \in {bytes[d], Gone, 0}
  <2>1. CASE Traffic(collector)
    <3>1. PICK d \in devicesOf(collector) :
            /\ bytes[d] # Gone
            /\ bytes' = [bytes EXCEPT ![d] = @ + 1]
            /\ moved' = [moved EXCEPT ![d] = @ + 1]
      BY <2>1 DEF Traffic
    <3>2. boots' = boots /\ today' = today
      BY <2>1 DEF Traffic
    <3>3. d \in Device /\ bytes[d] \in Nat /\ moved[d] \in Nat
      BY <1>d, <1>w, <3>1
    <3>4. bytes' \in [Device -> {Gone} \cup Nat] /\ moved' \in [Device -> Nat]
      BY <1>w, <3>1, <3>3
    <3>5. ASSUME NEW e \in Device
          PROVE  /\ moved[e] <= moved'[e]
                 /\ bytes'[e] # Gone =>
                      /\ bytes[e] # Gone
                      /\ bytes'[e] - bytes[e] = moved'[e] - moved[e]
      <4>1. CASE e = d
        <5>1. bytes'[d] = bytes[d] + 1 /\ moved'[d] = moved[d] + 1
          BY <1>w, <3>1, <3>3
        <5>2. PICK a \in Nat, m \in Nat : a = bytes[d] /\ m = moved[d]
          BY <3>3
        <5> QED
          BY <3>1, <4>1, <5>1, <5>2
      <4>2. CASE e # d
        <5>1. bytes'[e] = bytes[e] /\ moved'[e] = moved[e]
          BY <1>w, <3>1, <4>2
        <5>2. moved[e] \in Nat /\ bytes[e] \in {Gone} \cup Nat
          BY <1>w
        <5> QED
          BY <5>1, <5>2 DEF Gone
      <4> QED
        BY <4>1, <4>2
    <3> QED
      BY <1>w, <3>2, <3>4, <3>5
  <2>2. CASE RemoveDevice(collector)
    <3>1. PICK d \in devicesOf(collector) : bytes' = [bytes EXCEPT ![d] = Gone]
      BY <2>2 DEF RemoveDevice
    <3>2. moved' = moved /\ today' = today /\ boots' = boots + 1
      BY <2>2 DEF RemoveDevice
    <3>3. /\ bytes' \in [Device -> {Gone} \cup Nat]
          /\ \A e \in Device : bytes'[e] \in {bytes[e], Gone, 0}
      BY <1>w, <3>1
    <3> QED
      BY <1>w, <3>2, <3>3
  <2>3. CASE ReturnDevice(collector)
    <3>1. PICK d \in devicesOf(collector) : bytes' = [bytes EXCEPT ![d] = 0]
      BY <2>3 DEF ReturnDevice
    <3>2. moved' = moved /\ today' = today /\ boots' = boots + 1
      BY <2>3 DEF ReturnDevice
    <3>3. /\ bytes' \in [Device -> {Gone} \cup Nat]
          /\ \A e \in Device : bytes'[e] \in {bytes[e], Gone, 0}
      BY <1>w, <3>1
    <3> QED
      BY <1>w, <3>2, <3>3
  <2>4. CASE Reboot
    <3>1. /\ moved' = moved /\ today' = today /\ boots' = boots + 1
          /\ bytes' = [d \in Device |-> IF bytes[d] = Gone THEN Gone ELSE 0]
      BY <2>4 DEF Reboot
    <3>2. /\ bytes' \in [Device -> {Gone} \cup Nat]
          /\ \A e \in Device : bytes'[e] \in {bytes[e], Gone, 0}
      BY <3>1
    <3> QED
      BY <1>w, <3>1, <3>2
  <2>5. CASE NewDay
    <3>1. /\ moved' = moved /\ bytes' = bytes /\ boots' = boots
          /\ today' = today + 1 /\ today < MaxDay
      BY <2>5 DEF NewDay
    <3>2. today' \in 0..MaxDay
      BY <1>w, <3>1, CounterAssumption
    <3>3. \A d \in Device : /\ moved[d] <= moved'[d]
                            /\ bytes'[d] # Gone =>
                                 /\ bytes[d] # Gone
                                 /\ bytes'[d] - bytes[d] = moved'[d] - moved[d]
      BY <1>w, <3>1 DEF Gone
    <3> QED
      BY <1>w, <3>1, <3>2, <3>3
  <2> QED
    BY <2>1, <2>2, <2>3, <2>4, <2>5
<1>4. WorldOK'
  BY <1>3 DEF WorldOK
<1>5. /\ \A p \in samplersOf(c)' : p \in samplersOf(c) /\ sample'[p] = sample[p]
      /\ Rows(c)' \subseteq Rows(c)
  <2>1. CASE sample' = sample
    BY <1>1, <2>1 DEF samplersOf, Rows
  <2>2. CASE sample' = [p \in Sampler |-> NoSample]
    <3>1. samplersOf(c)' = {}
      BY <2>2, NoSampleIsNobodys DEF samplersOf
    <3> QED
      BY <1>1, <3>1 DEF Rows
  <2> QED
    BY <1>1, <2>1, <2>2
<1>6. Snapshots(c)' \subseteq Snapshots(c)
  BY <1>5 DEF Snapshots, snapshotOfSample, snapshotOfRow
<1>7. \A x \in Snapshots(c)' : Past(x, c)'
  BY <1>3, <1>4, <1>6, PastKept DEF CollectorOK
<1>8. \A x, y \in Snapshots(c)' : Agree(x, y)
  BY <1>6 DEF CollectorOK
<1>9. \A r \in Rows(c)' :
        RowTyped(r, c) /\ (c \notin overtaken' => WithinTraffic(r))
  BY <1>1, <1>5 DEF CollectorOK
<1>10. ASSUME NEW p \in samplersOf(c)' PROVE SampleOK(sample[p], c)'
  <2>1. SampleOK(sample[p], c) /\ sample'[p] = sample[p]
    BY <1>5, <1>10 DEF CollectorOK
  <2> QED
    BY <1>1, <2>1 DEF SampleOK
<1> QED
  BY <1>2, <1>4, <1>7, <1>8, <1>9, <1>10
     DEF CollectorOK, RowTyped, WithinTraffic, Agree

\* Rows and samples stay functions on the collectors and the samplers.
LEMMA SamplerStepTyped ==
  ASSUME WorldOK, DailyTyped, NEW collector \in Collector, NEW p \in Sampler,
         \/ DamageRow(collector) \/ readDevices(p, collector)
         \/ loadDevices(p, collector) \/ saveDevices(p, collector)
         \/ sampleFails(p)
  PROVE  WorldOK' /\ DailyTyped'
<1>1. UNCHANGED counterWorld
  BY DEF DamageRow, readDevices, loadDevices, saveDevices, sampleFails
<1>2. DOMAIN sample' = DOMAIN sample /\ DOMAIN row' = DOMAIN row
  BY DEF DamageRow, readDevices, loadDevices, saveDevices, sampleFails,
         counterRows
<1> QED
  BY <1>1, <1>2 DEF WorldOK, DailyTyped, counterWorld

\* Every step keeps the whole invariant.
LEMMA DailyStep ==
  ASSUME DailyTyped, DailyInv, [CounterNext]_counterVars
  PROVE  DailyTyped' /\ DailyInv'
<1>0. WorldOK /\ \A c \in Collector : CollectorOK(c)
  BY DEF DailyInv
<1>1. CASE UNCHANGED counterVars
  <2>1. /\ UNCHANGED counterWorld
        /\ sample' = sample /\ row' = row /\ overtaken' = overtaken
    BY <1>1 DEF counterVars, counterRows
  <2>2. WorldOK' /\ DailyTyped'
    BY <1>0, <2>1 DEF WorldOK, DailyTyped, counterWorld
  <2>3. ASSUME NEW c \in Collector PROVE CollectorOK(c)'
    <3>1. samplersOf(c)' = samplersOf(c) /\ Rows(c)' = Rows(c)
      BY <2>1 DEF samplersOf, Rows
    <3>2. Snapshots(c)' = Snapshots(c)
      BY <2>1, <3>1 DEF Snapshots, snapshotOfSample, snapshotOfRow
    <3> QED
      BY <1>0, <2>1, <3>1, <3>2, CollectorKept
  <2> QED
    BY <2>2, <2>3 DEF DailyInv
<1>2. CASE CounterNext
  <2>1. PICK collector \in Collector : CounterStep(collector)
    BY <1>2 DEF CounterNext
  <2>2. CASE \/ Traffic(collector) \/ RemoveDevice(collector)
             \/ ReturnDevice(collector) \/ Reboot \/ NewDay
    <3>1. \A c \in Collector : WorldOK' /\ DailyTyped' /\ CollectorOK(c)'
      BY <1>0, <2>2, WorldStep
    <3> QED
      BY <3>1 DEF DailyInv
  <2>3. CASE DamageRow(collector)
    <3>1. \A c \in Collector : CollectorOK(c)'
      BY <1>0, <2>3, DamageRowStep
    <3>2. UNCHANGED counterWorld /\ DOMAIN row' = DOMAIN row /\ sample' = sample
      BY <2>3 DEF DamageRow
    <3> QED
      BY <1>0, <3>1, <3>2 DEF DailyInv, DailyTyped, WorldOK, counterWorld
  <2>4. ASSUME NEW p \in Sampler,
               \/ readDevices(p, collector) \/ loadDevices(p, collector)
               \/ saveDevices(p, collector) \/ sampleFails(p)
        PROVE  DailyTyped' /\ DailyInv'
    <3>1. \A c \in Collector : CollectorOK(c)'
      BY <1>0, <2>4, ReadStep, LoadDevicesStep, SaveDevicesStep,
         SampleFailsStep
    <3> QED
      BY <1>0, <2>4, <3>1, SamplerStepTyped DEF DailyInv
  <2> QED
    BY <2>1, <2>2, <2>3, <2>4 DEF CounterStep
<1> QED
  BY <1>1, <1>2

\* Before the first sample there is nothing to agree.
LEMMA DailyInit == CounterInit => DailyTyped /\ DailyInv
<1> SUFFICES ASSUME CounterInit PROVE DailyTyped /\ DailyInv
  OBVIOUS
<1>1. DailyTyped
  BY DEF CounterInit, DailyTyped
<1>2. WorldOK
  BY CounterAssumption DEF CounterInit, WorldOK
<1>3. ASSUME NEW c \in Collector PROVE CollectorOK(c)
  <2>1. samplersOf(c) = {}
    BY NoSampleIsNobodys DEF CounterInit, samplersOf
  <2>2. Rows(c) = {}
    BY <2>1 DEF CounterInit, Rows
  <2>3. Snapshots(c) = {}
    BY <2>1, <2>2 DEF Snapshots
  <2> QED
    BY <2>1, <2>2, <2>3 DEF CollectorOK
<1> QED
  BY <1>1, <1>2, <1>3 DEF DailyInv

\* The total of a day is at most what the device moved since the last sample
\* of an earlier day, for any devices, samplers, reboots and days, unless a
\* sampler compared its counters with a newer row's (collectors/resources).
THEOREM DailyTotalsAreTraffic ==
  CounterSpec => []DailyWithinTrafficUnlessOvertaken
<1>1. DailyInv => DailyWithinTrafficUnlessOvertaken
  BY DEF DailyInv, CollectorOK, Rows, WithinTraffic,
         DailyWithinTrafficUnlessOvertaken
<1>2. DailyTyped /\ DailyInv /\ [CounterNext]_counterVars =>
        DailyTyped' /\ DailyInv'
  BY DailyStep
<1> QED
  BY <1>1, <1>2, DailyInit, PTL DEF CounterSpec
\* The bounds of the world and what a sampler is at: a counter never shows more
\* than its device has moved.
CounterBounds ==
  /\ moved \in [Device -> 0..MaxBytes]
  /\ \A d \in Device : bytes[d] # Gone => bytes[d] <= moved[d]
  /\ boots \in 0..MaxBoots
  /\ overtaken \subseteq Collector
  /\ \A p \in Sampler : sample[p] # NoSample => sample[p].of \in Collector

\* The bounds are kept.
LEMMA BoundsStep ==
  ASSUME DailyTyped, WorldOK, CounterBounds, [CounterNext]_counterVars
  PROVE  CounterBounds'
<1> USE CounterAssumption DEF CounterBounds, DailyTyped, WorldOK, Gone
<1>1. CASE UNCHANGED counterVars
  BY <1>1 DEF counterVars, counterWorld, counterRows
<1>2. ASSUME NEW c \in Collector, CounterStep(c) PROVE CounterBounds'
  <2>1. CASE Traffic(c)
    <3>1. PICK d \in Device :
            /\ bytes[d] # Gone /\ moved[d] < MaxBytes
            /\ bytes' = [bytes EXCEPT ![d] = bytes[d] + 1]
            /\ moved' = [moved EXCEPT ![d] = moved[d] + 1]
      BY <2>1, DevicesOf DEF Traffic
    <3>2. moved' \in [Device -> 0..MaxBytes]
      BY <3>1
    <3>3. \A x \in Device : bytes'[x] # Gone => bytes'[x] <= moved'[x]
      BY <3>1
    <3>4. UNCHANGED <<boots, sample, overtaken>>
      BY <2>1 DEF Traffic, counterRows
    <3> QED
      BY <3>2, <3>3, <3>4
  <2>2. CASE RemoveDevice(c) \/ ReturnDevice(c)
    <3>1. PICK d \in Device : \E n \in {Gone, 0} :
            bytes' = [bytes EXCEPT ![d] = n]
      BY <2>2, DevicesOf DEF RemoveDevice, ReturnDevice
    <3>2. moved' = moved /\ boots < MaxBoots /\ boots' = boots + 1
          /\ sample' = sample /\ overtaken' = overtaken
      BY <2>2 DEF RemoveDevice, ReturnDevice, counterRows
    <3>3. \A x \in Device : bytes'[x] # Gone => bytes'[x] <= moved'[x]
      BY <3>1, <3>2
    <3> QED
      BY <3>2, <3>3
  <2>3. CASE Reboot
    <3>1. /\ boots' \in 0..MaxBoots /\ moved' = moved /\ overtaken' = overtaken
          /\ \A p \in Sampler : sample'[p] = NoSample
      BY <2>3 DEF Reboot, counterRows
    <3>2. \A x \in Device : bytes'[x] # Gone => bytes'[x] <= moved'[x]
      BY <2>3 DEF Reboot
    <3> QED
      BY <3>1, <3>2
  <2>4. CASE NewDay \/ DamageRow(c)
    BY <2>4 DEF NewDay, DamageRow, counterWorld, counterRows
  <2>5. ASSUME NEW p \in Sampler,
               \/ readDevices(p, c) \/ loadDevices(p, c) \/ saveDevices(p, c)
               \/ sampleFails(p)
        PROVE  CounterBounds'
    <3>1. UNCHANGED <<bytes, boots, moved>>
      BY <2>5 DEF readDevices, loadDevices, saveDevices, sampleFails,
         counterWorld
    <3>2. overtaken' \subseteq Collector
      BY <2>5 DEF readDevices, loadDevices, saveDevices, sampleFails,
         counterRows
    <3>3. \A q \in Sampler \ {p} : sample'[q] = sample[q]
      BY <2>5 DEF readDevices, loadDevices, saveDevices, sampleFails
    <3>4. sample'[p] # NoSample => sample'[p].of \in Collector
      <4>1. CASE readDevices(p, c)
        BY <4>1 DEF readDevices
      <4>2. CASE loadDevices(p, c)
        <5>1. PICK b : sample' = [sample EXCEPT ![p].base = b]
          BY <4>2 DEF loadDevices
        <5>2. sample'[p] = [sample[p] EXCEPT !.base = b]
          BY <5>1
        <5>3. sample'[p].of = sample[p].of
          BY <5>2
        <5> QED
          BY <4>2, <5>3 DEF loadDevices
      <4>3. CASE saveDevices(p, c) \/ sampleFails(p)
        BY <4>3 DEF saveDevices, sampleFails
      <4> QED
        BY <2>5, <4>1, <4>2, <4>3
    <3> QED
      BY <3>1, <3>2, <3>3, <3>4
  <2> QED
    BY <1>2, <2>1, <2>2, <2>3, <2>4, <2>5 DEF CounterStep
<1> QED
  BY <1>1, <1>2 DEF CounterNext

\* The types of the world, of the samplers and of the rows, for any devices,
\* samplers, reboots and days.
THEOREM CounterTypes == CounterSpec => []CounterTypeOK
<1>1. CounterInit => CounterBounds
  BY CounterAssumption DEF CounterInit, CounterBounds, Gone
<1>2. DailyTyped /\ DailyInv /\ CounterBounds /\ [CounterNext]_counterVars =>
        DailyTyped' /\ DailyInv' /\ CounterBounds'
  BY DailyStep, BoundsStep DEF DailyInv
<1>3. ASSUME DailyInv, CounterBounds PROVE CounterTypeOK
  <2>1. bytes \in [Device -> {Gone} \cup 0..MaxBytes]
    BY <1>3, CounterAssumption DEF CounterBounds, DailyInv, WorldOK, Gone
  <2>2. ASSUME NEW p \in Sampler, sample[p] # NoSample
        PROVE  /\ sample[p].of \in Collector
               /\ sample[p].day \in 0..MaxDay
               /\ DOMAIN sample[p].stats \subseteq devicesOf(sample[p].of)
    <3>1. sample[p].of \in Collector /\ p \in samplersOf(sample[p].of)
      BY <1>3, <2>2 DEF CounterBounds, samplersOf
    <3>2. SampleOK(sample[p], sample[p].of)
      BY <1>3, <3>1 DEF DailyInv, CollectorOK
    <3> QED
      BY <3>1, <3>2 DEF SampleOK
  <2>3. ASSUME NEW c \in Collector, row[c] \notin {NoRow, Damaged}
        PROVE  /\ DOMAIN row[c].stats \subseteq devicesOf(c)
               /\ \A d \in DOMAIN row[c].daily : row[c].daily[d] \in DailyCounter
    <3>1. row[c] \in Rows(c)
      BY <2>3 DEF Rows
    <3>2. RowTyped(row[c], c) /\ Past(snapshotOfRow(row[c]), c)
      BY <1>3, <3>1 DEF DailyInv, CollectorOK, Snapshots
    <3>3. DOMAIN row[c].stats \subseteq devicesOf(c)
      BY <3>2 DEF Past, SnapshotTyped, snapshotOfRow, snapshot
    <3> QED
      BY <3>2, <3>3 DEF RowTyped
  <2> QED
    BY <1>3, <2>1, <2>2, <2>3
       DEF CounterTypeOK, CounterBounds, DailyInv, WorldOK
<1> QED
  BY <1>1, <1>2, <1>3, DailyInit, PTL DEF CounterSpec
-----------------------------------------------------------------------------
(***************************************************************************)
(* BootIdentity.                                                           *)
(***************************************************************************)
\* A boot that needs no further report, or whose report is on its way: a
\* reader that compared with that same boot is not on its way to report it.
accountedFor(b) ==
  \/ b \in baselines \cup reported \cup unreported
  \/ \E r \in BootReader :
       saved(r) /\ booter[r].id = b /\ booter[r].previous # b

\* The row, and what a reader has loaded from it, is a boot of the past that is
\* accounted for and not older than some baseline.
known(b) ==
  /\ b <= boot
  /\ accountedFor(b)
  /\ \E a \in baselines : a <= b

RowKnown == bootRow \in Boot => known(bootRow)

ReaderKnows ==
  \A r \in BootReader :
    /\ booter[r].pc # "idle" => booter[r].id = boot
    /\ booter[r].pc \in {"save", "return"} /\ booter[r].previous \in Boot =>
         known(booter[r].previous)
    /\ saved(r) /\ booter[r].previous = NoBoot =>
         booter[r].id \in baselines

ReportsFollowBaseline == \A b \in reported : \E a \in baselines : a < b

BootInv == BootTypeOK /\ RowKnown /\ ReaderKnows /\ ReportsFollowBaseline

USE BootAssumption DEF BootAssumption

\* Initially there is no row and no reader has begun (uptime.go 94).
LEMMA BootInitInv == BootInit => BootInv
  BY DEF BootInit, BootInv, BootTypeOK, RowKnown, ReaderKnows,
         ReportsFollowBaseline, BooterRecord, IdleBooter, Boot, NoBoot, BadBoot,
         saved

\* The invariant says what a row stands for.
LEMMA BootInvReported == BootInv => RebootReported
  BY DEF BootInv, RowKnown, ReportsFollowBaseline, known, accountedFor,
         RebootReported, saved

\* Every step keeps the types.
LEMMA BootTypeStep == BootTypeOK /\ [BootNext]_bootVars => BootTypeOK'
<1> SUFFICES ASSUME BootTypeOK, [BootNext]_bootVars PROVE BootTypeOK'
  OBVIOUS
<1> USE DEF BootTypeOK, BooterRecord, IdleBooter, Boot, NoBoot, BadBoot
<1>0. /\ IdleBooter \in BooterRecord
      /\ \A readers \in SUBSET BootReader : lostWith(readers) \subseteq Boot
  <2>1. ASSUME NEW readers \in SUBSET BootReader
        PROVE  lostWith(readers) \subseteq Boot
    <3>1. \A r \in readers : booter[r].id \in Boot
      OBVIOUS
    <3>2. unreported \subseteq Boot
      OBVIOUS
    <3> QED
      BY <3>1, <3>2, Zenon DEF lostWith
  <2> QED
    BY <2>1, SMT
<1>1. CASE NextBoot
  <2>1. booter' \in [BootReader -> BooterRecord]
    BY <1>0, <1>1, Zenon DEF NextBoot
  <2>2. unreported' \subseteq Boot
    BY <1>0, <1>1 DEF NextBoot
  <2> QED
    BY <1>1, <2>1, <2>2 DEF NextBoot
<1>2. CASE DamageBoot
  BY <1>2 DEF DamageBoot
<1>3. ASSUME NEW r \in BootReader, readBootID(r) PROVE BootTypeOK'
  BY <1>3 DEF readBootID
<1>4. ASSUME NEW r \in BootReader, loadBoot(r) PROVE BootTypeOK'
  BY <1>4 DEF loadBoot
<1>5. ASSUME NEW r \in BootReader, saveBoot(r) PROVE BootTypeOK'
  BY <1>5 DEF saveBoot
<1>6. ASSUME NEW r \in BootReader, returnUptime(r) PROVE BootTypeOK'
  <2>1. booter' \in [BootReader -> BooterRecord]
    BY <1>0, <1>6 DEF returnUptime
  <2>2. reported' \subseteq Boot
    BY <1>6 DEF returnUptime
  <2> QED
    BY <1>6, <2>1, <2>2 DEF returnUptime
<1>7. ASSUME NEW r \in BootReader, BootFails(r) PROVE BootTypeOK'
  <2>1. booter' \in [BootReader -> BooterRecord]
    BY <1>0, <1>7 DEF BootFails
  <2>2. unreported' \subseteq Boot
    BY <1>0, <1>7 DEF BootFails
  <2> QED
    BY <1>7, <2>1, <2>2 DEF BootFails
<1>8. CASE UNCHANGED bootVars
  BY <1>8 DEF bootVars
<1> QED
  BY <1>1, <1>2, <1>3, <1>4, <1>5, <1>6, <1>7, <1>8 DEF BootNext

\* What is known stays known: a reader on its way ends with a report, or among
\* the unreported.
LEMMA KnownStep ==
  ASSUME BootInv, BootNext, NEW b \in Boot, known(b)
  PROVE known(b)'
<1> USE DEF BootInv, BootTypeOK, BooterRecord, IdleBooter, Boot, NoBoot, BadBoot
<1>1. CASE NextBoot
  BY <1>1 DEF NextBoot, lostWith, saved, known, accountedFor
<1>2. CASE DamageBoot
  BY <1>2 DEF DamageBoot, saved, known, accountedFor
<1>3. ASSUME NEW r \in BootReader, readBootID(r) PROVE known(b)'
  BY <1>3 DEF readBootID, saved, known, accountedFor
<1>4. ASSUME NEW r \in BootReader, loadBoot(r) PROVE known(b)'
  BY <1>4 DEF loadBoot, saved, known, accountedFor
<1>5. ASSUME NEW r \in BootReader, saveBoot(r) PROVE known(b)'
  BY <1>5 DEF saveBoot, saved, known, accountedFor
<1>6. ASSUME NEW r \in BootReader, returnUptime(r) PROVE known(b)'
  <2>1. accountedFor(b)'
    BY <1>6 DEF returnUptime, saved, known, accountedFor, ReaderKnows
  <2> QED
    BY <1>6, <2>1 DEF returnUptime, known
<1>7. ASSUME NEW r \in BootReader, BootFails(r) PROVE known(b)'
  <2>1. accountedFor(b)'
    BY <1>7 DEF BootFails, lostWith, saved, known, accountedFor
  <2> QED
    BY <1>7, <2>1 DEF BootFails, known
<1> QED
  BY <1>1, <1>2, <1>3, <1>4, <1>5, <1>6, <1>7 DEF BootNext

\* Every step keeps what the row stands for, and what readers loaded from it.
LEMMA BootInvStep == BootInv /\ [BootNext]_bootVars => BootInv'
<1> SUFFICES ASSUME BootInv, [BootNext]_bootVars PROVE BootInv'
  OBVIOUS
<1> USE DEF BootInv
<1>1. CASE UNCHANGED bootVars
  BY <1>1 DEF bootVars, BootTypeOK, RowKnown, ReaderKnows,
              ReportsFollowBaseline, known, accountedFor, saved
<1>2. CASE BootNext
  <2>0. BootTypeOK' /\ \A b \in Boot : known(b) => known(b)'
    BY <1>2, BootTypeStep, KnownStep
  <2> USE DEF BootTypeOK, BooterRecord, IdleBooter, Boot, NoBoot, BadBoot
  <2>1. CASE NextBoot
    BY <2>0, <2>1 DEF NextBoot, RowKnown, ReaderKnows, ReportsFollowBaseline,
                      saved
  <2>2. CASE DamageBoot
    BY <2>0, <2>2 DEF DamageBoot, RowKnown, ReaderKnows,
                      ReportsFollowBaseline, saved
  <2>3. ASSUME NEW r \in BootReader, readBootID(r) PROVE BootInv'
    BY <2>0, <2>3 DEF readBootID, RowKnown, ReaderKnows,
                      ReportsFollowBaseline, saved
  <2>4. ASSUME NEW r \in BootReader, loadBoot(r) PROVE BootInv'
    BY <2>0, <2>4 DEF loadBoot, RowKnown, ReaderKnows, ReportsFollowBaseline,
                      saved
  <2>5. ASSUME NEW r \in BootReader, saveBoot(r) PROVE BootInv'
    <3>1. booter[r].id = boot /\ booter'[r].id = boot /\ saved(r)'
      BY <2>5 DEF saveBoot, ReaderKnows, saved
    <3>2. ReaderKnows'
      BY <2>0, <2>5 DEF saveBoot, ReaderKnows, saved
    <3>3. known(boot)'
      <4>1. CASE booter[r].previous = NoBoot
        BY <2>5, <3>1, <4>1 DEF saveBoot, known, accountedFor
      <4>2. CASE booter[r].previous # NoBoot
        <5>1. known(booter[r].previous)'
          BY <2>0, <2>5, <4>2 DEF saveBoot, ReaderKnows
        <5> QED
          BY <2>5, <3>1, <4>2, <5>1 DEF saveBoot, known, accountedFor
      <4> QED
        BY <4>1, <4>2
    <3>4. RowKnown' /\ ReportsFollowBaseline'
      BY <2>5, <3>1, <3>3 DEF saveBoot, RowKnown, ReportsFollowBaseline
    <3> QED
      BY <2>0, <3>2, <3>4
  <2>6. ASSUME NEW r \in BootReader, returnUptime(r) PROVE BootInv'
    <3>1. RowKnown' /\ ReaderKnows'
      BY <2>0, <2>6 DEF returnUptime, RowKnown, ReaderKnows, saved
    <3>2. ReportsFollowBaseline'
      <4>1. CASE booter[r].previous \in Boot \ {booter[r].id}
        BY <2>6, <4>1 DEF returnUptime, ReportsFollowBaseline, ReaderKnows,
                          known, saved
      <4>2. CASE booter[r].previous \notin Boot \ {booter[r].id}
        BY <2>6, <4>2 DEF returnUptime, ReportsFollowBaseline
      <4> QED
        BY <4>1, <4>2
    <3> QED
      BY <2>0, <3>1, <3>2
  <2>7. ASSUME NEW r \in BootReader, BootFails(r) PROVE BootInv'
    BY <2>0, <2>7 DEF BootFails, RowKnown, ReaderKnows, ReportsFollowBaseline,
                      saved
  <2> QED
    BY <1>2, <2>1, <2>2, <2>3, <2>4, <2>5, <2>6, <2>7 DEF BootNext
<1> QED
  BY <1>1, <1>2

\* Every boot that the row takes for granted was a baseline or was reported,
\* unless its reader ended first, and no first boot is reported, whatever the
\* number of processes and of boots (uptime.go 95-127).
THEOREM RebootsReported == BootSpec => []RebootReported
<1>1. BootInit => BootInv
  BY BootInitInv
<1>2. BootInv /\ [BootNext]_bootVars => BootInv'
  BY BootInvStep
<1>3. BootInv => RebootReported
  BY BootInvReported
<1> QED
  BY <1>1, <1>2, <1>3, PTL DEF BootSpec

\* The types of the row, of the readers and of the history.
THEOREM BootTypes == BootSpec => []BootTypeOK
<1>1. BootInit => BootTypeOK
  BY BootInitInv DEF BootInv
<1> QED
  BY <1>1, BootTypeStep, PTL DEF BootSpec

HIDE BootAssumption DEF BootAssumption
-----------------------------------------------------------------------------
(***************************************************************************)
(* CpuTime.  The total is busy, idle and iowait; iowait is compared by     *)
(* itself, so only the idle counter can lower the total unnoticed.         *)
(***************************************************************************)
\* What CalculateCounterDelta returns, on the counters of a row.
LEMMA DeltaOfCounters ==
  ASSUME NEW a \in Nat, NEW b \in Nat
  PROVE  LET d == CalculateCounterDelta(a, b, TRUE)
         IN /\ d.reset \in BOOLEAN
            /\ d.delta \in Nat
            /\ ~d.reset => b >= a /\ d.delta = b - a
BY DEF CalculateCounterDelta, NoDelta

\* What a sample shows of two readings of the counters.
LEMMA RatioOfReadings ==
  ASSUME NEW x \in CPUStat, NEW y \in CPUStat
  PROVE  /\ cpuObservation(x, y) \in [stale : BOOLEAN, busy : Nat, total : Nat]
         /\ x.idle <= y.idle =>
              cpuObservation(x, y).busy <= cpuObservation(x, y).total
<1> DEFINE total == CalculateCounterDelta(Total(x), Total(y), TRUE)
           busy == CalculateCounterDelta(Busy(x), Busy(y), TRUE)
           iowait == CalculateCounterDelta(x.iowait, y.iowait, TRUE)
           steal == CalculateCounterDelta(x.steal, y.steal, TRUE)
<1>1. \A z \in CPUStat :
        /\ z.idle \in Nat /\ z.iowait \in Nat /\ z.steal \in Nat
        /\ z.other \in Nat
        /\ Total(z) \in Nat /\ Busy(z) \in Nat
        /\ Total(z) = Busy(z) + z.idle + z.iowait
  BY CpuAssumption DEF CPUStat, Total, Busy
<1>2. /\ ~total.reset => total.delta = Total(y) - Total(x)
      /\ ~busy.reset => busy.delta = Busy(y) - Busy(x)
      /\ ~iowait.reset => y.iowait >= x.iowait
      /\ total.delta \in Nat /\ busy.delta \in Nat
  BY <1>1, DeltaOfCounters
<1> HIDE DEF total, busy, iowait, steal
<1>3. cpuObservation(x, y) =
        IF total.reset \/ busy.reset \/ iowait.reset \/ steal.reset
          THEN [NoRatio EXCEPT !.stale = TRUE]
        ELSE IF total.delta = 0 THEN NoRatio
        ELSE [stale |-> FALSE, busy |-> busy.delta, total |-> total.delta]
  BY Zenon DEF cpuObservation, total, busy, iowait, steal
<1>4. CASE total.reset \/ busy.reset \/ iowait.reset \/ steal.reset
  <2>1. PICK z : z = [NoRatio EXCEPT !.stale = TRUE]
    OBVIOUS
  <2>2. z = [stale |-> TRUE, busy |-> 0, total |-> 0]
    BY <2>1 DEF NoRatio
  <2>3. cpuObservation(x, y) = z
    BY <1>3, <1>4, <2>1, Zenon
  <2> QED
    BY <2>2, <2>3
<1>5. CASE ~(total.reset \/ busy.reset \/ iowait.reset \/ steal.reset)
  <2>1. CASE total.delta = 0
    BY <1>3, <1>5, <2>1 DEF NoRatio
  <2>2. CASE total.delta # 0
    <3>1. cpuObservation(x, y) =
            [stale |-> FALSE, busy |-> busy.delta, total |-> total.delta]
      BY <1>3, <1>5, <2>2
    <3>2. x.idle <= y.idle => busy.delta <= total.delta
      BY <1>1, <1>2, <1>5
    <3> QED
      BY <1>2, <3>1, <3>2
  <2> QED
    BY <2>1, <2>2
<1> QED
  BY <1>4, <1>5

\* Every step keeps the types.
LEMMA CpuTypeStep == CpuTypeOK /\ [CpuNext]_cpuVars => CpuTypeOK'
<1> SUFFICES ASSUME CpuTypeOK, [CpuNext]_cpuVars PROVE CpuTypeOK'
  OBVIOUS
<1> USE CpuAssumption DEF CpuTypeOK
<1>1. CASE Work
  <2>1. PICK c \in DOMAIN cpu : cpu[c] < MaxTicks /\ cpu' = [cpu EXCEPT ![c] = cpu[c] + 1]
    BY <1>1 DEF Work
  <2>2. cpu' \in CPUStat
    BY <2>1 DEF CPUStat
  <2> QED
    BY <1>1, <2>2 DEF Work
<1>2. CASE RebootMachine
  BY <1>2 DEF RebootMachine, CpuStart, CPUStat
<1>3. CASE readCPU
  BY <1>3 DEF readCPU
<1>4. CASE CollectCPU
  <2>1. reading \in CPUStat
    BY <1>4 DEF CollectCPU
  <2>2. cpuSeen' \in [stale : BOOLEAN, busy : Nat, total : Nat]
    <3>1. CASE cpuRow = NoCpu
      BY <1>4, <3>1 DEF CollectCPU, NoRatio
    <3>2. CASE cpuRow # NoCpu
      BY <1>4, <2>1, <3>2, RatioOfReadings DEF CollectCPU
    <3> QED
      BY <3>1, <3>2
  <2> QED
    BY <1>4, <2>1, <2>2 DEF CollectCPU
<1>5. CASE cpuFails \/ UNCHANGED cpuVars
  BY <1>5 DEF cpuFails, cpuVars
<1> QED
  BY <1>1, <1>2, <1>3, <1>4, <1>5 DEF CpuNext

\* The types of the counters, of the row and of the observation.
THEOREM CpuTypes == CpuSpec => []CpuTypeOK
<1>1. CpuInit => CpuTypeOK
  BY CpuAssumption
     DEF CpuInit, CpuTypeOK, CpuStart, CPUStat, NoRatio
<1> QED
  BY <1>1, CpuTypeStep, PTL DEF CpuSpec

\* Idle counters that fell since the row was written.
idleFell == cpuRow # NoCpu /\ reading # NoCpu /\ reading.idle < cpuRow.idle

\* A sample shows more use than time only if the idle counter, the one that
\* cpu.go 143-147 does not compare, is lower than in the row.
THEOREM OverOneOnlyIfIdleFell ==
  CpuSpec => [][UsedWithinTotal /\ ~UsedWithinTotal' => idleFell]_cpuVars
<1>1. CpuTypeOK /\ [CpuNext]_cpuVars =>
        [UsedWithinTotal /\ ~UsedWithinTotal' => idleFell]_cpuVars
  <2> SUFFICES ASSUME CpuTypeOK, CpuNext, UsedWithinTotal, ~idleFell
               PROVE  UsedWithinTotal'
    BY DEF cpuVars
  <2>1. CASE CollectCPU
    <3>1. reading \in CPUStat /\ reading # NoCpu
      BY <2>1 DEF CollectCPU, CpuTypeOK
    <3>2. CASE cpuRow = NoCpu
      BY <2>1, <3>2 DEF CollectCPU, NoRatio, UsedWithinTotal
    <3>3. CASE cpuRow # NoCpu
      <4>1. cpuRow \in CPUStat
        BY <3>3 DEF CpuTypeOK
      <4>2. cpuRow.idle <= reading.idle
        BY <3>1, <3>3, <4>1, CpuAssumption DEF idleFell, CPUStat
      <4> QED
        BY <2>1, <3>1, <3>3, <4>1, <4>2, RatioOfReadings
           DEF CollectCPU, UsedWithinTotal
    <3> QED
      BY <3>2, <3>3
  <2>2. CASE ~CollectCPU
    BY <2>2 DEF CpuNext, Work, RebootMachine, readCPU, cpuFails,
       UsedWithinTotal
  <2> QED
    BY <2>1, <2>2
<1> QED
  BY <1>1, CpuTypes, PTL DEF CpuSpec

\* Before the first reboot, the row and the reading are of the past of the
\* counters.
IdleOrdered ==
  reboots = 0 =>
    /\ cpuRow # NoCpu => cpuRow.idle <= cpu.idle
    /\ reading # NoCpu => /\ reading.idle <= cpu.idle
                          /\ cpuRow # NoCpu => cpuRow.idle <= reading.idle
    /\ UsedWithinTotal

\* On a machine that has not rebooted, a used ratio is a share of the ticks
\* between two samples, however many collections failed in between.
THEOREM ShareUntilReboot == CpuSpec => [](reboots = 0 => UsedWithinTotal)
<1>1. CpuInit => IdleOrdered
  BY DEF CpuInit, IdleOrdered, UsedWithinTotal, NoRatio
<1>2. ASSUME CpuTypeOK, IdleOrdered, [CpuNext]_cpuVars PROVE IdleOrdered'
  <2> SUFFICES ASSUME reboots' = 0 PROVE IdleOrdered'
    BY DEF IdleOrdered
  <2> USE <1>2, CpuAssumption DEF CpuTypeOK, CPUStat
  <2>1. CASE Work
    <3>1. PICK c \in DOMAIN cpu : cpu' = [cpu EXCEPT ![c] = cpu[c] + 1]
      BY <2>1 DEF Work
    <3>2. cpu.idle <= cpu'.idle /\ cpu.idle \in Nat /\ cpu'.idle \in Nat
      BY <3>1
    <3>3. reboots = 0 /\ UNCHANGED <<reading, cpuRow, cpuSeen>>
      BY <2>1 DEF Work
    <3>4. (cpuRow # NoCpu => cpuRow.idle \in Nat)
          /\ (reading # NoCpu => reading.idle \in Nat)
      OBVIOUS
    <3> QED
      BY <3>2, <3>3, <3>4 DEF IdleOrdered, UsedWithinTotal
  <2>2. CASE RebootMachine
    BY <2>2 DEF RebootMachine
  <2>3. CASE readCPU
    BY <2>3 DEF readCPU, IdleOrdered, UsedWithinTotal
  <2>4. CASE CollectCPU
    <3>1. /\ reading \in CPUStat /\ reading # NoCpu /\ reboots = 0
          /\ cpuRow' = reading /\ reading' = NoCpu /\ cpu' = cpu
      BY <2>4 DEF CollectCPU
    <3>2. UsedWithinTotal'
      <4>1. CASE cpuRow = NoCpu
        BY <2>4, <4>1 DEF CollectCPU, NoRatio, UsedWithinTotal
      <4>2. CASE cpuRow # NoCpu
        <5>1. cpuRow \in CPUStat /\ cpuRow.idle <= reading.idle
          BY <3>1, <4>2 DEF IdleOrdered
        <5> HIDE DEF CPUStat
        <5> QED
          BY <2>4, <3>1, <4>2, <5>1, RatioOfReadings
             DEF CollectCPU, UsedWithinTotal
      <4> QED
        BY <4>1, <4>2
    <3> QED
      BY <3>1, <3>2 DEF IdleOrdered
  <2>5. CASE cpuFails \/ UNCHANGED cpuVars
    BY <2>5 DEF cpuFails, cpuVars, IdleOrdered, UsedWithinTotal
  <2> QED
    BY <2>1, <2>2, <2>3, <2>4, <2>5 DEF CpuNext
<1>3. IdleOrdered => (reboots = 0 => UsedWithinTotal)
  BY DEF IdleOrdered
<1> QED
  BY <1>1, <1>2, <1>3, CpuTypes, PTL DEF CpuSpec
=============================================================================
