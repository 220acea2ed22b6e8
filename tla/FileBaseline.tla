---------------------------- MODULE FileBaseline ----------------------------
(***************************************************************************)
(* One target of the file watch collector (collectors/filewatch/           *)
(* baseline.go) and its row in table collector_state, the baseline.        *)
(*                                                                         *)
(* The watched path holds an object with a type, a mode, an owner, a size  *)
(* with a time of modification, and contents.  Contents carry the number   *)
(* of the write that made them.  Reading an object takes two steps, Lstat  *)
(* and the read of its contents, and the object may change in between; so  *)
(* it may between the read, the load of the previous snapshot, the save    *)
(* and the report.  Several watchers (the agent, "collectors run filewatch *)
(* --persist") do this at a time.                                          *)
(***************************************************************************)
EXTENDS Integers, FiniteSets

CONSTANTS
  Watcher,       \* processes that collect the target
  TargetType,    \* Target.Type: "file", "directory" or "any"
  Mode, Owner,   \* permission bits, and owner with group
  SpecialBits,   \* what the setuid, setgid and sticky bits may be
  ReadContents,  \* Target.Hash and Manifest, on a path not named like a key
  TooLarge,      \* writes whose contents are too large to read or list
  MaxWrites      \* bound on the changes of the path and damages of the row

ASSUME FileAssumption ==
  /\ TargetType \in {"file", "directory", "any"}
  /\ Mode # {} /\ Owner # {} /\ SpecialBits # {}
  /\ ReadContents \in BOOLEAN
  /\ MaxWrites \in Nat \ {0}

VARIABLES
  file,      \* what is at the path
  writes,    \* changes and damages so far
  baseline,  \* the row: a snapshot, NoBaseline or CorruptBaseline
  watcher,   \* the watchers
  noticed,   \* history: snapshots reported as a change, baseline or reset
  lost,      \* history: those whose watcher died before it could report them
  source     \* history: the object that the row's contents were read from

fileHistory == <<noticed, lost, source>>
fileVars == <<file, writes, baseline, watcher, fileHistory>>

FileType == {"file", "directory", "symlink", "other"}

\* object is the inode; none is shared by two objects.  meta is the size and
\* the second of modification, named by the first write that had them; a later
\* write may leave both as they were.
Object == [type : FileType, mode : Mode, special : SpecialBits, owner : Owner,
           object : 1..MaxWrites, meta : 1..MaxWrites, contents : 1..MaxWrites]
Nothing == [type |-> "none"]

\* meta is what Lstat has told, hash the contents read, 0 when nothing is read.
Snapshot == [exists : {TRUE}, type : FileType, mode : Mode, owner : Owner,
             meta : 1..MaxWrites, hash : 0..MaxWrites]
Absent == [exists |-> FALSE]

NoBaseline == [row |-> "none"]
CorruptBaseline == [row |-> "damaged"]

Change == {"baseline_recorded", "baseline reset", "created", "deleted",
           "type_changed", "permission_changed", "owner_changed", "modified",
           "unchanged"}

\* Where the contents of a snapshot come from: the object that Lstat saw, or
\* one that has taken its place, of the same type or of another one.
Source == {"same", "replaced", "substituted"}

WatcherRecord ==
  [pc : {"idle"}]
  \cup [pc : {"contents"}, lstat : Snapshot, object : 1..MaxWrites]
  \cup [pc : {"load"}, snapshot : Snapshot \cup {Absent}, source : Source]
  \cup [pc : {"save", "report"}, snapshot : Snapshot \cup {Absent},
        source : Source, change : Change]

IdleWatcher == [pc |-> "idle"]

FileInit ==
  /\ file \in {Nothing} \cup
       {o \in Object : o.object = 1 /\ o.meta = 1 /\ o.contents = 1}
  /\ writes = 1
  /\ baseline = NoBaseline
  /\ watcher = [w \in Watcher |-> IdleWatcher]
  /\ noticed = {}
  /\ lost = {}
  /\ source = "same"

(***************************************************************************)
(* The world.                                                              *)
(***************************************************************************)
\* What contents may look like to Lstat: too large or not is seen.
looks(contents) ==
  {m \in 1..contents : m \in TooLarge <=> contents \in TooLarge}

\* The object is written in place, gains or loses rights, goes away, or makes
\* room for another one.
ChangeFile ==
  /\ writes < MaxWrites
  /\ writes' = writes + 1
  /\ \/ /\ file # Nothing
        /\ \/ \E m \in looks(writes') :
                file' = [file EXCEPT !.contents = writes', !.meta = m]
           \/ \E m \in Mode, s \in SpecialBits :
                file' = [file EXCEPT !.mode = m, !.special = s]
           \/ \E o \in Owner : file' = [file EXCEPT !.owner = o]
           \/ file' = Nothing
     \/ \E o \in Object : /\ o.object = writes'
                          /\ o.contents = writes'
                          /\ o.meta \in looks(writes')
                          /\ file' = o
  /\ UNCHANGED <<baseline, watcher, fileHistory>>

DamageBaseline ==
  /\ baseline \notin {NoBaseline, CorruptBaseline}
  /\ writes < MaxWrites
  /\ writes' = writes + 1
  /\ baseline' = CorruptBaseline
  /\ UNCHANGED <<file, watcher, fileHistory>>

(***************************************************************************)
(* The watcher.  A snapshot with a reason to be incomplete is reported and *)
(* goes no further.                                                        *)
(***************************************************************************)
targetTypeMismatch(type) == TargetType # "any" /\ type # TargetType

\* Only permission bits are kept, and whole seconds.
lstat(f) == [exists |-> TRUE, type |-> f.type, mode |-> f.mode,
             owner |-> f.owner, meta |-> f.meta, hash |-> 0]

\* Files are hashed and directories listed, when the target says so; the
\* rest is known after Lstat.
hasContents(f) == ReadContents /\ f.type \in {"file", "directory"}

snapshotLstat(w) ==
  /\ watcher[w].pc = "idle"
  /\ watcher' = [watcher EXCEPT ![w] =
       IF file = Nothing
         THEN [pc |-> "load", snapshot |-> Absent, source |-> "same"]
       ELSE IF file.type = "symlink" \/ targetTypeMismatch(file.type)
         THEN IdleWatcher
       ELSE IF ~hasContents(file)
         THEN [pc |-> "load", snapshot |-> lstat(file), source |-> "same"]
       ELSE IF file.type = "file" /\ file.meta \in TooLarge
         THEN IdleWatcher
       ELSE [pc |-> "contents", lstat |-> lstat(file),
             object |-> file.object]]
  /\ UNCHANGED <<file, writes, baseline, fileHistory>>

\* What has become of the object that Lstat saw.
sourceNow(w) ==
  IF file.object = watcher[w].object THEN "same"
  ELSE IF file.type = watcher[w].lstat.type THEN "replaced"
  ELSE "substituted"

\* Mutated form: a file that was replaced since Lstat is not refused.
snapshotContentsUnchecked(w) ==
  /\ watcher[w].pc = "contents"
  /\ watcher' = [watcher EXCEPT ![w] =
       IF /\ file # Nothing
          /\ file.contents \notin TooLarge
       THEN [pc |-> "load",
             snapshot |-> [watcher[w].lstat EXCEPT !.hash = file.contents],
             source |-> sourceNow(w)]
       ELSE IdleWatcher]
  /\ UNCHANGED <<file, writes, baseline, fileHistory>>

\* readBoundedRegular and manifestHash.  A file that was replaced since Lstat
\* is refused, one that was written in place is not; a directory is listed
\* by its name, through a link when there is one now.
snapshotContents(w) ==
  /\ watcher[w].pc = "contents"
  /\ watcher' = [watcher EXCEPT ![w] =
       IF /\ file # Nothing
          /\ \/ file.object = watcher[w].object
             \/ /\ watcher[w].lstat.type = "directory"
                /\ file.type \in {"directory", "symlink"}
          /\ file.contents \notin TooLarge
       THEN [pc |-> "load",
             snapshot |-> [watcher[w].lstat EXCEPT !.hash = file.contents],
             source |-> sourceNow(w)]
       ELSE IdleWatcher]
  /\ UNCHANGED <<file, writes, baseline, fileHistory>>

\* Mutated form: contents are compared only while mode and owner differ.
compareSnapshotsMode(previous, current) ==
  CASE ~previous.exists /\ current.exists -> "created"
    [] previous.exists /\ ~current.exists -> "deleted"
    [] ~previous.exists /\ ~current.exists -> "unchanged"
    [] previous.exists /\ current.exists ->
         IF previous.type # current.type THEN "type_changed"
         ELSE IF previous.mode # current.mode THEN "permission_changed"
         ELSE IF previous.owner # current.owner THEN "owner_changed"
         ELSE "unchanged"

compareSnapshots(previous, current) ==
  CASE ~previous.exists /\ current.exists -> "created"
    [] previous.exists /\ ~current.exists -> "deleted"
    [] ~previous.exists /\ ~current.exists -> "unchanged"
    [] previous.exists /\ current.exists ->
         IF previous.type # current.type THEN "type_changed"
         ELSE IF previous.mode # current.mode THEN "permission_changed"
         ELSE IF previous.owner # current.owner THEN "owner_changed"
         ELSE IF <<previous.hash, previous.meta>> # <<current.hash, current.meta>>
           THEN "modified"
         ELSE "unchanged"

loadSnapshot(w) ==
  /\ watcher[w].pc = "load"
  /\ watcher' = [watcher EXCEPT ![w] =
       [pc       |-> "save",
        snapshot |-> watcher[w].snapshot,
        source   |-> watcher[w].source,
        change   |-> IF baseline = NoBaseline THEN "baseline_recorded"
                     ELSE IF baseline = CorruptBaseline THEN "baseline reset"
                     ELSE compareSnapshots(baseline, watcher[w].snapshot)]]
  /\ UNCHANGED <<file, writes, baseline, fileHistory>>

saveSnapshot(w) ==
  /\ watcher[w].pc = "save"
  /\ baseline' = watcher[w].snapshot
  /\ source' = watcher[w].source
  /\ watcher' = [watcher EXCEPT ![w].pc = "report"]
  /\ UNCHANGED <<file, writes, noticed, lost>>

\* What a watcher has still to report of the row it has saved.
toReport(w) ==
  IF watcher[w].pc = "report" /\ watcher[w].change # "unchanged"
  THEN {watcher[w].snapshot} ELSE {}

\* The observation is made of what was saved.
snapshotObservation(w) ==
  /\ watcher[w].pc = "report"
  /\ noticed' = noticed \cup toReport(w)
  /\ watcher' = [watcher EXCEPT ![w] = IdleWatcher]
  /\ UNCHANGED <<file, writes, baseline, lost, source>>

\* The context has ended, the path cannot be read, the store refuses, or the
\* process dies, which it may do with a saved row that it has not reported;
\* the error of a save that was committed is the same.
watchFails(w) ==
  /\ watcher[w].pc # "idle"
  /\ lost' = lost \cup toReport(w)
  /\ watcher' = [watcher EXCEPT ![w] = IdleWatcher]
  /\ UNCHANGED <<file, writes, baseline, noticed, source>>

collectTarget(w) ==
  \/ snapshotLstat(w)
  \/ snapshotContents(w)
  \/ loadSnapshot(w)
  \/ saveSnapshot(w)
  \/ snapshotObservation(w)
  \/ watchFails(w)

FileNext ==
  \/ ChangeFile
  \/ DamageBaseline
  \/ \E w \in Watcher : collectTarget(w)

FileSpec == FileInit /\ [][FileNext]_fileVars

(***************************************************************************)
(* Properties.                                                             *)
(***************************************************************************)
FileTypeOK ==
  /\ file \in {Nothing} \cup Object
  /\ writes \in 1..MaxWrites
  /\ baseline \in {NoBaseline, CorruptBaseline, Absent} \cup Snapshot
  /\ watcher \in [Watcher -> WatcherRecord]
  /\ noticed \subseteq {Absent} \cup Snapshot
  /\ lost \subseteq {Absent} \cup Snapshot
  /\ source \in Source

\* What a collection compares with has been reported as a change, as the
\* first baseline or as a reset, or is about to be: a change of the path
\* never becomes the baseline in silence, although watchers overwrite each
\* other's rows and the path changes under them (baseline.go 128-170,
\* 394-411).  The exception is the death of a watcher that has saved the row
\* and not yet reported it: no later collection does (baseline.go 166-169).
accounted == noticed \cup lost \cup UNION {toReport(w) : w \in Watcher}
BaselineWasNoticed == baseline \in {NoBaseline, CorruptBaseline} \cup accounted

\* "failed, oversized, type-mismatched, source-changed, symlink, canceled, or
\* truncated-manifest samples do not overwrite a valid baseline"
\* (docs/file-baseline-reset.md:11): no row is made of a link or of another
\* type than the target's, one that is to be read has been read whole, and
\* Lstat and the contents are of one object.  Of a directory this last is not
\* promised, see SubstitutionIsIncomplete.
Complete(s) ==
  \/ s = Absent
  \/ /\ s.type # "symlink"
     /\ ~targetTypeMismatch(s.type)
     /\ hasContents(s) => s.hash \in (1..MaxWrites) \ TooLarge
ofOneObject(s, from) == from = "same" \/ (s.exists /\ s.type = "directory")
BaselineComplete ==
  baseline \notin {NoBaseline, CorruptBaseline} =>
    Complete(baseline) /\ ofOneObject(baseline, source)

\* "replaced files, type changes, and symlink substitution during collection
\* are treated as incomplete source-change observations"
\* (docs/file-state-collector.md:26), and these do not overwrite a baseline.
\* SnapshotTarget does not keep this of a directory: it is listed by its name
\* after Lstat, and no one looks again at what was listed (baseline.go
\* 234-254).
SubstitutionIsIncomplete ==
  baseline \notin {NoBaseline, CorruptBaseline} => source # "substituted"
=============================================================================
