----------------------------- MODULE AtomicFile -----------------------------
(***************************************************************************)
(* atomicWriteFile (storage/atomic.go) on one path, by several writers:    *)
(* current state and evidence files.                                       *)
(*                                                                         *)
(* What the system shows and what the disk holds are two things.  Data     *)
(* reaches the disk with Sync at the latest, a name with the sync of its   *)
(* directory; until then a power failure may keep either.  The directory   *)
(* of the path has a name, too: ensureDirNoSymlink (storage/path.go) makes *)
(* one that is missing, and nothing ever syncs the parent of that one.     *)
(***************************************************************************)
EXTENDS Integers, FiniteSets

CONSTANTS
  FileWriter,  \* goroutines and processes that write the path
  MaxFiles     \* bound on the files written

ASSUME AtomicAssumption == MaxFiles \in Nat

VARIABLES
  dir,       \* the directory of the path: missing, made by a writer (its name
             \* may be on the disk or not), or kept, which the disk has
  named,     \* the file that the path names
  mayName,   \* files that it may name after a power failure
  contents,  \* of each file: none, some or all of its data
  synced,    \* files whose data is on the disk
  files,     \* files made so far
  rank,      \* history: when a file came to be named, 0 when it did not
  returned,  \* history: files whose write returned nil
  gone,      \* history: those that were lost together with their directory
  fileWriter \* the writers

atomicDisk == <<dir, named, mayName, contents, synced>>
atomicHistory == <<rank, returned, gone>>
atomicVars == <<atomicDisk, files, atomicHistory, fileWriter>>

\* What the path names before any of these writes: a whole file or, always
\* when the directory is missing, nothing.
OldFile == 0
WrittenFile == 0..MaxFiles
IdleFileWriter == [pc |-> "idle", tmp |-> OldFile]

AtomicInit ==
  /\ dir \in {"missing", "kept"}
  /\ named = OldFile
  /\ mayName = {OldFile}
  /\ contents = [f \in WrittenFile |-> IF f = OldFile THEN "all" ELSE "none"]
  /\ synced = {OldFile}
  /\ files = 0
  /\ rank = [f \in WrittenFile |-> 0]
  /\ returned = {}
  /\ gone = {}
  /\ fileWriter = [w \in FileWriter |-> IdleFileWriter]

\* What is missing of the directory is made.
ensureDirNoSymlink == dir' = IF dir = "missing" THEN "made" ELSE dir

\* The checks before it have passed.  O_EXCL gives every writer its own file.
createAtomicTempFile(w) ==
  /\ fileWriter[w].pc = "idle"
  /\ files < MaxFiles
  /\ files' = files + 1
  /\ ensureDirNoSymlink
  /\ fileWriter' = [fileWriter EXCEPT ![w] = [pc |-> "write", tmp |-> files']]
  /\ UNCHANGED <<named, mayName, contents, synced, atomicHistory>>

\* Write is not atomic: it may have got only so far when the system fails.
writeTemp(w) ==
  /\ fileWriter[w].pc = "write"
  /\ LET f == fileWriter[w].tmp
     IN \/ /\ contents[f] = "none"
           /\ contents' = [contents EXCEPT ![f] = "some"]
           /\ UNCHANGED fileWriter
        \/ /\ contents' = [contents EXCEPT ![f] = "all"]
           /\ fileWriter' = [fileWriter EXCEPT ![w].pc = "sync"]
  /\ UNCHANGED <<dir, named, mayName, synced, files, atomicHistory>>

\* Mutated form: the file is closed without a sync.
syncTempCloses(w) ==
  /\ fileWriter[w].pc = "sync"
  /\ fileWriter' = [fileWriter EXCEPT ![w].pc = "rename"]
  /\ UNCHANGED <<atomicDisk, files, atomicHistory>>

\* Sync and Close.
syncTemp(w) ==
  /\ fileWriter[w].pc = "sync"
  /\ synced' = synced \cup {fileWriter[w].tmp}
  /\ fileWriter' = [fileWriter EXCEPT ![w].pc = "rename"]
  /\ UNCHANGED <<dir, named, mayName, contents, files, atomicHistory>>

Rename(w) ==
  /\ fileWriter[w].pc = "rename"
  /\ LET f == fileWriter[w].tmp
     IN /\ named' = f
        /\ mayName' = mayName \cup {f}
        /\ rank' = [rank EXCEPT ![f] =
             1 + Cardinality({g \in WrittenFile : rank[g] > 0})]
  /\ fileWriter' = [fileWriter EXCEPT ![w].pc = "syncDir"]
  /\ UNCHANGED <<dir, contents, synced, files, returned, gone>>

\* Mutated form: the directory is not synced.
syncDirSkips(w) ==
  /\ fileWriter[w].pc = "syncDir"
  /\ returned' = returned \cup {fileWriter[w].tmp}
  /\ fileWriter' = [fileWriter EXCEPT ![w] = IdleFileWriter]
  /\ UNCHANGED <<atomicDisk, files, rank, gone>>

\* The last step of atomicWriteFile, which then returns nil.
syncDir(w) ==
  /\ fileWriter[w].pc = "syncDir"
  /\ mayName' = {named}
  /\ returned' = returned \cup {fileWriter[w].tmp}
  /\ fileWriter' = [fileWriter EXCEPT ![w] = IdleFileWriter]
  /\ UNCHANGED <<dir, named, contents, synced, files, rank, gone>>

\* Any step fails and atomicWriteFile returns the error, or the process dies;
\* the temporary file is removed or stays and is never named.
writeFails(w) ==
  /\ fileWriter[w].pc # "idle"
  /\ fileWriter' = [fileWriter EXCEPT ![w] = IdleFileWriter]
  /\ UNCHANGED <<atomicDisk, files, atomicHistory>>

\* The disk is what is left.  Data that was not synced may be there or not.
directorySurvives ==
  /\ named' \in mayName
  /\ mayName' = {named'}
  /\ IF named' \in synced THEN UNCHANGED contents
     ELSE \E c \in {"none", "some", "all"} :
            contents' = [contents EXCEPT ![named'] = c]
  /\ synced' = synced \cup {named'}
  /\ dir' = IF dir = "made" THEN "kept" ELSE dir
  /\ UNCHANGED gone

\* The name of a directory that a writer made had not reached the disk.
directoryLost ==
  /\ dir = "made"
  /\ dir' = "missing"
  /\ named' = OldFile
  /\ mayName' = {OldFile}
  /\ gone' = gone \cup returned
  /\ UNCHANGED <<contents, synced>>

PowerFailure ==
  /\ directorySurvives \/ directoryLost
  /\ fileWriter' = [w \in FileWriter |-> IdleFileWriter]
  /\ UNCHANGED <<files, rank, returned>>

atomicWriteFile(w) ==
  \/ createAtomicTempFile(w)
  \/ writeTemp(w)
  \/ syncTemp(w)
  \/ Rename(w)
  \/ syncDir(w)
  \/ writeFails(w)

AtomicNext == PowerFailure \/ \E w \in FileWriter : atomicWriteFile(w)

AtomicSpec == AtomicInit /\ [][AtomicNext]_atomicVars

(***************************************************************************)
(* Properties.                                                             *)
(***************************************************************************)
AtomicTypeOK ==
  /\ dir \in {"missing", "made", "kept"}
  /\ named \in WrittenFile
  /\ mayName \subseteq WrittenFile /\ named \in mayName
  /\ contents \in [WrittenFile -> {"none", "some", "all"}]
  /\ synced \subseteq WrittenFile
  /\ files \in 0..MaxFiles
  /\ rank \in [WrittenFile -> 0..MaxFiles]
  /\ returned \subseteq WrittenFile /\ gone \subseteq WrittenFile
  /\ fileWriter \in [FileWriter ->
       [pc : {"idle", "write", "sync", "rename", "syncDir"},
        tmp : WrittenFile]]

\* "This prevents partially written final files" (docs/storage-security.md):
\* the path never shows a part of a file, to a reader at any moment or after
\* a power failure at any moment (atomic.go 38-56).
NeverTorn == contents[named] = "all"

\* What a write that returned nil has written outlives a power failure, or
\* gives way to a later write only (atomic.go 53-60).  It may be lost in one
\* way: with its whole directory, if atomicWriteFile made that one (atomic.go
\* 22, path.go 190) and no power failure has since shown it to be on the disk.
ReturnedIsDurable ==
  \A f \in returned \ gone : \A g \in mayName : rank[g] >= rank[f]
=============================================================================
