------------------------------ MODULE EventLog ------------------------------
(***************************************************************************)
(* The JSONL event file (storage/jsonl.go): one EventWriter, shared by the *)
(* goroutines of a process, that appends one line per event.               *)
(*                                                                         *)
(* A line reaches the file in two parts, since a write may be cut short by *)
(* a full disk, by the end of the process or by a power failure; the       *)
(* newline is in the second one.  After a process has died another one     *)
(* opens the file and appends to what it finds.  Opening makes the file,   *)
(* and its directory, when it is not there; no directory is synced, so the *)
(* name of a new file reaches the disk when the system chooses.            *)
(***************************************************************************)
EXTENDS Integers, Sequences

CONSTANTS
  Appender,    \* goroutines that write events
  MaxEvents,   \* bound on the events
  SyncOnWrite  \* EventWriterOptions.SyncOnWrite

ASSUME LogAssumption ==
  MaxEvents \in Nat /\ SyncOnWrite \in BOOLEAN /\ "none" \notin Appender

VARIABLES
  eventFile, \* the name of the file: missing, made by a writer (it may be on
             \* the disk or not), or kept, which the disk has
  log,       \* the file: parts of lines, in order
  durable,   \* how many of them the disk holds
  closed,    \* EventWriter.closed; TRUE while no writer is open
  mu,        \* the goroutine that holds the mutex, or NoHolder
  appender,  \* the goroutines
  events,    \* events begun so far
  acknowledged, \* history: the events whose Write returned nil
  goneEvents    \* history: those of them that were lost with the whole file

logHistory == <<acknowledged, goneEvents>>
logVars == <<eventFile, log, durable, closed, mu, appender, events, logHistory>>

NoHolder == "none"
Event == 1..MaxEvents
IdleAppender == [pc |-> "idle", event |-> 0]

LogInit ==
  /\ eventFile \in {"missing", "kept"}
  /\ log = <<>>
  /\ durable = 0
  /\ closed = TRUE
  /\ mu = NoHolder
  /\ appender = [a \in Appender |-> IdleAppender]
  /\ events = 0
  /\ acknowledged = {}
  /\ goneEvents = {}

step(a, pc) == appender' = [appender EXCEPT ![a].pc = pc]

\* openRegularNoFollow with O_CREATE, after ensureDirNoSymlink.
OpenEventWriter ==
  /\ closed
  /\ \A a \in Appender : appender[a].pc = "idle"
  /\ closed' = FALSE
  /\ eventFile' = IF eventFile = "missing" THEN "made" ELSE eventFile
  /\ UNCHANGED <<log, durable, mu, appender, events, logHistory>>

\* An event is encoded; one that is too long is refused here, before anything
\* of it is written.
encodeEvent(a) ==
  /\ appender[a].pc = "idle"
  /\ events < MaxEvents
  /\ events' = events + 1
  /\ appender' = [appender EXCEPT ![a] = [pc |-> "lock", event |-> events']]
  /\ UNCHANGED <<eventFile, log, durable, closed, mu, logHistory>>

\* Mutated form: the mutex is not taken.
lockWriterNever(a) ==
  /\ appender[a].pc = "lock"
  /\ step(a, IF closed THEN "idle" ELSE "first")
  /\ UNCHANGED <<eventFile, log, durable, closed, mu, events, logHistory>>

\* The mutex is taken; a closed writer, or a context that is done, refuses.
lockWriter(a) ==
  /\ appender[a].pc = "lock"
  /\ mu = NoHolder
  /\ \/ /\ ~closed
        /\ mu' = a
        /\ step(a, "first")
     \/ /\ step(a, "idle")
        /\ UNCHANGED mu
  /\ UNCHANGED <<eventFile, log, durable, closed, events, logHistory>>

appendPart(a) ==
  /\ \/ appender[a].pc = "first" /\ step(a, "second")
     \/ appender[a].pc = "second" /\ step(a, "sync")
  /\ log' = Append(log, [event |-> appender[a].event, part |-> appender[a].pc])
  /\ UNCHANGED <<eventFile, durable, closed, mu, events, logHistory>>

unlock(a) == mu' = IF mu = a THEN NoHolder ELSE mu

\* Write returns nil.
syncEvent(a) ==
  /\ appender[a].pc = "sync"
  /\ durable' = IF SyncOnWrite THEN Len(log) ELSE durable
  /\ acknowledged' = acknowledged \cup {appender[a].event}
  /\ step(a, "idle")
  /\ unlock(a)
  /\ UNCHANGED <<eventFile, log, closed, events, goneEvents>>

\* The write is cut short or the sync fails; Write returns the error.
WriteFails(a) ==
  /\ appender[a].pc \in {"first", "second", "sync"}
  /\ step(a, "idle")
  /\ unlock(a)
  /\ UNCHANGED <<eventFile, log, durable, closed, events, logHistory>>

CloseWriter ==
  /\ ~closed
  /\ mu = NoHolder
  /\ closed' = TRUE
  /\ UNCHANGED <<eventFile, log, durable, mu, appender, events, logHistory>>

\* The power fails and the disk keeps what was synced and some of what was
\* not.
fileSurvives ==
  /\ \E n \in durable..Len(log) :
       /\ log' = SubSeq(log, 1, n)
       /\ durable' = n
  /\ eventFile' = IF eventFile = "made" THEN "kept" ELSE eventFile
  /\ UNCHANGED goneEvents

\* The power fails before the name of a new file is on the disk.
fileLost ==
  /\ eventFile = "made"
  /\ eventFile' = "missing"
  /\ log' = <<>>
  /\ durable' = 0
  /\ goneEvents' = goneEvents \cup acknowledged

\* The process dies, or the system does.
LogCrash ==
  /\ \/ UNCHANGED <<eventFile, log, durable, goneEvents>>
     \/ fileSurvives
     \/ fileLost
  /\ closed' = TRUE
  /\ mu' = NoHolder
  /\ appender' = [a \in Appender |-> IdleAppender]
  /\ UNCHANGED <<events, acknowledged>>

LogNext ==
  \/ OpenEventWriter \/ CloseWriter \/ LogCrash
  \/ \E a \in Appender :
       \/ encodeEvent(a) \/ lockWriter(a) \/ appendPart(a) \/ syncEvent(a)
       \/ WriteFails(a)

LogSpec == LogInit /\ [][LogNext]_logVars
-----------------------------------------------------------------------------
\* The types of the file, of the writer and of its goroutines.
LogTypeOK ==
  /\ eventFile \in {"missing", "made", "kept"}
  /\ log \in Seq([event : Event, part : {"first", "second"}])
  /\ durable \in 0..Len(log)
  /\ closed \in BOOLEAN
  /\ mu \in Appender \cup {NoHolder}
  /\ appender \in [Appender ->
       [pc : {"idle", "lock", "first", "second", "sync"}, event : 0..MaxEvents]]
  /\ events \in 0..MaxEvents
  /\ acknowledged \subseteq Event /\ goneEvents \subseteq Event

\* "JSONL event writes are serialized in-process" (docs/storage-security.md:17).
\* "No ambiguous partial event is written" is said there of oversized events
\* only; of the others: an event whose Write returned nil is one unbroken
\* line after any failures and deaths of the process, and after a power
\* failure too, as every write is synced, unless that failure takes the whole
\* file, whose name nothing has synced (jsonl.go 39-42, 63-92).  It begins a
\* line, too, unless the event before it was never acknowledged: what is left
\* of a line that was cut short is not removed, and the next one goes on it.
WrittenIsOneLine ==
  \A e \in acknowledged \ goneEvents :
    \E i \in 1..Len(log) - 1 :
      /\ log[i] = [event |-> e, part |-> "first"]
      /\ log[i + 1] = [event |-> e, part |-> "second"]
      /\ i > 1 => \/ log[i - 1].part = "second"
                  \/ log[i - 1].event \notin acknowledged
=============================================================================
