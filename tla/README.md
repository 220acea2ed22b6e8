# pooly-sentinel in TLA+

Formal models of pooly-sentinel, the monitoring agent in `src/`, with TLC runs on
small instances and TLAPS proofs for all instances. Every definition that models
code is listed with its source lines in `PROJECT.json` under `map`.

## 1. The system

`pooly-agent run` is one process with a handful of goroutines on one SQLite
database. Each scheduler cycle collects observations, evaluates rules over them,
moves incidents, and delivers notifications about the incidents that moved. Other
invocations of the same binary (`scheduler run-once --persist`,
`notifications send`, `collectors run --persist`) do parts of that on the same
database, concurrently.

| Component | State | Operations | Interaction | What is hard |
|---|---|---|---|---|
| rule conditions (`rules/condition.go`) | none | match a rule to samples, worst level reached, data status | called by the rule engine | missing, stale, unsupported data; "any" targets |
| rule engine (`rules/engine.go`) | a memory row per rule and target: state, severity, two timestamps, pending severity | `Evaluate`: one transaction per rule and target | hands a candidate to the incident engine in the same transaction; returns transitions to the scheduler | debounce and recovery over many samples; aborts; two processes |
| incident engine (`incidents/`) | an incident row per fingerprint | `Apply`: open, update, escalate, reopen, resolve | row read and written in the caller's transaction | rows are reused for ever; fingerprints may be shared or rejected |
| scheduler (`agent/scheduler.go`) | status record, cycle mutex, stored status | `Start`, `loop`, `RunOnce`, `Stop` | calls collector, rules, notifier, status store | `finishCycle` works on a copy; `Stop` races it; stages fail |
| notification delivery (`notify/`) | delivery rows, `last_alerted` | `DeliverTransitions`, `DeliverIncident` | reads incidents, posts to receivers, records attempts | read-post-record is not atomic; crashes; ended contexts |
| agent lifecycle (`agent/lifecycle.go`) | where startup and shutdown are | `RunInfrastructure` | starts and stops everything in order | timeouts of every wait; a signal at any moment |
| API server (`api/`) | listener, readiness, serve error | `Start`, `Shutdown`, `SetReady`, handlers | reads the store | serve errors; requests during shutdown |
| systemd notifier (`systemdnotify/`) | none | `READY`, `WATCHDOG`, `STOPPING` | its own goroutine for the watchdog | a late watchdog message |
| journal collector (`collectors/journal/`) | a cursor row per stream | `Collect`: load, run journalctl, save | reads journald through the command runner | journald grows and is vacuumed meanwhile; cursors are overwritten, refused, damaged |
| file watch collector (`collectors/filewatch/`) | a baseline row per target | `Collect`: Lstat, read, load, compare, save | reads the file system | the path changes between the steps |
| resource collectors (`collectors/resources/`) | a row of counters each for network, disk, processor, uptime | one `Collect` each | read `/proc` and `/sys` | counters restart, devices come and go, days change |
| systemd, ssh collectors | none | one `Collect` each | run systemctl, sshd and ss through the command runner | the host changes between commands; output loses its end |
| command runner (`command/`) | one process and two readers | `Run` | used by collectors | timeout, output limit, pipes closed by `Wait` |
| storage (`storage/`) | SQLite, evidence files, JSONL | repositories, transactions, migrations, atomic files, event log | used by all | two processes migrating; crash between rename and sync; half a line |
| configuration (`config/`, `rules/config.go`, `notify/config.go`) | none | defaults, checks, conversion | read once by every command | what passes the checks and does not work |
| command line (`cmd/pooly-agent/`) | which store is open, a temporary directory | the commands and their switches | opens the store, calls everything else | a dry run must leave no trace |
| redaction, logging, reports | none of their own | rendering | | |

What makes each part correct, in one line each:

- rules: an incident opens only on a condition that held for `For`, resolves only
  after `RecoverFor` of health, and a rule that holds a severity has its incident open;
- incidents: rows move only along open / change severity / resolve / reopen, and
  every change is reported;
- scheduler: cycles do not overlap, counters are exact, a success is a stored
  success, nothing runs after `Stop` returned nil;
- delivery: attempts are numbered without gaps, at most one is a success,
  `last_alerted` is backed by a row, every delivery round ends;
- lifecycle: ready after the first cycle, store closed last, `STOPPING` the last
  word, and a signal always ends the run;
- collectors: what a stored row passes over has been reported, what it replaces was
  complete, a total counts no traffic that did not happen, a reboot is reported, and
  an observation claims what was the case while its commands ran;
- a cycle as a whole: what it lost, of records or of changes, it was counted as failed for;
- command runner: a command ends, whatever its child does, and its error class says how;
- storage: the schema is what is recorded, a file is whole and, once written, stays,
  an acknowledged event is one line;
- configuration: what is accepted is what the rule engine, the delivery, the scheduler,
  the server and the collectors assume;
- command line: a call leaves behind only what its arguments asked for.

`PROJECT.json` lists under `hazards` the places in the code where this could go
wrong without a test noticing, and which property would notice.

## 2. Modules

| Module | Models | Extends / instantiates |
|---|---|---|
| `IncidentEngine` | `Apply` and its branches as operators on a row | |
| `IncidentLifecycle` | abstract: what an incident row may ever do | `IncidentEngine` |
| `RuleConditions` | the rule record; matching, thresholds, data status as operators | `IncidentEngine` |
| `RuleEngine` | the rule engine as a state machine | `RuleConditions`; `IncidentLifecycle` for the refinement |
| `RuleEngineProofs` | theorems | `RuleEngine` |
| `NotifyDelivery` | delivery by several processes | `IncidentEngine` |
| `NotifyDeliveryProofs` | theorems | `NotifyDelivery` |
| `Scheduler` | the scheduler's goroutines and status | |
| `SchedulerProofs` | theorems | `Scheduler` |
| `AgentRun` | `RunInfrastructure`, API, watchdog, store | `Scheduler` as an instance sharing its variables |
| `AgentRunProofs` | theorems | `AgentRun`; `SchedulerProofs` as an instance |
| `JournalCursor` | one stream of the journal collector, its cursor, journald | |
| `FileBaseline` | one watched path, its baseline, the watchers | |
| `CounterState` | counter differences and daily totals as operators | |
| `DeviceCounters` | network and disk collectors, their rows, the devices | `CounterState` |
| `CpuTime` | processor collector, its row, the kernel's ticks | `CounterState` |
| `BootIdentity` | uptime collector, its row, the boots of the machine | |
| `HostProbes` | systemd and ssh collectors, and the host they look at | |
| `HostProofs` | theorems | `MCHost` (and through it `HostProbes`, `CommandRunner`, `CommandLine`, `AgentConfig`), `StorageProofs` |
| `MonitoringCycle` | a cycle from end to end: cursor, rules, notifications, status | `IncidentEngine`; `RuleEngine` as an instance sharing its variables |
| `CollectorProofs` | theorems | `JournalCursor`, `FileBaseline`, `DeviceCounters`, `CpuTime`, `BootIdentity` |
| `CycleProofs` | theorems | `MCCollectors` (and through it `MonitoringCycle`), `CollectorProofs`; `RuleEngineProofs` as an instance |
| `CommandRunner` | one call of `command.Run`, its child and its copying goroutines | |
| `Migrations` | `storage.Open` on one database by several processes | |
| `AtomicFile` | `atomicWriteFile` on one path by several writers, and the disk | |
| `EventLog` | the JSONL writer, its goroutines, the file and the disk | |
| `StorageProofs` | theorems | `Migrations`, `AtomicFile`, `EventLog` |
| `ServiceConfig` | defaults, checks and conversion of the other sections, as operators | |
| `AgentConfig` | checks and conversion of rules and receivers, the start of an agent | `RuleConditions`, `ServiceConfig` |
| `CommandLine` | one call of the program: arguments, stores, what is written and posted | |
| `MC*` | the instances that TLC checks | |

### RuleEngine

`memory` is table `rule_evaluation_state`, `incidents` table `incidents`, `eval`
the evaluations in progress (one per process), `now` the wall clock. `Evaluate`
fixes the clock reading, the observations and the rule/target pairs to visit;
`evaluateRuleTarget` is one committed transaction; `AbortEvaluate` is every way an
evaluation ends early, with the transaction of that moment rolled back;
`FinishEvaluate` returns. `run` is a history variable, the verdicts of the current
uninterrupted run per pair and the clock reading of the first of them; properties
about durations are stated against it, not against the timestamps the code keeps.

The clock never goes back. Durations are whole ticks. Targets are derived from
labels before the model starts. A fingerprint is the triple of collector, target and
metric or category, except that the text which the code makes of these (lower case,
joined with colons) may be that of another triple: `SameText` names those. Memory rows
keep the target as it is, so two targets that differ in case have two memories and one
incident.

### NotifyDelivery

`rows` is table `notification_deliveries`, `alerted` the column `last_alerted`,
`proc` a program counter per process. A `Cycler` runs scheduler cycles, in which
`ApplyCandidate` stands for a rule's committed transaction, a `Sender` runs
`notifications send`. `NextReceiver` reads the earlier attempts, `Deliver` is the
receiver's answer, `Record` the transaction; other processes step in between.
`ContextDone` ends a cycle's context, after which posts and transactions fail;
`Crash` loses a process and everything it had not committed. The delivery key is
the record of the fields that the code hashes.

### Scheduler and AgentRun

A goroutine inside `RunOnce` is a thread with a program counter; `finishCycle` is
three steps (copy, save, write) since it releases the mutex between them. Stage
bodies are reduced to their outcomes, success or an error of whatever class. The
program itself never has two callers of `RunOnce`; the model has, since the method
is exported and refuses overlap. A refused call finishes outside the cycle mutex, and
the properties about the counters say so. `AgentRun` shares the scheduler's variables through
`Sch == INSTANCE Scheduler` and adds the main goroutine, one request, the serve
loop, the watchdog and the store. `late` records which waits ended by timeout.

### MonitoringCycle

The stages of a cycle become durable one by one: the cursor when the collector
returns, each rule's transaction when it commits, the notifications when a receiver
has answered, the status last. The rule engine is `RuleEngine`, step by step, as
`Engine == INSTANCE RuleEngine`; a collection and the delivery of one transition are a
step each, since `JournalCursor` and `NotifyDelivery` have theirs. The context may
end, and the process die, between any two steps. `evaluated`, `owed` and `excused` are
history: which record was put before which rule, which committed changes are not yet
settled, and what failed cycles and dead processes account for. A change is owed by
the process that committed it; another process that finds the incident open reports
it as updated, which the notifier passes over. `ClockTicks` is the wall clock of the rule
engine, which moves between any two steps.

### JournalCursor, FileBaseline, DeviceCounters, CpuTime, BootIdentity

Each is one row of table `collector_state`, the processes that collect into it, and
the world they look at. A collection is as many steps as it makes calls to the
outside: load, look, save; whatever happens in between happens to a real one too.
Any failure in between (`collectFails`, `watchFails`, `sampleFails`, `cpuFails`)
leaves the row as it is.

- Journal entries are numbered in the order written; journald keeps those from
  `head` to `tail`. A cursor whose entry was vacuumed may be refused
  (`cursorInvalidated`) or taken as "from the next entry" (`replay`); the code
  handles both. `collected`, `baselined` and `resetted` are history: what the
  observations have said about the entries. `overtaken` and `raced` mark a save over
  a row that the process had not loaded.
- journalctl's output may be cut anywhere, its first line included: `command.Run`
  may lose the end of it (see `CommandRunner`). What is read has no gap.
- A watched path holds an object (an inode) with a mode, an owner, contents, and what
  `Lstat` tells of the contents (`meta`: the size and the second of modification).
  Contents carry the number of the write that made them; `meta` may be that of an earlier
  write, as a second one within the second may leave both. `Lstat` does not keep the
  setuid, setgid and sticky bits (`SpecialBits`). The save of the row and the report are two
  steps; `lost` are the snapshots whose watcher died between them, which nothing reports
  any more. `source` is history: whether the contents in the row were read from the
  object that `Lstat` saw, or from one that had taken its place. A private key's path,
  which is not hashed, is left out.
- One counter stands for received and sent, or read and written, bytes. `moved` is
  history, what the device has moved in all; it does not restart.
- Two processes sample the network and disk counters. The slower one may compare its
  older counters with a newer row (`overtaken`), which looks like a restart of the
  counters, and puts the older counters back, so that what moved in between is counted
  again. A row and a sample carry, as history, when they were taken.
- Boots are numbered. A boot ends every process and leaves the row; a row that cannot be
  decoded is never replaced. `unreported` are the boots whose reader ended between the
  save and the report.
- The classes that `CPUStat.Busy` only adds are one counter. Guest time is left out,
  as it is in the code.

### CommandRunner, HostProbes, Migrations, AtomicFile, EventLog, AgentConfig, CommandLine

- `CommandRunner` counts output in chunks. The child may write, fork a descendant
  (`heir`) that keeps the pipes and may leave the process group, end, or do nothing
  for ever. `Wait` returns when the child has ended and closes the pipes, also the
  ones that `copyStream` has not read to the end: what is in them is lost and the
  result may still be a success.
- `HostProbes` has the units, listening ports and sshd settings of a host that changes
  at any time, and one collection after the other: a `systemctl show` per unit, an
  `sshd -T` per profile, one `ss`. Four things are kept apart: what is the case
  (`truth`, from the condition a unit is in), what the command prints of it (`shown`), what
  is left of that (`readableUnit`, `readableList`) and what the code makes of it (`parses`,
  `stateMetrics`, the directives and ports found). A command fails, or succeeds
  with its output whole, ended after a line, or ended amid one (`Ending`), as `CommandRunner`
  shows it may. Then a port that listens may be told as not listening, a failed unit as
  not failed, and a port or a value that was cut may read as another one. `assured` says
  which claims survive which loss. In the code a unit whose output lacks one of three
  properties is refused: that is what keeps its other states right.
- `Migrations` has SQLite as one writer at a time, whose statements take effect when
  its transaction commits. The list of migrations to apply is read before the
  first of those transactions. Versions in `Strict` alter a table, which fails when
  it was done already; the others create what does not exist. Programs of different
  versions open the same file.
- `AtomicFile` keeps apart what the system shows (`named`, `contents`) and what the
  disk holds (`mayName`, `synced`). `PowerFailure` leaves any of what the disk may hold.
  The directory of the path is such a name, too: `atomicWriteFile` makes it when it is
  missing, and syncs the directory but never its parent. A power failure may take
  a directory that was `made`, with all in it (`gone`); one that it has left is `kept`.
- `EventLog` writes a line in two parts, the second with the newline, so that a full
  disk or a crash may leave half of it. A death of the process keeps what was written, a
  power failure any of what was not synced. The half line stays, and the next event
  goes on it: `WrittenIsOneLine` says how far that reaches. `OpenEventWriter` makes a file that
  is missing and syncs no directory, so a power failure may take the whole file
  (`eventFile`, `goneEvents`), its synced lines included.
- `ServiceConfig` merges the file over the defaults and checks the parts of it that
  relate values to each other: the cycle's timeout and the interval, the two keys for
  the server's address, names and paths of watched files, units. Rows of watched files
  are named after `safeName`, which cuts a long name after the check has compared it.
- `CommandLine` reads arguments one at a time, as the parsers do, so command lines have
  any length. A flag takes the next argument as its value whatever it looks like. Then
  come the stages that a command has in common with the others: load, open, collect,
  evaluate, notify, status, close, each with its failures. `asked` is what a reader
  makes of the line: its last switch. A temporary store outlives only a kill (an error
  of `os.RemoveAll` is left out).
- `AgentConfig` chooses a configuration file at the start. `RunAgent` is everything
  from `LoadFile` to the services. Numbers that are not numbers have the kind "nan",
  which compares as false. A list beside a boolean operator passes the checks and is
  refused by the conversion; a variable that is set to nothing passes where an unset
  one does not; a filter may name `reopened`, an event that no transition has.

## 3. Runs

Passing runs:

| Run | Shows | Bounds |
|---|---|---|
| `rules` | `MemoryTellsRun`, `SeverityHasOpenIncident`, `OpensWhenSustained`, `ResolvesWhenRecovered`, `ChangeIsReported`, and the rows implement `IncidentLifecycle`, with the agent and a run-once command on a processor rule, or an evaluator on a rule for any mount | the processor: two evaluators, which are interchangeable (symmetry), two levels with `For` 1, missing data a warning; the mounts: one evaluator at a time, three levels with `For` 0, 1 and 2, two mounts of which one has a name no fingerprint may hold, stale and unsupported data; a behaviour moves one of the two. Clock to 3: long enough to open, recover, reopen, and be interrupted by the other evaluator's older reading. `SameText` is empty: which results need no distinct fingerprints is proved, not run |
| `scheduler` | `NoOverlap`, `CountersExact`, `SuccessIsStored`, `QuietAfterStop`, `CancelEndsLoop` | three calls of `RunOnce` by three goroutines: one on start, one of the loop, one of a further caller, in any order |
| `notify` | `AttemptsAccounted`, `DeliveredOnce`, `AlertedBacked`, `DeliveryEnds` | agent, a sender and a dry run, a disabled and a filtering receiver, one incident, two transitions, three starts: two processes in the same attempt and a third after it |
| `agent` | `StoreClosedLast`, `ReadyAfterFirstCycle`, `StoppingIsLast`, `SignalEndsRun` | all parts on, two cycles: the first on start, one of the loop that the shutdown may meet |
| `collectors` | `NoSilentSkip`, `CollectedOnceUnlessRaced`, `BaselineWasNoticed`, `BaselineComplete`, `DailyWithinTrafficUnlessOvertaken`, `RebootReported`, `LossIsReported` | two processes in each part; four entries with a limit of two, so that output is truncated; three writes, changes or damages of the baseline, the second write too large, one special bit; two reboots or removals, two bytes, two days, one interface and no disk (both have the same code; with no device left the disk's row is still written); three boots; two records, two rules (one on a number with `RecoverFor` 1, one on an event), a clock to 1 and three cycles: one that loses, one that comes after it, beside the other process. The rows are independent: a behaviour moves one part, chosen at the start. Readers are interchangeable, and so are the special bits (symmetry; no liveness is checked here) |
| `host` | `SchemaAsRecorded`, `OpenedIsCurrent`, `NeverTorn`, `ReturnedIsDurable`, `StartedAsAssumed`, `ClaimsWereTrue`, `WrittenIsOneLine`, `UnaskedLeavesNothing`, `ResultIsTrue`, `CommandEnds` | limit and pipe of two chunks, output of four: over the limit with a pipe that fills again; programs of versions 2 and 3, the last one strict, two statements each, two opens each: a failure, and a second attempt beside the other program; two writers and three files, in a directory that is there or is missing: one overtakes the other and a third follows; three events of two goroutines, on a file that is there or is missing: a half line between two others; two units, ports and profiles, three values (one of which may read as another when cut, as may one port), on a host that begins as it should be but for one of the three, a change during one collection; one file, one name, and every command, family and sequence of arguments; one good rule, receiver and section with each field, or the fields that depend on each other, varied, limits of two. The parts are independent: a behaviour moves one of them, chosen at the start |

`TypeOK` is checked once per module, except for `AgentRun`, where `AgentTypes` proves it. Clock, cycle and start bounds cut behaviours
off at the end, and a command returns once, so the scheduler, delivery, agent,
collector and host runs do not check for deadlock; the rule engine runs do, an evaluation can always go on.

Each property has a mutant: an operator next to the definition it replaces, marked
"Mutated form", that changes it the way a slip in the code would.

Runs that TLC must refute, each a place where the documents and the code disagree
(`findings` in `PROJECT.json` quotes both):

| Run | What happens |
|---|---|
| `rules_orphan` | WARN, then PENDING_FAIL, then a healthy sample: the rule is OK, its incident stays open |
| `rules_escalate` | FAIL, WARN, FAIL: the second failure skips its debounce |
| `file_replaced` | a directory is replaced by a link between `Lstat` and the listing: the listing becomes part of a complete baseline |
| `notify_repeat` | an accepted notification is posted again after a restart |
| `agent_serve` | a server that failed during startup is marked ready |
| `cpu_reboot` | a reboot that lowers only the idle counter is not noticed; the used ratio exceeds one |

Smaller disagreements that the models contain but no run states are noted under
`hazards`: two rules or targets that share an incident, the status that `finishCycle` writes
back over `Stop`'s, attempts whose context ended during the post, a backlog above the
record limit that is never read, a first run on an empty stream that stores no
cursor (the next one's baseline passes over what was written since), the output that
a successful command may lose, configurations that pass the checks and are then
inert or refused, an incident of a rule on events, which never recovers, and
traffic that is counted twice when a slower sampler overwrites a newer row.

### Fairness

- `Scheduler`: each step of a `RunOnce` call is weakly fair, since every stage runs
  under the cycle's deadline and the store returns. `LoopExit` is strongly fair:
  the select chooses at random between a tick and the ended context. Ticks, calls
  and signals are not fair.
- `NotifyDelivery`: each process that is not killed takes its next step (receivers
  have timeouts), or fails where it has to: its context has ended, or its row
  exists. A failure that might have been a success is not forced.
- `AgentRun`: the main goroutine is weakly fair, as each of its waits has a
  timeout; so are the scheduler's steps. The watchdog, requests and the loop are
  not: `SignalEndsRun` holds although they may hang.
- `CommandRunner`: the caller, the copying goroutines, the timer and the kill are
  weakly fair. The child and its descendant owe nothing.

## 4. Proofs

`RuleEngineProofs`, for any rules, targets, observations and number of evaluators:

- `TypeCorrect`, `MemoryCorrect`, `IncidentCorrect` (no run checks the last one, nor
  the shape of a row that `MemoryCorrect` adds to `MemoryTellsRun`). The inductive invariant is
  `RowsInv`: types, the shape of each memory row, and `MemoryTellsRun`, which ties
  the timestamps of a row to the history of verdicts. The last part is what makes
  the duration theorems possible: the row alone does not say that its run was
  uninterrupted.
- `SeverityCoupled`, assuming `DistinctFingerprints`: two rules on one series, or two targets of a
  rule for any target whose names differ in case only, share an incident, and one resolves
  it under the other; neither the configuration's checks nor the fingerprint prevent it.
  `CouplingInv` adds that a row with a severity has an open incident.
- `OpeningSustained` (same assumption) and `ResolutionDeserved`: action properties.
  A changed row is some pair's transaction (`IncidentStep`), whose decision raised or
  cleared; the invariant turns its timestamp into the run's beginning.
- `EveryChangeReported`, an action property: what `Apply` says it did is what it did to
  the row (`AppliedAction`), and a transaction hands on what `Apply` says.
- `RefinesLifecycle`: every step maps to a step of `IncidentLifecycle` or a stutter.
- `EndsRestOnEvidence`: an incident ends only on a healthy sample of its own target, in a
  collection whose status for the rule is clean (`EndsOnEvidence`). Only the verdict
  "none" clears (`OnlyHealthClears`), and that verdict comes from samples
  (`HealthIsSeen`). So a target that disappears, or whose collector fails for ever, keeps its
  incident; and, with what a rule on events selects, `EventsNeverResolve`: the incident
  of such a rule stays open for ever.
- `OrphansComeFromPending` and `OneLevelNoOrphans`: the other side of the finding
  `rules_orphan`. With incidents of their own, a rule gives up its severity without
  resolving the incident only out of a pending state on top of that severity; and rules that
  ask for one level only cannot get there, so that their incidents are open exactly as
  long as they hold a severity (`OpenIffHeld`, from the invariant `OneLevelInv`).

`NotifyDeliveryProofs`, for any number of processes, receivers and incidents:

- `DeliveryTypeCorrect`, `AttemptsCorrect`, `DeliveryUnique`, `AlertedCorrect`. A
  process carries a number it read long ago. The invariant says that the attempts
  of each key are exactly 1 to some n, and that the number a process carries
  follows only failed ones (`AttemptFollowsFailures`): so when its insert succeeds
  its number is n + 1 and nothing before it was a success. No run checks
  `AttemptFollowsFailures` by itself; it is there for the proof.
- `DeliveriesGetOn`, an action property: every step of a delivery takes a transition off
  the queue, passes on to a later receiver, takes an attempt further, or ends it
  (`nearer`). This is the part of `DeliveryEnds` that needs no fairness: what is left of a
  cycle after its evaluation is bounded by its transitions and receivers.

`CollectorProofs`, for any number of processes, entries, limits, changes and boots:

- `CursorAccounted`. A reader may save a cursor long after it loaded the old one.
  The invariant (`SkipInv`) says that everything behind the cursor it loaded is
  accounted for, and that its batch closes the gap between that cursor and the one
  it will save: journalctl's output may be cut at its end, but what is read follows
  on the cursor and leaves out only what was vacuumed. Accounts only grow, so it does not
  matter what the row has become meanwhile.
- `CollectedAtMostOnce`. Unless a cursor was saved over one its reader had not loaded,
  all that was collected lies behind the row's cursor (`CollectedBefore`), and a reader
  that nobody has overtaken still carries that cursor, so its batch begins after it
  (`Ahead`). A damaged row forgets the cursor; the baseline that replaces it is taken at
  the end of the journal.
- `BaselineNoticed`. A snapshot on its way to the store as "unchanged" equals the
  baseline it was compared with (`UnchangedIsEqual`), which had been reported, is in the
  hands of a watcher that will report it, or was lost with one that died on the way;
  none of that is taken back.
- `BaselineAlwaysComplete`: from what Lstat and the read have established about the
  snapshot a watcher carries (`WatcherComplete`). The contents of a file are of the object
  that Lstat saw; of a directory that does not hold, as run `file_replaced` shows, and the theorem
  does not say it.
- `DailyTotalsAreTraffic`. Rows, loaded rows and samples are readings taken at
  different times of counters that start again. The invariant (`DailyInv`) compares any
  two of them (`Agree`): within a boot they differ by the traffic between them, and
  across a boot by no more. So a sampler that is not behind its row adds no more than
  the traffic, whatever happened to the device between.
- `BatchesBounded`, `BacklogHeldUntilLoss`: no observation holds more records than the limit,
  so a reader gets on from a longer backlog only where the end of journalctl's output
  was lost. A reader that sees all of it leaves the cursor, every time.
- `RebootsReported`. A reader saves a boot and reports it in two steps, and compares
  with a row that another may have replaced meanwhile. The invariant (`BootInv`) says
  that the row, and every row a reader still compares with, is a boot that was a
  baseline, was reported, was lost with its reader, or is in the hands of one that will
  report it (`accountedFor`), and that some baseline is not newer: so what is reported
  is newer than a baseline, and two readers that pass each other lose nothing.
- `OverOneOnlyIfIdleFell`, `ShareUntilReboot`: the other side of the finding `cpu_reboot`. A
  used ratio above one comes only from an idle counter below the row's, the one counter that
  is not compared; until the first reboot there is none, since row, sample and counter are
  in order (`IdleOrdered`).
- `JournalTypes`, `FileTypes`, `CounterTypes`, `BootTypes`, `CpuTypes`.

`HostProofs`, for any number of units, profiles and ports:

- `ClaimsAreTrue`. Between two calls of `sshd` the host changes. The invariant
  (`ProfilesWereTrue`) says of each profile asked so far that it was so on one of the
  hosts seen, as far as the answers were whole. Under it are lemmas on the parsers, for every
  condition of a unit and every loss: what is left of the values in the output
  (`ValuesRead`), and what follows for the facts claimed (`UnitRight`, `PortsRight`,
  `ProfileRight`).
- `ResultsAreTrue`, for any limit, pipe and output. A reader's buffer and its pipe hold
  together what was written, until it exceeds the limit or `Wait` closes the pipe
  (`ReaderHas`); nothing but an exceeded limit cancels a run from inside, and an error of
  `Wait` has one of the causes that the class may name (`Ended`).
- `NothingUnasked`, for any file names and arguments. A switch may be swallowed as the
  value of another flag. The invariant (`LineInv`) follows it: then some file name is not
  the name of a file (`LineRead`), which `LoadFile` notices before a store is opened
  (`Loaded`), unless a second value has taken its place; and the configured store is open
  for a cycle only if the line is to act (`StoreChosen`).
- `StartsAsAssumed`, for any configuration files of the schema's types: a chain of lemmas
  on the conversions (`ValueConverted`, `ThresholdConverted`, `RuleConverted`,
  `FilterConverted`, `ReceiversConverted`, `SectionsConverted`), each from what
  the checks have let pass to what the rule engine, the delivery and the services assume.
- `ProbeTypes`, `LineTypes`, `ConfigTypes`, `CommandTypes`; and, since the parts in `MCHost` share
  no variable (`HostRunsParts`), `HostTyped`: all of them side by side.

`SchedulerProofs`, for any callers of `RunOnce` and any number of cycles:

- `SchedulerTypes`, `CyclesDoNotOverlap`, `NoCountLost`, `StoredSuccess`. The invariant
  (`SchedulerInv`) says that whoever is in a stage, or finishes without having been
  refused, has the cycle mutex (`LetInHolds`), so that the copy `finishCycle` took is
  still current in everything but what `Start` and `Stop` write (`BaseIsCurrent`).
- `StopIsQuiet`, an action property: `Stop` returned nil only when the loop was done
  (`LoopInv`), so all that is left to move are other callers.

`AgentRunProofs`, for any choice of the agent's parts:

- `AgentRunsScheduler`: each step of the agent is a step of `Scheduler` or leaves its
  variables alone, so that the theorems above hold in the agent. The proofs take their
  scheduler facts from it, through `SP == INSTANCE SchedulerProofs`.
- `AgentTypes`, `ClosedLast`, `ReadyAfterStart` and the action property
  `NothingAfterStopping`. The invariant (`AgentInv`) says, for each place of the main
  goroutine, what it has waited for or has given up on (`MainKnows`,
  `ReadinessFollows`, `RequestsFollow`, `WatchdogFollows`), and that a cycle on start
  leaves its trace (`CycleOnStart`).

`CycleProofs`, for any processes, records and rules on the stream:

- `NothingLostUnreported`. The invariant (`CycleInv`) says at every stage of a cycle
  where the records and the changes that it has in hand are (`InHand`): in the batch with
  pairs still to visit, in the transitions of the evaluation, in the notifier's queue, or
  given up, in which case the cycle already knows that it fails. It uses only that an
  evaluation reports what it changes, for which the incident engine's branches are cases.
- `CycleRunsEngine`: each step of a cycle is a step of `RuleEngine` or leaves its variables
  alone. What is proved of the engine therefore holds in every cycle, wherever it fails
  or dies: `RowsSoundInCycles`, `ChangesDeservedInCycles`, `SustainedInCycles`,
  `EndsRestOnEvidenceInCycles`, `CyclesImplementLifecycle`. The theorems are those of
  `RuleEngineProofs` under the name `RP`; `SameEngine` shows that its definitions and those
  of `Engine` are the same.
- `CycleTypes`; and, as for the host, `CollectorsRunParts` and `CollectorsTyped`: the
  collectors and the cycle side by side.

`StorageProofs`, for any number of processes, versions, writers, files and events:

- `SchemaIsRecorded`, `OpenStoreIsCurrent`. What a process has still to migrate, with
  what is recorded, covers its versions (`NothingOverlooked`). Others record
  meanwhile, so the least version on its list may be recorded already; then its
  statements do no harm, or fail and roll back.
- `NeverSeenTorn`, `WriteOutlivesPower`. The invariant (`FileInv`) keeps writers' temporary
  files apart (`FilesApart`, `OwnFile`), all that the disk may show whole and synced
  (`DiskWhole`), and the order of the renames counted (`RanksCount`), so that a writer
  that syncs the directory puts there its own file or a later one. What was returned before a
  power failure that took the directory is in `gone`, and `WriteOutlivesPower` is about the rest.
- `AcknowledgedIsOneLine`, if every write is synced (`SyncOnWrite`; without it a power
  failure takes acknowledged events, which is what the option is for). The invariant
  (`LogInv`) says how far the holder of the mutex has come with its event
  (`HasWritten`) and that the lines of acknowledged events are on the disk
  (`AcknowledgedThere`, `FirstThenSecond`), unless the file itself was lost.
- `MigrationTypes`, `AtomicTypes`, `LogTypes`. The types of the event log hold without
  `SyncOnWrite`.

The invariants of `CycleProofs`, `CollectorProofs` and `ResultsAreTrue` were checked with
TLC, on the bounds of the runs, before they were proved. The assumptions are those named in the modules (`...Assumption`, one or two per
module); TLC evaluates all of them in the runs. Most say that a bound is a number, that
names are not taken twice, or what type a configuration has. Those that say more:

- `TargetAssumption`: the targets that observations have are among `Target`.
- `CycleRulesAssumption`: the rules of `MonitoringCycle` are switched on and are about
  the stream.
- `ConfigAssumption`: a decoded file has the schema's types, and a text that reads as a
  number is not empty.
- `ServiceAssumption`: an address is not both on the loopback and routable, and a name is
  cut once.
- `LiteralsAreText`: five literals are strings. It is true by the meaning of `STRING`,
  but no backend of the prover knows it.

Only model-checked:

- all liveness (`CancelEndsLoop`, `DeliveryEnds`, `SignalEndsRun`, `CommandEnds`): fairness
  is out of the prover's reach. Every other property of a passing run is a theorem.

Theorems that no run states (those without a property in `PROJECT.json`) link one
specification to another, or say what the code does where the documents promise nothing
(`EndsRestOnEvidence`, `EventsNeverResolve`, `BacklogHeldUntilLoss`), or under which
conditions a finding cannot happen (`OneLevelNoOrphans`, `ShareUntilReboot`).

## 5. Not modelled

- What text looks like: summaries, redaction, payloads, labels, evidence files.
- SQLite below the transaction; a transaction commits or rolls back.
- A clock that is set back, and gaps between samples: the code counts a gap towards
  `For`, and so does the model.
- The read-only parts: API handlers, reports, what commands print.
- The text that parsers of `/proc` read, and the layout of what `systemctl`, `sshd -T` and `ss`
  print (its lines, their loss and what is required of them are modelled); load, memory,
  pressure and filesystem collectors, which keep no state.
- The environment of systemd (`NOTIFY_SOCKET`, `WATCHDOG_USEC`, `WATCHDOG_PID`).
- A scheduler that is switched off (`Start` and `Stop` then do nothing).
- Targets whose text redaction changes: a memory row is stored under the redacted
  name and looked up under the raw one.
- Checks of the configuration that look at one value at a time (ports, paths of
  commands, collectors' times); labels, display names and infinite numbers.
- The checks of paths and permissions before a file is written.
- Two processes that append to one JSONL file. So far only `doctor` opens an event
  writer, on a file of its own and with `SyncOnWrite`, which the run takes over.
- The probe files that `doctor` writes and removes again. (That any command which opens
  the configured database migrates it is in `Migrations`, not in `CommandLine`.)

## 6. Plan

Done: the path from samples to incidents to notifications, and a cycle of it from end
to end; the process around it; every collector that keeps a row or runs commands; what
they stand on: commands, schema, files, the event log, configuration; and the command
line. Every safety invariant and action property that a run checks is a theorem.

Left for whoever goes on:

1. Rules on any target, and rules that are switched off, in `MonitoringCycle`, whose proof
   assumes rules on the stream itself (`CycleRulesAssumption`).
2. What several levels allow: `OneLevelNoOrphans` is about rules of one level, and
   `OrphansComeFromPending` says which step loses an incident, but not for which sequences
   of samples.
3. The other liveness properties split as `DeliveriesGetOn` splits `DeliveryEnds`: a measure that
   no step of the loop, the shutdown or a command increases.
4. The hazards without a property in `PROJECT.json`: a deadline that passes during a
   post, collectors whose timeouts add up to more than a cycle's, rules or targets that
   share an incident. Each is modelled; what the program should do there is not written
   down anywhere.
