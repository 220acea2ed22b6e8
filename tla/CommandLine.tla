----------------------------- MODULE CommandLine -----------------------------
(***************************************************************************)
(* One call of pooly-agent (cmd/pooly-agent/main.go): its arguments, the   *)
(* store it opens, what it writes there and whether it posts.              *)
(*                                                                         *)
(* A command that would change something does so in the configured         *)
(* database when it is asked to, and otherwise in a temporary one or not   *)
(* at all.  Arguments are read one at a time, as the loops of the parsers  *)
(* do, so command lines have any length.  What a stage does inside is in   *)
(* RuleEngine, NotifyDelivery and the collectors; here it is the tables    *)
(* that it writes.  Printing is left out.                                  *)
(***************************************************************************)
EXTENDS FiniteSets

CONSTANTS
  ConfigFile,  \* paths of configurations that exist
  Name         \* fixtures, receivers and incidents that exist

ConfigFlag == {"--config", "-config"}
SubjectFlag == {"--receiver", "--incident", "--fixture", "--id"}
Off == {"--dry-run", "--no-persist"}
On == {"--persist", "--send"}
Flag == ConfigFlag \cup SubjectFlag \cup Off \cup On \cup {"--json"}
Token == Flag \cup ConfigFile \cup Name \cup {"", "unknown"}

\* No file, receiver or incident is named like a flag.
ASSUME CommandLineAssumption ==
  (ConfigFile \cup Name) \cap (Flag \cup {"", "unknown"}) = {}

VARIABLES
  line,     \* the call: what has been parsed, and how far it has come
  config,   \* what the configuration says of notifications
  store,    \* the store that is open: "none", "configured" or "temporary"
  scratch,  \* whether the temporary directory exists
  tables,   \* tables written in each store
  posted    \* whether a receiver was called

effects == <<scratch, tables, posted>>
lineVars == <<line, config, store, effects>>

\* parseConfigFlag reads the arguments of these.
ConfigOnly == {"run", "check config", "doctor", "collectors list",
               "rules validate", "incidents list", "notifications validate",
               "api check", "scheduler status"}
Persisting == {"scheduler run-once", "collectors run", "rules test"}
Cycling == {"run", "scheduler run-once"}
Command == ConfigOnly \cup Persisting \cup
           {"incidents show", "notifications test", "notifications send",
            "notifications deliveries", "reports preview"}
Family == {"resources", "systemd", "journal", "ssh", "filewatch"}
Table == {"collector_state", "rule_state", "incidents", "deliveries",
          "scheduler_status"}

\* The value a command needs beside its configuration.
subjectFlag(c) ==
  CASE c = "rules test" -> {"--fixture"}
    [] c = "incidents show" -> {"--id"}
    [] c = "notifications test" -> {"--receiver"}
    [] c \in {"notifications send", "notifications deliveries"} -> {"--incident"}
    [] OTHER -> {}

configFlag(c) == IF c \in ConfigOnly THEN ConfigFlag ELSE {"--config"}

switches(c) ==
  CASE c \in Persisting -> {"--json", "--persist"} \cup Off
    [] c = "notifications test" -> {"--json", "--send", "--dry-run"}
    [] c = "notifications send" -> {"--json", "--dry-run"}
    [] c = "reports preview" -> {"--json"}
    [] OTHER -> {}

\* The parsers that refuse a second --config; the others take the last one.
refusesRepeat(c) ==
  c \in ConfigOnly \cup {"reports preview", "scheduler run-once",
                         "collectors run"}

\* act is persist, send or the opposite of dryRun.  asked is what a reader
\* makes of the line: its last switch, wherever it stands.
Stage == {"arguments", "load", "open", "collect", "evaluate", "notify", "status",
          "close", "ended", "killed"}
LineRecord == [pc       : Stage,
               command  : Command,
               family   : Family \cup {"none", "unknown"},
               started  : BOOLEAN,
               config   : Token,
               subject  : Token,
               act      : BOOLEAN,
               asked    : BOOLEAN,
               repeated : BOOLEAN]

ConfigRecord == [enabled : BOOLEAN, dryRun : BOOLEAN]

actsByDefault(c) == c \in {"run", "notifications send"}

LineInit ==
  /\ \E c \in Command, f \in Family \cup {"none", "unknown"} :
       /\ f = "none" <=> c # "collectors run"
       /\ line = [pc |-> "arguments", command |-> c, family |-> f,
                  started |-> FALSE, config |-> "", subject |-> "",
                  act |-> actsByDefault(c), asked |-> actsByDefault(c),
                  repeated |-> FALSE]
  /\ config = [enabled |-> FALSE, dryRun |-> FALSE]
  /\ store = "none"
  /\ scratch = FALSE
  /\ tables = [s \in {"configured", "temporary"} |-> {}]
  /\ posted = FALSE

goto(stage) == line' = [line EXCEPT !.pc = stage]

(***************************************************************************)
(* The parsers.  A value is taken whatever it looks like, unless it is     *)
(* empty.                                                                  *)
(***************************************************************************)
TypeValue(flag, value) ==
  /\ line.pc = "arguments"
  /\ value # ""
  /\ LET read == [line EXCEPT !.started = TRUE,
                              !.asked = line.asked /\ value \notin Off]
     IN \/ /\ flag \in configFlag(line.command)
           /\ line.config # "" => ~refusesRepeat(line.command)
           /\ line' = [read EXCEPT !.config = value,
                         !.repeated = line.repeated \/ line.config # ""]
        \/ /\ flag \in subjectFlag(line.command)
           /\ line' = [read EXCEPT !.subject = value,
                         !.repeated = line.repeated \/ line.subject # ""]
  /\ UNCHANGED <<config, store, effects>>

TypeSwitch(s) ==
  /\ line.pc = "arguments"
  /\ s \in switches(line.command)
  /\ line' = [line EXCEPT !.started = TRUE,
                          !.act = (@ \/ s \in On) /\ s \notin Off,
                          !.asked = (@ \/ s \in On) /\ s \notin Off]
  /\ UNCHANGED <<config, store, effects>>

\* An unknown argument, a flag without a value, a configuration given twice.
BadArgument ==
  /\ line.pc = "arguments"
  /\ goto("ended")
  /\ UNCHANGED <<config, store, effects>>

\* Only "collectors list" does without a configuration.
ArgumentsEnd ==
  /\ line.pc = "arguments"
  /\ LET complete ==
           \/ line.config # "" /\ (subjectFlag(line.command) # {} =>
                                     line.subject # "")
           \/ line.command = "collectors list" /\ ~line.started
     IN goto(IF complete THEN "load" ELSE "ended")
  /\ UNCHANGED <<config, store, effects>>

(***************************************************************************)
(* The commands.                                                           *)
(***************************************************************************)
CommandFails ==
  /\ line.pc \in {"load", "open", "collect"}
  /\ goto(IF line.pc = "collect" THEN "close" ELSE "ended")
  /\ UNCHANGED <<config, store, effects>>

\* A fixture is read, and a receiver looked up, before a store is opened.
subjectFound ==
  line.command \in {"rules test", "notifications test"} => line.subject \in Name

LoadFile ==
  /\ line.pc = "load"
  /\ line.config \in ConfigFile \/ ~line.started
  /\ subjectFound
  /\ config' \in ConfigRecord
  /\ goto("open")
  /\ UNCHANGED <<store, effects>>

\* Mutated form: a cycle always runs on the configured store.
storeOfAnyCycle(l) ==
  IF \/ l.command \in {"doctor", "incidents list", "incidents show",
                       "notifications send", "notifications deliveries",
                       "reports preview"}
     \/ l.command \in Cycling
     \/ l.command \in Persisting /\ l.act
  THEN {"configured"}
  ELSE IF l.command = "scheduler status" THEN {"none", "configured"}
  ELSE IF l.command = "rules test" THEN {"temporary"} ELSE {"none"}

\* "scheduler status" opens the database only if the file is there.
storeOf(l) ==
  IF \/ l.command \in {"run", "doctor", "incidents list", "incidents show",
                       "notifications send", "notifications deliveries",
                       "reports preview"}
     \/ l.command \in Persisting /\ l.act
  THEN {"configured"}
  ELSE IF l.command = "scheduler status" THEN {"none", "configured"}
  ELSE IF l.command \in {"scheduler run-once", "rules test"}
    THEN {"temporary"}
  ELSE {"none"}

OpenStore ==
  /\ line.pc = "open"
  /\ store' \in storeOf(line)
  /\ scratch' = (store' = "temporary")
  /\ goto("collect")
  /\ UNCHANGED <<config, tables, posted>>

writeTo(names) ==
  tables' = IF store = "none" THEN tables
             ELSE [tables EXCEPT ![store] = @ \cup names]

\* Collectors write their rows only when told to; an unknown family is
\* noticed after the store was opened, and some families have no rows.
Collect ==
  /\ line.pc = "collect"
  /\ line.family # "unknown"
  /\ IF /\ line.act
        /\ \/ line.command \in Cycling
           \/ line.family \in {"resources", "journal", "filewatch"}
     THEN writeTo({"collector_state"})
     ELSE UNCHANGED tables
  /\ goto("evaluate")
  /\ UNCHANGED <<config, store, scratch, posted>>

\* A failed evaluation may have committed some rules, and skips the notifier.
EvaluateRules ==
  /\ line.pc = "evaluate"
  /\ IF line.command \in Cycling \cup {"rules test"}
     THEN /\ UNCHANGED tables \/ writeTo({"rule_state", "incidents"})
          /\ goto("notify") \/ goto("status")
     ELSE UNCHANGED tables /\ goto("notify")
  /\ UNCHANGED <<config, store, scratch, posted>>

\* A test posts what it was told to, whatever the configuration says, and
\* records nothing.  The others post for an incident that exists and a
\* receiver whose filters let it pass.
Notify ==
  LET dryRun == ~line.act \/ config.dryRun
      delivers == \/ line.command \in Cycling
                  \/ line.command = "notifications send" /\ line.subject \in Name
  IN /\ line.pc = "notify"
     /\ \/ UNCHANGED <<posted, tables>>
        \/ /\ line.command = "notifications test" /\ line.act
           /\ posted' = TRUE
           /\ UNCHANGED tables
        \/ /\ delivers /\ config.enabled /\ ~dryRun
           /\ posted' = TRUE
           /\ writeTo({"deliveries"})
     /\ goto("status")
     /\ UNCHANGED <<config, store, scratch>>

SaveStatus ==
  /\ line.pc = "status"
  /\ IF line.command \in Cycling THEN writeTo({"scheduler_status"})
     ELSE UNCHANGED tables
  /\ goto("close")
  /\ UNCHANGED <<config, store, scratch, posted>>

\* The deferred cleanup: the store is closed, the temporary directory removed
\* (an error of RemoveAll is left out).
Cleanup ==
  /\ line.pc = "close"
  /\ store' = "none"
  /\ scratch' = FALSE
  /\ goto("ended")
  /\ UNCHANGED <<config, tables, posted>>

\* An interrupt, which only "run" catches, or a kill: no deferred call runs.
Killed ==
  /\ line.pc \notin {"ended", "killed"}
  /\ store' = "none"
  /\ goto("killed")
  /\ UNCHANGED <<config, effects>>

LineNext ==
  \/ \E f \in Flag, v \in Token : TypeValue(f, v)
  \/ \E s \in Flag : TypeSwitch(s)
  \/ BadArgument \/ ArgumentsEnd \/ LoadFile \/ OpenStore \/ CommandFails
  \/ Collect \/ EvaluateRules \/ Notify \/ SaveStatus \/ Cleanup \/ Killed

LineSpec == LineInit /\ [][LineNext]_lineVars
-----------------------------------------------------------------------------
\* The types of the call, of what it has open and of what it leaves.
LineTypeOK ==
  /\ line \in LineRecord
  /\ config \in ConfigRecord
  /\ store \in {"none", "configured", "temporary"}
  /\ scratch \in BOOLEAN
  /\ tables \in [{"configured", "temporary"} -> SUBSET Table]
  /\ posted \in BOOLEAN

\* A dry run "does not persist collector baselines, rule state, incidents,
\* notification deliveries, or scheduler status to configured production
\* storage" (docs/scheduler.md:51), and a test "defaults to dry-run unless
\* --send is explicitly provided" (docs/notification-delivery.md:40).  Whatever
\* its arguments: a call whose last switch is a dry run, or that has none,
\* leaves the configured rows alone and posts nothing, even if the switch was
\* taken for a value, since nothing has that name; only a value given twice
\* can hide a switch.  A call that ends by itself leaves no temporary store.
UnaskedLeavesNothing ==
  /\ tables["configured"] # {} \/ posted => line.asked \/ line.repeated
  /\ line.pc = "ended" => ~scratch
=============================================================================
