------------------------------- MODULE MCHost -------------------------------
(* A command, the collectors that run commands, the migrations of the      *)
(* database, a file, the event log, a command line and the start with a    *)
(* configuration.  They share nothing, so one behaviour moves one of them: *)
(* "part" says which.                                                      *)
EXTENDS CommandRunner, HostProbes, Migrations, AtomicFile, EventLog,
        CommandLine, AgentConfig

CONSTANTS old, new, p22, p2222

VARIABLE part

hostVars == <<part, commandVars, probeVars, migrationVars, atomicVars, logVars,
              lineVars, configVars>>

(* One process of the previous version of the program. *)
HostLatest == [p \in {old, new} |-> IF p = old THEN 2 ELSE 3]

(* A good rule and a good receiver, and what may be wrong with them. *)
Number(n) == [type |-> "number", number |-> n, bool |-> FALSE, text |-> ""]
Yaml(t) == [Number(0) EXCEPT !.type = t]
Text(t) == [Yaml("string") EXCEPT !.text = t]
Values == {Number(n) : n \in {-1, 0, 2}} \cup
          {Yaml(t) : t \in {"null", "nan", "bool", "list"}} \cup
          {Text(t) : t \in {"", "5", "NaN", "active", "token=1"}}
Level(op, v, d) == [set |-> TRUE, operator |-> op, value |-> v, for |-> d]
NoLevel == [Level("", Yaml("null"), 0) EXCEPT !.set = FALSE]

GoodRule ==
  [id |-> "r1", enabled |-> TRUE, collector |-> "cpu",
   metric |-> "pooly_cpu_used_ratio", eventCategory |-> "", target |-> "any",
   level |-> [s \in ActiveSeverity |-> IF s = "warning"
                THEN Level("greater_than", Number(1), 1) ELSE NoLevel],
   recoverFor |-> 1, missingData |-> "", staleData |-> "fail"]
RuleChoices ==
  {[GoodRule EXCEPT !.level["warning"] = Level(op, v, d), !.metric = m] :
     op \in {"greater_than", "state_match", "boolean_true", "equal", "like"},
     v \in Values, d \in {-1, 2},
     m \in {"pooly_cpu_used_ratio", "pooly_tasks_total"}} \cup
  {[GoodRule EXCEPT !.metric = m, !.eventCategory = e] :
     m \in {"", "pooly_other"}, e \in {"", "login", "a b"}} \cup
  {[GoodRule EXCEPT !.target = t, !.recoverFor = d] :
     t \in {"", "a b", "eth0"}, d \in {-1, 0}} \cup
  {[GoodRule EXCEPT !.missingData = p, !.staleData = q] :
     p \in {"", "warn", "later"}, q \in {"", "ignore"}} \cup
  {[GoodRule EXCEPT !.level["warning"] = NoLevel],
   [GoodRule EXCEPT !.collector = "gpu"]}
HostRuleLists ==
  {<<>>, <<GoodRule, GoodRule, GoodRule>>} \cup {<<r>> : r \in RuleChoices} \cup
  {<<GoodRule, [GoodRule EXCEPT !.id = i]>> : i \in {"", "r1", "r2", "a b"}}

GoodReceiver == [id |-> "w", enabled |-> TRUE, type |-> "webhook",
                 urlEnv |-> TRUE, timeout |-> 5, events |-> <<>>,
                 severities |-> <<"warning">>]
HostReceiverLists ==
  {<<>>, <<GoodReceiver, GoodReceiver>>} \cup
  {<<[GoodReceiver EXCEPT !.urlEnv = u, !.enabled = e]>> :
     u \in BOOLEAN, e \in BOOLEAN} \cup
  {<<[GoodReceiver EXCEPT !.type = t, !.timeout = d]>> :
     t \in {"noop", "mail"}, d \in {0, 30}} \cup
  {<<[GoodReceiver EXCEPT !.events = l]>> :
     l \in {<<"reopened">>, <<"opened", "opened">>, <<"closed">>}}
HostNumberText == [t \in {"5"} |-> 5]

(* Without its end, a number may be another port and a value another value. *)
HostCutPort == [p \in {p22, p2222} |-> {p22, p}]
HostCutValue == [v \in {"no", "no_*", "yes"} |->
                   IF v = "no_*" THEN {"no", v} ELSE {v}]

(* Good sections, and what may be wrong with them. *)
GoodTarget == [name |-> "sshd", path |-> "/etc/sshd", hash |-> TRUE,
               allowPrivateKeyHash |-> FALSE]
GoodSections ==
  [interval |-> Absent, cycleTimeout |-> Absent, apiEnabled |-> TRUE,
   bind |-> AbsentText, listen |-> AbsentText, allowNonLoopback |-> FALSE,
   units |-> <<"cron.service">>, targets |-> <<GoodTarget>>, nodeID |-> "n1"]
Addresses == {AbsentText, "", DefaultAPIBind, "0.0.0.0:9587", "localhost"}
SectionChoices ==
  {GoodSections} \cup
  {[GoodSections EXCEPT !.interval = i, !.cycleTimeout = t] :
     i \in {Absent, 0, 9, 10, 45, 46, 86401}, t \in {Absent, 0, 9, 10}} \cup
  {[GoodSections EXCEPT !.bind = b, !.listen = l, !.allowNonLoopback = a] :
     b \in Addresses, l \in Addresses, a \in BOOLEAN} \cup
  {[GoodSections EXCEPT !.units = <<u, "cron.service">>] :
     u \in {"", "a b", "cron.service", "ssh.service"}} \cup
  {[GoodSections EXCEPT !.targets =
      <<GoodTarget, [GoodTarget EXCEPT !.name = n, !.path = p]>>] :
     n \in {"", "a b", "sshd", "hosts", "sshd-long", "sshd-longer"},
     p \in {"etc", "/etc/sshd", "/etc//sshd", "/etc/hosts"}} \cup
  {[GoodSections EXCEPT !.targets =
      <<[GoodTarget EXCEPT !.hash = FALSE, !.allowPrivateKeyHash = a]>>] :
     a \in BOOLEAN} \cup
  {[GoodSections EXCEPT !.nodeID = i] : i \in {"", "a b", "token=1"}}
HostLongName == [n \in {"sshd-long", "sshd-longer"} |-> "sshd"]
HostCleanPath == [p \in {"/etc/sshd", "/etc//sshd", "/etc/hosts"} |->
                    IF p = "/etc//sshd" THEN "/etc/sshd" ELSE p]

HostConfigurations ==
  [rules : HostRuleLists, receivers : HostReceiverLists,
   sections : {GoodSections}] \cup
  [rules : {<<GoodRule>>}, receivers : {<<>>}, sections : SectionChoices]

(* A host as it should be, and what may be other than that.  Each of the   *)
(* three collectors reads one of these only.                               *)
GoodHost == [unit |-> [u \in Unit |-> "running"], listening |-> {p22},
             directive |-> [p \in Profile |-> Expected]]
HostChoices ==
  {[GoodHost EXCEPT !.unit = [u \in Unit |-> c]] : c \in UnitCondition} \cup
  {[GoodHost EXCEPT !.listening = ports] : ports \in SUBSET Port} \cup
  {[GoodHost EXCEPT !.directive = [p \in Profile |-> v]] : v \in Value}

HostInit ==
  /\ part \in {"command", "probes", "migrations", "file", "log", "line", "config"}
  /\ CommandInit
  /\ part # "command" => timed
  /\ ProbeInit
  /\ IF part = "probes" THEN host \in HostChoices ELSE host = GoodHost
  /\ MigrationInit
  /\ AtomicInit
  /\ part # "file" => dir = "kept"
  /\ LogInit
  /\ part # "log" => eventFile = "kept"
  /\ LineInit
  /\ part # "line" => line.command = "run"
  /\ ConfigInit
  /\ part # "config" =>
       /\ configuration = [rules |-> <<>>, receivers |-> <<>>,
                           sections |-> GoodSections]
       /\ environment = "unset"

HostNext ==
  /\ UNCHANGED part
  /\ \/ /\ part = "command" /\ CommandNext
        /\ UNCHANGED <<probeVars, migrationVars, atomicVars, logVars, lineVars,
                       configVars>>
     \/ /\ part = "probes" /\ ProbeNext
        /\ UNCHANGED <<commandVars, migrationVars, atomicVars, logVars, lineVars,
                       configVars>>
     \/ /\ part = "migrations" /\ MigrationNext
        /\ UNCHANGED <<commandVars, probeVars, atomicVars, logVars, lineVars,
                       configVars>>
     \/ /\ part = "file" /\ AtomicNext
        /\ UNCHANGED <<commandVars, probeVars, migrationVars, logVars, lineVars,
                       configVars>>
     \/ /\ part = "log" /\ LogNext
        /\ UNCHANGED <<commandVars, probeVars, migrationVars, atomicVars, lineVars,
                       configVars>>
     \/ /\ part = "line" /\ LineNext
        /\ UNCHANGED <<commandVars, probeVars, migrationVars, atomicVars, logVars,
                       configVars>>
     \/ /\ part = "config" /\ ConfigNext
        /\ UNCHANGED <<commandVars, probeVars, migrationVars, atomicVars, logVars,
                       lineVars>>

HostFairness ==
  LET on(A) == /\ part = "command"
               /\ A
               /\ UNCHANGED <<part, probeVars, migrationVars, atomicVars, logVars,
                              lineVars, configVars>>
  IN /\ WF_hostVars(on(runSteps))
     /\ WF_hostVars(on(TimerFires))
     /\ WF_hostVars(on(terminateCommandProcessGroup))
     /\ \A s \in Stream : WF_hostVars(on(copyStream(s) \/ endOfStream(s)))

HostSpec == HostInit /\ [][HostNext]_hostVars /\ HostFairness

(* The types of the parts. *)
TypeOK == /\ CommandTypeOK /\ ProbeTypeOK /\ MigrationTypeOK /\ AtomicTypeOK
          /\ LogTypeOK /\ LineTypeOK /\ ConfigTypeOK
=============================================================================
