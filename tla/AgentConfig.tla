---------------------------- MODULE AgentConfig ----------------------------
(***************************************************************************)
(* From the configuration file to what an agent starts with: the checks of *)
(* rules and receivers (config/validate.go) and their conversion           *)
(* (rules/config.go, notify/config.go).  ServiceConfig has the other parts *)
(* of the file.                                                            *)
(*                                                                         *)
(* Text is told apart by what the checks ask of it.  Summaries, labels and *)
(* display names are left out.                                             *)
(***************************************************************************)
EXTENDS RuleConditions, ServiceConfig

CONSTANTS
  Configurations, \* what a file may hold: rules, receivers and sections
  MaxRules,       \* the limit of 128 rules
  MaxReceivers,   \* the limit of 32 receivers
  KnownMetric,    \* metrics that isKnownRuleMetric knows
  RatioMetric,    \* those of them whose name contains _ratio
  NumberText,     \* texts that ParseFloat accepts, with their numbers
  NaNText         \* texts that it takes for NaN

(***************************************************************************)
(* What a file holds, as the decoder types it (config/schema.go).  A value *)
(* may be anything; a pointer is "set" when it is not nil.                 *)
(***************************************************************************)
ValueConfig == [type   : {"null", "number", "nan", "bool", "string", "list"},
                number : Int, bool : BOOLEAN, text : STRING]
RuleThresholdConfig ==
  [set : BOOLEAN, operator : STRING, value : ValueConfig, for : Int]
RuleConfig ==
  [id : STRING, enabled : BOOLEAN, collector : STRING, metric : STRING,
   eventCategory : STRING, target : STRING,
   level : [ActiveSeverity -> RuleThresholdConfig],
   recoverFor : Int, missingData : STRING, staleData : STRING]
NotifyReceiverConfig ==
  [id : STRING, enabled : BOOLEAN, type : STRING, urlEnv : BOOLEAN,
   timeout : Int, events : Seq(STRING), severities : Seq(STRING)]

ASSUME ConfigAssumption ==
  /\ Configurations \subseteq
       [rules : Seq(RuleConfig), receivers : Seq(NotifyReceiverConfig),
        sections : SectionsConfig]
  /\ MaxRules \in Nat /\ MaxReceivers \in Nat
  /\ RatioMetric \subseteq KnownMetric
  /\ "" \notin DOMAIN NumberText \cup NaNText
  /\ \A t \in DOMAIN NumberText : NumberText[t] \in Int

\* The texts that stand for no text and for the kinds of a value are texts.
ASSUME LiteralsAreText ==
  {"", "number", "nan", "bool", "string"} \subseteq STRING

VARIABLES
  configuration,  \* what the file holds
  environment,    \* what the receivers' environment variable holds
  started         \* what the agent has started with

configVars == <<configuration, environment, started>>

rulesFile == configuration.rules
receiversFile == configuration.receivers

Environment == {"unset", "empty", "invalid", "valid"}
NotStarted == [running |-> FALSE, dryRun |-> FALSE, rules |-> <<>>,
               receivers |-> <<>>, service |-> NoService]

\* Any file: a running agent does not read it again, a start knows nothing
\* of the ones before.
ConfigInit ==
  /\ configuration \in Configurations
  /\ environment \in Environment
  /\ started = NotStarted

StopAgent ==
  /\ started.running
  /\ started' = NotStarted
  /\ UNCHANGED <<configuration, environment>>

(***************************************************************************)
(* The checks.                                                             *)
(***************************************************************************)
distinctIDs(items) ==
  \A i, j \in DOMAIN items : items[i].id = items[j].id => i = j

NumericOperator ==
  {"greater_than", "greater_than_or_equal", "less_than", "less_than_or_equal"}
TextOperator == {"state_match", "event_category_match"}
BooleanOperator == {"boolean_true", "boolean_false"}
EqualityOperator == {"equal", "not_equal"}

validateRuleValue(metric, t) ==
  \/ /\ t.operator \in NumericOperator
     /\ t.value.type = "number"
     /\ t.value.number >= 0
     /\ metric \in RatioMetric => t.value.number <= 1
  \/ /\ t.operator \in TextOperator
     /\ t.value.type = "string"
     /\ isSet(t.value.text) /\ isSafe(t.value.text)
  \/ t.operator \in BooleanOperator
  \/ /\ t.operator \in EqualityOperator
     /\ \/ t.value.type \in {"number", "bool"}
        \/ /\ t.value.type = "string"
           /\ isSet(t.value.text) /\ t.value.text \notin SecretText

\* Mutated form: a negative duration passes.
validateRuleThresholdAnyFor(metric, t) == validateRuleValue(metric, t)

validateRuleThreshold(metric, t) ==
  /\ t.for >= 0
  /\ validateRuleValue(metric, t)

validateRulePolicy(policy) == policy \in Policy \cup {""}

RuleCollector ==
  ResourceCollector \cup
  {"resources", "systemd", "journal", "ssh", "ssh_effective_config",
   "ssh_listeners", "filewatch"}

validateRule(r) ==
  LET levels == {s \in ActiveSeverity : r.level[s].set}
  IN /\ isSet(r.id) /\ isSafe(r.id)
     /\ r.collector \in RuleCollector
     /\ isSet(r.metric) \/ isSet(r.eventCategory)
     /\ isSet(r.metric) => r.metric \in KnownMetric
     /\ isSafe(r.eventCategory)
     /\ r.target \notin AnyTarget => isSafe(r.target)
     /\ r.recoverFor >= 0
     /\ levels # {}
     /\ \A s \in levels : validateRuleThreshold(r.metric, r.level[s])
     /\ validateRulePolicy(r.missingData)
     /\ validateRulePolicy(r.staleData)

validateRules(rules) ==
  /\ Len(rules) <= MaxRules
  /\ \A i \in DOMAIN rules : validateRule(rules[i])
  /\ distinctIDs(rules)

EventFilter == {"opened", "escalated", "resolved", "reopened"}

validateFilter(list, allowed) ==
  \A i, j \in DOMAIN list :
    list[i] \in allowed /\ (list[i] = list[j] => i = j)

validateReceiver(r) ==
  /\ isSet(r.id) /\ isSafe(r.id)
  /\ r.type \in {"webhook", "noop"}
  /\ r.timeout \in 1..30
  /\ r.type = "webhook" /\ r.enabled => r.urlEnv
  /\ validateFilter(r.events, EventFilter)
  /\ validateFilter(r.severities, Severity)

validateNotify(receivers) ==
  /\ Len(receivers) <= MaxReceivers
  /\ \A i \in DOMAIN receivers : validateReceiver(receivers[i])
  /\ distinctIDs(receivers)

(***************************************************************************)
(* The conversion.                                                         *)
(***************************************************************************)
\* The kind "nan" is the code's kind "number" with NaN.
valueFromConfig(v) ==
  [kind   |-> CASE v.type = "null"   -> ""
                [] v.type = "number" -> "number"
                [] v.type = "nan"    -> "nan"
                [] v.type = "bool"   -> "bool"
                [] v.type = "string" ->
                     IF v.text \in DOMAIN NumberText THEN "number"
                     ELSE IF v.text \in NaNText THEN "nan" ELSE "string",
   number |-> IF v.type = "number" THEN v.number
              ELSE IF v.type = "string" /\ v.text \in DOMAIN NumberText
                   THEN NumberText[v.text] ELSE 0,
   text   |-> IF v.type = "string" THEN v.text ELSE "",
   bool   |-> v.type = "bool" /\ v.bool]

thresholdFromConfig(t) ==
  IF ~t.set THEN [set |-> FALSE, operator |-> "", kind |-> "", number |-> 0,
                  text |-> "", bool |-> FALSE, for |-> 0]
  ELSE LET value == valueFromConfig(t.value)
       IN [set |-> TRUE, operator |-> t.operator, kind |-> value.kind,
           number |-> value.number, text |-> value.text, bool |-> value.bool,
           for |-> t.for]

policyOrDefault(policy) == IF policy = "" THEN "stale" ELSE policy

ruleFromConfig(r) ==
  [enabled       |-> r.enabled,
   collector     |-> r.collector,
   metric        |-> r.metric,
   eventCategory |-> r.eventCategory,
   target        |-> r.target,
   threshold     |-> [s \in ActiveSeverity |-> thresholdFromConfig(r.level[s])],
   recoverFor    |-> r.recoverFor,
   missingData   |-> policyOrDefault(r.missingData),
   staleData     |-> policyOrDefault(r.staleData)]

\* A list is no value; the checks let it pass beside a boolean operator.
convertible(rules) ==
  \A i \in DOMAIN rules : \A s \in ActiveSeverity :
    rules[i].level[s].set => rules[i].level[s].value.type # "list"

FromConfig(rules) == [i \in DOMAIN rules |-> ruleFromConfig(rules[i])]

orDefault(list, default) ==
  IF list = <<>> THEN default ELSE {list[i] : i \in DOMAIN list}

ReceiverSpec == [id : STRING, enabled : BOOLEAN, events : SUBSET EventFilter,
                 severities : SUBSET Severity, url : BOOLEAN]

receiverSpec(r) ==
  [id         |-> r.id,
   enabled    |-> r.enabled,
   events     |-> orDefault(r.events, {"opened", "escalated", "resolved"}),
   severities |-> orDefault(r.severities, ActiveSeverity),
   url        |-> r.type = "webhook" /\ r.urlEnv /\ environment = "valid"]

\* A variable that is not set is missed when the receiver will be used; a
\* variable that is set to nothing is not.
urlAccepted(r, dryRun) ==
  r.type = "webhook" =>
    LET value == IF r.urlEnv THEN environment ELSE "unset"
    IN /\ r.enabled /\ ~dryRun => value # "unset"
       /\ value # "invalid"

OptionsFromConfig(receivers) ==
  [i \in DOMAIN receivers |-> receiverSpec(receivers[i])]

\* The errors that keep a checked configuration from starting.
notificationServiceFails(dryRun) ==
  \E i \in DOMAIN receiversFile : ~urlAccepted(receiversFile[i], dryRun)

schedulerFails(dryRun) ==
  ~convertible(rulesFile) \/ notificationServiceFails(dryRun)

\* runCommand: LoadFile, then the scheduler with its rules and receivers, then
\* the server, whose own check of the address repeats the one of the file.
\* notify.dry_run may be either.
RunAgent ==
  /\ ~started.running
  /\ validateSections(configuration.sections)
  /\ validateRules(rulesFile)
  /\ validateNotify(receiversFile)
  /\ \E dryRun \in BOOLEAN :
       /\ ~schedulerFails(dryRun)
       /\ started' = [running   |-> TRUE,
                      dryRun    |-> dryRun,
                      rules     |-> FromConfig(rulesFile),
                      receivers |-> OptionsFromConfig(receiversFile),
                      service   |-> serviceFromConfig(configuration.sections)]
  /\ UNCHANGED <<configuration, environment>>

ConfigNext == RunAgent \/ StopAgent

ConfigSpec == ConfigInit /\ [][ConfigNext]_configVars

(***************************************************************************)
(* Properties.                                                             *)
(***************************************************************************)
ConfigTypeOK ==
  /\ configuration \in Configurations
  /\ environment \in Environment
  /\ started.running \in BOOLEAN

\* What passes the checks and the conversion is what the rule engine and the
\* delivery take for granted: rules as RulesAssumption has them, each with a
\* threshold, and receivers that can be told apart and that listen to some
\* event at some severity (validate.go 267-503, rules/config.go,
\* notify/config.go), and the sections as ServiceAsAssumed has them.  A rule
\* whose threshold no sample meets, such as the text NaN, passes all the same.
StartedAsAssumed ==
  /\ started.rules \in Seq(Rule)
  /\ \A i \in DOMAIN started.rules :
       \E s \in ActiveSeverity : started.rules[i].threshold[s].set
  /\ started.receivers \in Seq(ReceiverSpec)
  /\ distinctIDs(started.receivers)
  /\ \A i \in DOMAIN started.receivers :
       started.receivers[i].events # {} /\ started.receivers[i].severities # {}
  /\ started.running => ServiceAsAssumed(started.service)
=============================================================================
