--------------------------- MODULE RuleConditions ---------------------------
(***************************************************************************)
(* Matching a rule against one cycle's observations                        *)
(* (internal/rules/condition.go and the observation status of engine.go).  *)
(*                                                                         *)
(* An observation is what one collector reports: flags, an error class and *)
(* a set of samples.  A sample is a metric or an event together with the   *)
(* target that metricTarget/eventTarget derives from its labels, the       *)
(* number the comparisons read (0 for an event) and the text that          *)
(* string comparisons read (the first label, or the event's category).     *)
(* Text is taken as already case-folded.                                   *)
(***************************************************************************)
EXTENDS IncidentEngine, Sequences

Policy == {"ignore", "stale", "warn", "fail"}

Threshold == [set : BOOLEAN, operator : STRING, kind : STRING, number : Int,
              text : STRING, bool : BOOLEAN, for : Nat]

Rule == [enabled       : BOOLEAN,
         collector     : STRING,
         metric        : STRING,
         eventCategory : STRING,
         target        : STRING,
         threshold     : [ActiveSeverity -> Threshold],
         recoverFor    : Nat,
         missingData   : Policy,
         staleData     : Policy]

ResourceCollector ==
  {"cpu", "load", "memory", "pressure", "filesystem", "diskio", "network",
   "uptime"}

collectorMatches(rule, observation) ==
  \/ rule.collector = observation.collector
  \/ rule.collector = "resources" /\ observation.collector \in ResourceCollector

AnyTarget == {"", "any"}

targetMatches(ruleTarget, observed) ==
  \/ ruleTarget \in AnyTarget
  \/ ruleTarget = "system" /\ observed = "all"
  \/ ruleTarget = observed

defaultTarget(rule) ==
  IF rule.target \in AnyTarget THEN "system" ELSE rule.target

\* "" is an unset selector; a rule may select a metric, a category, or both.
selects(rule, sample) ==
  \/ rule.metric # "" /\ sample.kind = "metric" /\ sample.name = rule.metric
  \/ rule.eventCategory # "" /\ sample.kind = "event"
     /\ sample.name = rule.eventCategory

findMatches(rule, observations) ==
  {s \in UNION {observations[k].samples :
                  k \in {j \in DOMAIN observations :
                           collectorMatches(rule, observations[j])}} :
     selects(rule, s) /\ targetMatches(rule.target, s.target)}

matchingTargets(rule, observations) ==
  LET seen == {s.target : s \in findMatches(rule, observations)}
  IN IF rule.target \notin AnyTarget \/ seen = {}
     THEN {defaultTarget(rule)}
     ELSE seen

thresholdMatches(threshold, s) ==
  LET num == s.number
      val == threshold.number
      same == CASE threshold.kind = "string" -> s.text = threshold.text
                [] threshold.kind = "bool"   -> (num # 0) = threshold.bool
                [] OTHER                     -> num = val
      isNaN == threshold.kind = "nan"
  IN CASE threshold.operator = "greater_than"          -> num > val
       [] threshold.operator = "greater_than_or_equal" -> num >= val
       [] threshold.operator = "less_than"             -> num < val
       [] threshold.operator = "less_than_or_equal"    -> num <= val
       [] threshold.operator = "equal"                 -> ~isNaN /\ same
       [] threshold.operator = "not_equal"             -> ~isNaN /\ ~same
       [] threshold.operator = "boolean_true"          -> num # 0
       [] threshold.operator = "boolean_false"         -> num = 0
       [] threshold.operator = "state_match"           -> s.text = threshold.text
       [] threshold.operator = "event_category_match"  ->
            s.kind = "event" /\ s.name = threshold.text
       [] OTHER                                        -> FALSE

matchesForTarget(rule, observations, target) ==
  {s \in findMatches(rule, observations) :
     s.target = target \/ (target = "system" /\ s.target = "all")}

\* The worst level that some match reaches.  rule.threshold[s].set is the
\* non-nil test on the Warn/Fail/Critical pointer.
desiredSeverityForTarget(rule, observations, target) ==
  LET reached(s) == /\ rule.threshold[s].set
                    /\ \E m \in matchesForTarget(rule, observations, target) :
                          thresholdMatches(rule.threshold[s], m)
  IN IF reached("critical") THEN "critical"
     ELSE IF reached("failure") THEN "failure"
     ELSE IF reached("warning") THEN "warning"
     ELSE "none"

(***************************************************************************)
(* The first observation of the rule's collector that is not a clean       *)
(* success decides for every target of the rule.  A stale observation      *)
(* without an error class yields "", and hides the later ones.             *)
(***************************************************************************)
observationStatus(rule, observations) ==
  LET unclean == {k \in DOMAIN observations :
                    LET o == observations[k]
                    IN /\ collectorMatches(rule, o)
                       /\ \/ ~o.supported
                          \/ o.errorClass = "counter_reset"
                          \/ o.stale
                          \/ ~o.success}
      first == observations[CHOOSE k \in unclean : \A j \in unclean : k <= j]
  IN IF unclean = {} THEN ""
     ELSE IF ~first.supported THEN "unsupported"
     ELSE IF first.stale \/ first.errorClass # "" THEN first.errorClass
     ELSE "internal_error"

\* What the policy of a rule asks for when there is no usable data.
policySeverity(policy) ==
  CASE policy = "warn" -> "warning"
    [] policy = "fail" -> "failure"
    [] OTHER           -> "keep"

(***************************************************************************)
(* The severity one evaluation asks transitionState for, or "keep" when    *)
(* evaluateMissing or evaluatePolicyStatus writes the memory back as it    *)
(* was.                                                                    *)
(***************************************************************************)
verdict(rule, observations, target) ==
  LET class == observationStatus(rule, observations)
  IN IF class \in {"unsupported", "counter_reset"} THEN "keep"
     ELSE IF class # "" THEN policySeverity(rule.staleData)
     ELSE IF matchesForTarget(rule, observations, target) = {}
          THEN policySeverity(rule.missingData)
     ELSE desiredSeverityForTarget(rule, observations, target)
=============================================================================
