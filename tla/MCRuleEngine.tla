---------------------------- MODULE MCRuleEngine ----------------------------
(***************************************************************************)
(* Small instances of RuleEngine: rules, and what a collection cycle may   *)
(* return.  Metric values 0..3 stand for healthy, warning, failure and     *)
(* critical levels.                                                        *)
(***************************************************************************)
EXTENDS RuleEngine

Unset == [set |-> FALSE, operator |-> "", kind |-> "", number |-> 0,
          text |-> "", bool |-> FALSE, for |-> 0]
AtLeast(n, d) == [Unset EXCEPT !.set = TRUE, !.kind = "number", !.number = n,
                               !.operator = "greater_than_or_equal", !.for = d]

Levels(warn, fail, critical) ==
  [s \in ActiveSeverity |-> CASE s = "warning" -> warn
                              [] s = "failure" -> fail
                              [] OTHER         -> critical]

BaseRule == [enabled |-> TRUE, collector |-> "resources", metric |-> "cpu_used",
             eventCategory |-> "", target |-> "system",
             threshold |-> Levels(AtLeast(1, 1), AtLeast(2, 1), Unset),
             recoverFor |-> 1, missingData |-> "stale", staleData |-> "stale"]

Sample(m, t, n) == [kind |-> "metric", name |-> m, target |-> t,
                    number |-> n, text |-> ""]

Report(c, samples) == [collector |-> c, supported |-> TRUE, errorClass |-> "",
                       stale |-> FALSE, success |-> TRUE, samples |-> samples]
Failing(c, class) == [Report(c, {}) EXCEPT !.success = FALSE,
                                           !.errorClass = class]
Reset(c) == [Report(c, {}) EXCEPT !.stale = TRUE,
                                  !.errorClass = "counter_reset"]
Unsupported(c) == [Report(c, {}) EXCEPT !.supported = FALSE,
                                        !.success = FALSE,
                                        !.errorClass = "unsupported"]

CpuAt(n) == <<Report("cpu", {Sample("cpu_used", "all", n)})>>

(* One rule, the levels warning and failure, missing data a warning.       *)
OneRule == <<[BaseRule EXCEPT !.missingData = "warn"]>>
OneRuleLists == {CpuAt(n) : n \in 0..2} \cup {<<>>, <<Reset("cpu")>>}

(* A rule for any mount with all three levels, which counts stale data as  *)
(* a failure, and a disabled rule.  Mount "b" has a name that no           *)
(* fingerprint may hold.                                                   *)
AnyMount ==
  <<[BaseRule EXCEPT !.enabled = FALSE],
    [BaseRule EXCEPT !.collector = "filesystem", !.metric = "used",
                     !.target = "any",
                     !.threshold = Levels(AtLeast(1, 0), AtLeast(2, 1),
                                          AtLeast(3, 2)),
                     !.staleData = "fail"]>>
Mounts(x, y) == <<Report("filesystem", {Sample("used", "a", x),
                                        Sample("used", "b", y)})>>
Partial == <<[Failing("filesystem", "timeout") EXCEPT
                !.samples = {Sample("used", "a", 0)}]>>
AnyMountLists ==
  {Mounts(n, 0) : n \in 0..3} \cup
  {Mounts(0, 1), Partial, <<Unsupported("filesystem")>>}

NoneSame == <<>>
=============================================================================
