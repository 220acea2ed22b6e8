----------------------------- MODULE RuleEngine -----------------------------
(***************************************************************************)
(* The rule engine (internal/rules/engine.go) over its persistent state.   *)
(*                                                                         *)
(* Evaluate reads the clock once, then visits the enabled rules in         *)
(* configuration order and each rule's targets, one SQLite transaction     *)
(* per rule and target: load the pair's evaluation memory, decide, save    *)
(* the memory, apply the incident candidate.  An error (or the end of the  *)
(* process) ends the evaluation; what was committed stays.                 *)
(*                                                                         *)
(* Several evaluations may be under way at once: the scheduler's in the    *)
(* agent and one of "scheduler run-once --persist" in another process, on  *)
(* the same database.  Each has its own clock reading; their transactions  *)
(* interleave.                                                             *)
(*                                                                         *)
(* run is a history variable: per rule and target, the verdict of the last *)
(* evaluations that had one and the clock reading of the first of them.    *)
(***************************************************************************)
EXTENDS RuleConditions

CONSTANTS
  Rules,             \* sequence of rule records, in configuration order
  Target,            \* targets that observations or rules name
  RejectedTarget,    \* targets that Fingerprint rejects (unsafe characters)
  SameText,          \* components that read as others do, see fingerprint
  ObservationLists,  \* what one collection cycle may return
  Evaluator,         \* evaluations that may be in progress at once
  MaxTime            \* bound on the clock

ASSUME RulesAssumption ==
  /\ Rules \in Seq(Rule)
  /\ RejectedTarget \subseteq Target
  /\ MaxTime \in Nat

\* Every target an evaluation can visit is in Target.
ASSUME TargetAssumption ==
  \A i \in DOMAIN Rules, obs \in ObservationLists :
    matchingTargets(Rules[i], obs) \subseteq Target

VARIABLES
  now,        \* the wall clock
  memory,     \* rule_evaluation_state: per rule and target
  incidents,  \* incidents: per fingerprint
  eval,       \* the evaluations in progress
  run         \* history, see above

vars == <<now, memory, incidents, eval, run>>

Pair == (DOMAIN Rules) \X Target
rule(p) == Rules[p[1]]
target(p) == p[2]

\* Fingerprint joins the components with colons, each trimmed and in lower
\* case; the node's name is the same for every incident.  The text does not
\* tell apart two rules on one collector, metric (or category) and target, nor
\* components that differ in case (a rule on any mount, of "/Data" and "/data")
\* or in where a colon ends them.  SameText maps components whose text is also
\* that of others to those others.  The memory keeps the target as observed.
fingerprint(p) ==
  LET r          == rule(p)
      condition  == IF r.eventCategory # "" THEN r.eventCategory ELSE r.metric
      components == <<r.collector, target(p), condition>>
  IN IF components \in DOMAIN SameText THEN SameText[components] ELSE components

Fingerprints == {fingerprint(p) : p \in Pair}
incidentOf(p) == incidents[fingerprint(p)]

(***************************************************************************)
(* The persisted evaluation memory.  A missing row reads as InitialMemory. *)
(***************************************************************************)
ActiveState == {"WARN", "FAIL", "CRITICAL", "RECOVERING"}
PendingState == {"PENDING_WARN", "PENDING_FAIL"}
State == {"OK", "RECOVERED"} \cup ActiveState \cup PendingState

EvaluationMemory == [state             : State,
                     severity          : Severity,
                     conditionMetSince : Time,
                     recoverySince     : Time,
                     pendingSeverity   : Severity]

InitialMemory == [state             |-> "OK",
                  severity          |-> "none",
                  conditionMetSince |-> NoTime,
                  recoverySince     |-> NoTime,
                  pendingSeverity   |-> "none"]

isActive(state) == state \in ActiveState

stateForSeverity ==
  [s \in ActiveSeverity |-> CASE s = "critical" -> "CRITICAL"
                              [] s = "failure"  -> "FAIL"
                              [] OTHER          -> "WARN"]

pendingStateForSeverity(s) ==
  IF severityRank[s] >= severityRank["failure"]
  THEN "PENDING_FAIL" ELSE "PENDING_WARN"

durationFor(r, s) == IF r.threshold[s].set THEN r.threshold[s].for ELSE 0

(***************************************************************************)
(* transitionState: the memory to save and the candidate to hand to  *)
(* the incident engine.                                                    *)
(***************************************************************************)
Step(m, candidate) == [memory |-> m, candidate |-> candidate]

\* Mutated form of healthyStep: the pending run outlives a healthy sample.
healthyStepKeepsPending(r, m, at) ==
  IF ~isActive(m.state)
  THEN Step([m EXCEPT !.state = "OK"], NoCandidate)
  ELSE IF m.recoverySince = NoTime
  THEN Step([m EXCEPT !.state = "RECOVERING", !.recoverySince = at], NoCandidate)
  ELSE IF at - m.recoverySince >= r.recoverFor
  THEN Step(InitialMemory, Clear)
  ELSE Step([m EXCEPT !.state = "RECOVERING"], NoCandidate)

\* The condition is not met.
healthyStep(r, m, at) ==
  IF ~isActive(m.state)
  THEN Step(InitialMemory, NoCandidate)
  ELSE IF m.recoverySince = NoTime
  THEN Step([m EXCEPT !.state = "RECOVERING", !.recoverySince = at], NoCandidate)
  ELSE IF at - m.recoverySince >= r.recoverFor
  THEN Step([m EXCEPT !.state = "RECOVERED",
                      !.severity = "none",
                      !.conditionMetSince = NoTime,
                      !.pendingSeverity = "none"],
            Clear)
  ELSE Step([m EXCEPT !.state = "RECOVERING"], NoCandidate)

\* Mutated forms of unhealthyStep: a change of the pending severity does not
\* restart the run; a failing sample does not end the recovery.
unhealthyStepNoRestart(r, m, s, at) ==
  LET confirmed == [m EXCEPT !.recoverySince = NoTime,
                             !.severity = s,
                             !.state = stateForSeverity[s]]
      pending == [m EXCEPT !.recoverySince = NoTime,
                           !.state = pendingStateForSeverity(s),
                           !.pendingSeverity = s]
  IN IF isActive(m.state) /\ severityRank[m.severity] >= severityRank[s]
     THEN Step(confirmed, Raise(s))
     ELSE IF m.conditionMetSince = NoTime
     THEN Step([pending EXCEPT !.conditionMetSince = at], NoCandidate)
     ELSE IF at - m.conditionMetSince >= durationFor(r, s)
     THEN Step(confirmed, Raise(s))
     ELSE Step(pending, NoCandidate)

unhealthyStepKeepsRecovery(r, m, s, at) ==
  LET confirmed == [m EXCEPT !.severity = s,
                             !.state = stateForSeverity[s]]
      pending == [m EXCEPT !.state = pendingStateForSeverity(s)]
  IN IF isActive(m.state) /\ severityRank[m.severity] >= severityRank[s]
     THEN Step(confirmed, Raise(s))
     ELSE IF m.pendingSeverity # s \/ m.conditionMetSince = NoTime
     THEN Step([pending EXCEPT !.conditionMetSince = at,
                               !.pendingSeverity = s], NoCandidate)
     ELSE IF at - m.conditionMetSince >= durationFor(r, s)
     THEN Step(confirmed, Raise(s))
     ELSE Step(pending, NoCandidate)

\* The condition is met at severity s.
unhealthyStep(r, m, s, at) ==
  LET confirmed == [m EXCEPT !.recoverySince = NoTime,
                             !.severity = s,
                             !.state = stateForSeverity[s]]
      pending == [m EXCEPT !.recoverySince = NoTime,
                           !.state = pendingStateForSeverity(s)]
  IN IF isActive(m.state) /\ severityRank[m.severity] >= severityRank[s]
     THEN Step(confirmed, Raise(s))
     ELSE IF m.pendingSeverity # s \/ m.conditionMetSince = NoTime
     THEN Step([pending EXCEPT !.conditionMetSince = at,
                               !.pendingSeverity = s], NoCandidate)
     ELSE IF at - m.conditionMetSince >= durationFor(r, s)
     THEN Step(confirmed, Raise(s))
     ELSE Step(pending, NoCandidate)

transitionState(r, m, v, at) ==
  IF v = "none" THEN healthyStep(r, m, at) ELSE unhealthyStep(r, m, v, at)

\* evaluateRuleTarget up to the incident engine.
decide(r, m, v, at) ==
  IF v = "keep" THEN Step(m, NoCandidate) ELSE transitionState(r, m, v, at)

(***************************************************************************)
(* Evaluations in progress.  todo holds the rule/target pairs still to be  *)
(* visited, transitions what Evaluate has collected for the notifier.      *)
(***************************************************************************)
Idle == [running |-> FALSE, at |-> 0, observations |-> <<>>,
         todo |-> {}, transitions |-> <<>>]

Transition == [action : Action \ {"none"}, fingerprint : Fingerprints]

Evaluation == [running      : BOOLEAN,
               at           : Nat,
               observations : ObservationLists \cup {<<>>},
               todo         : SUBSET Pair,
               transitions  : Seq(Transition)]

Init ==
  /\ now = 0
  /\ memory = [p \in Pair |-> InitialMemory]
  /\ incidents = [f \in Fingerprints |-> NoIncident]
  /\ eval = [e \in Evaluator |-> Idle]
  /\ run = [p \in Pair |-> [severity |-> "none", since |-> 0]]

Tick ==
  /\ now < MaxTime
  /\ now' = now + 1
  /\ UNCHANGED <<memory, incidents, eval, run>>

Evaluate(e, observations) ==
  /\ ~eval[e].running
  /\ eval' = [eval EXCEPT ![e] =
       [running      |-> TRUE,
        at           |-> now,
        observations |-> observations,
        todo         |-> {p \in Pair :
                            /\ rule(p).enabled
                            /\ target(p) \in matchingTargets(rule(p),
                                                             observations)},
        transitions  |-> <<>>]]
  /\ UNCHANGED <<now, memory, incidents, run>>

\* Rules are visited in configuration order; within a rule any order of
\* targets is allowed, since it follows the order of the observations.
upNext(e, p) ==
  /\ eval[e].running
  /\ p \in eval[e].todo
  /\ \A q \in eval[e].todo : p[1] <= q[1]

verdictOf(e, p) == verdict(rule(p), eval[e].observations, target(p))
decision(e, p) == decide(rule(p), memory[p], verdictOf(e, p), eval[e].at)

\* What Apply does with the decision's candidate, if there is one.
applied(e, p) ==
  IF decision(e, p).candidate.present
  THEN Apply(incidentOf(p), decision(e, p).candidate, eval[e].at)
  ELSE Outcome(incidentOf(p), "none")

\* The run after one more verdict.
extended(r, v, at) ==
  IF v \in {"keep", r.severity} THEN r ELSE [severity |-> v, since |-> at]

\* Mutated form of evaluateRuleTarget: results without a transition are
\* reported too.
evaluateRuleTargetReportsAll(e, p) ==
  /\ upNext(e, p)
  /\ target(p) \in RejectedTarget => ~decision(e, p).candidate.present
  /\ memory' = [memory EXCEPT ![p] = decision(e, p).memory]
  /\ incidents' = [incidents EXCEPT ![fingerprint(p)] = applied(e, p).record]
  /\ eval' = [eval EXCEPT
       ![e].todo = @ \ {p},
       ![e].transitions = Append(@, [action |-> applied(e, p).action,
                                     fingerprint |-> fingerprint(p)])]
  /\ run' = [run EXCEPT ![p] = extended(@, verdictOf(e, p), eval[e].at)]
  /\ UNCHANGED now

\* The transaction of one pair commits.
evaluateRuleTarget(e, p) ==
  /\ upNext(e, p)
  /\ target(p) \in RejectedTarget => ~decision(e, p).candidate.present
  /\ memory' = [memory EXCEPT ![p] = decision(e, p).memory]
  /\ incidents' = [incidents EXCEPT ![fingerprint(p)] = applied(e, p).record]
  /\ eval' = [eval EXCEPT
       ![e].todo = @ \ {p},
       ![e].transitions =
          IF applied(e, p).action = "none" THEN @
          ELSE Append(@, [action |-> applied(e, p).action,
                          fingerprint |-> fingerprint(p)])]
  /\ run' = [run EXCEPT ![p] = extended(@, verdictOf(e, p), eval[e].at)]
  /\ UNCHANGED now

\* Evaluate returns its transitions to the scheduler.
FinishEvaluate(e) ==
  /\ eval[e].running
  /\ eval[e].todo = {}
  /\ eval' = [eval EXCEPT ![e] = Idle]
  /\ UNCHANGED <<now, memory, incidents, run>>

\* The context ends, a statement of the transaction fails (a busy database,
\* a rejected fingerprint) and the transaction rolls back, or the process
\* dies: the rest of the rules is not visited.
AbortEvaluate(e) ==
  /\ eval[e].running
  /\ eval[e].todo # {}
  /\ eval' = [eval EXCEPT ![e] = Idle]
  /\ UNCHANGED <<now, memory, incidents, run>>

Next ==
  \/ Tick
  \/ \E e \in Evaluator :
       \/ \E observations \in ObservationLists : Evaluate(e, observations)
       \/ \E p \in Pair : evaluateRuleTarget(e, p)
       \/ FinishEvaluate(e)
       \/ AbortEvaluate(e)

Spec == Init /\ [][Next]_vars
-----------------------------------------------------------------------------
(***************************************************************************)
(* Invariants.                                                             *)
(***************************************************************************)

\* The type of the persisted rows and of the evaluations in progress.
TypeOK ==
  /\ now \in Nat
  /\ memory \in [Pair -> EvaluationMemory]
  /\ incidents \in [Fingerprints -> IncidentRecord]
  /\ eval \in [Evaluator -> Evaluation]
  /\ run \in [Pair -> [severity : Severity, since : Nat]]

\* Which memory fields go with which rule state.
consistent(m) ==
  /\ m.state = "OK" => m = InitialMemory
  /\ m.state = "RECOVERED" =>
       /\ m.severity = "none"
       /\ m.conditionMetSince = NoTime
       /\ m.pendingSeverity = "none"
  /\ m.state \in {"WARN", "FAIL", "CRITICAL"} =>
       /\ m.severity \in ActiveSeverity
       /\ m.state = stateForSeverity[m.severity]
       /\ m.recoverySince = NoTime
  /\ m.state = "RECOVERING" =>
       /\ m.severity \in ActiveSeverity
       /\ m.recoverySince # NoTime
  /\ m.state \in PendingState =>
       /\ m.recoverySince = NoTime
       /\ m.conditionMetSince # NoTime
       /\ m.pendingSeverity \in ActiveSeverity
       /\ m.state = pendingStateForSeverity(m.pendingSeverity)

\* What a memory claims about the run r of its rule and target.
tells(m, r) ==
  /\ m.state \in {"OK", "RECOVERED"} => r.severity = "none"
  /\ m.state \in {"WARN", "FAIL", "CRITICAL"} => r.severity = m.severity
  /\ m.state = "RECOVERING" =>
       r.severity = "none" /\ r.since = m.recoverySince
  /\ m.state \in PendingState /\ m.severity = "none" =>
       r.severity = m.pendingSeverity /\ r.since = m.conditionMetSince

\* The fields the branches of transitionState leave behind never contradict
\* the state they return.
MemoryShape == \A p \in Pair : consistent(memory[p])

\* ConditionMetSince and RecoverySince mark the start of an uninterrupted run
\* of equal verdicts, whichever evaluator wrote them and however many
\* evaluations without a verdict or without a commit came in between.
MemoryTellsRun == \A p \in Pair : tells(memory[p], run[p])

\* A stored incident is open with a severity or not open and without one, and
\* has a resolution time exactly when it is resolved.
sound(i) ==
  /\ (i.status = "open") <=> (i.severity # "none")
  /\ (i.status = "resolved") <=> (i.resolvedAt # NoTime)
  /\ (i.status = "resolved") => i.resolvedAt = i.lastTransition

\* Every row that an interleaving of openings, updates, resolutions and
\* reopenings leaves behind is sound; the delivery key of a notification is
\* computed from these fields.
IncidentShape == \A f \in Fingerprints : sound(incidents[f])

\* docs/incident-lifecycle.md, "keep the existing warning incident" and "keep
\* the incident open": as long as a rule holds a severity (WARN, FAIL,
\* CRITICAL, RECOVERING, or PENDING on top of one of them), its incident is
\* open at that severity.
SeverityHasOpenIncident ==
  \A p \in Pair :
    memory[p].severity # "none" =>
      /\ incidentOf(p).status = "open"
      /\ incidentOf(p).severity = memory[p].severity

\* docs/incident-lifecycle.md, "`OK` to `PENDING_WARN`: no incident yet": a
\* rule and target that are OK have no open incident.  transitionState does
\* not keep this: PENDING_FAIL on top of WARN goes to OK without a candidate.
OkHasNoOpenIncident ==
  \A p \in Pair : memory[p].state = "OK" => incidentOf(p).status # "open"

\* No two rule/target pairs share an incident.  Validation of the
\* configuration does not ensure it, nor do the names that targets have.
DistinctFingerprints ==
  \A p, q \in Pair : fingerprint(p) = fingerprint(q) => p = q

(***************************************************************************)
(* Action properties.                                                      *)
(***************************************************************************)
opens(f) == incidents[f].status # "open" /\ incidents'[f].status = "open"
resolves(f) == incidents[f].status = "open" /\ incidents'[f].status = "resolved"
escalates(f) ==
  /\ incidents[f].status = "open"
  /\ severityRank[incidents'[f].severity] > severityRank[incidents[f].severity]

\* docs/rule-engine.md, "Sustained durations prevent a single sample from
\* opening an incident": an incident opens or reopens only on a verdict that
\* earlier evaluations of the same rule and target already had, without
\* another one in between, for at least the threshold's duration.
OpensWhenSustained ==
  [][\A f \in Fingerprints : opens(f) =>
       \E e \in Evaluator, p \in Pair :
         /\ fingerprint(p) = f
         /\ upNext(e, p)
         /\ run[p].severity = incidents'[f].severity
         /\ eval[e].at - run[p].since >=
              durationFor(rule(p), run[p].severity)]_vars

\* docs/rule-engine.md, "Recovery duration prevents brief healthy samples from
\* resolving an active incident too quickly": an incident is resolved only
\* after healthy verdicts alone for at least RecoverFor.
ResolvesWhenRecovered ==
  [][\A f \in Fingerprints : resolves(f) =>
       \E e \in Evaluator, p \in Pair :
         /\ fingerprint(p) = f
         /\ upNext(e, p)
         /\ run[p].severity = "none"
         /\ eval[e].at - run[p].since >= rule(p).recoverFor]_vars

\* The notifier learns of incidents only from the transitions of Evaluate: a
\* committed opening, escalation or resolution is the last transition of the
\* evaluation that committed it, under the action the notifier acts on.
ChangeIsReported ==
  [][\A f \in Fingerprints :
       LET reported(actions) ==
             \E e \in Evaluator :
               LET ts == eval'[e].transitions
               IN /\ Len(ts) = Len(eval[e].transitions) + 1
                  /\ ts[Len(ts)].fingerprint = f
                  /\ ts[Len(ts)].action \in actions
       IN /\ opens(f) => reported({"opened", "reopened"})
          /\ escalates(f) => reported({"escalated"})
          /\ resolves(f) => reported({"resolved"})]_vars

\* docs/incident-lifecycle.md, "`WARN` to `PENDING_FAIL`: keep the existing
\* warning incident" and "`PENDING_FAIL` to `FAIL`: escalate the existing
\* incident": a warning incident becomes a failure only out of PENDING_FAIL.
\* transitionState does not keep this: after FAIL and back to WARN the old
\* ConditionMetSince and PendingSeverity are still there, and one failing
\* sample goes from WARN to FAIL.
EscalatesFromPending ==
  [][\A p \in Pair :
       escalates(fingerprint(p)) /\ memory'[p].state = "FAIL" =>
         memory[p].state \in {"PENDING_FAIL", "FAIL"}]_vars

(***************************************************************************)
(* The rows seen through the incident engine's promise.                    *)
(***************************************************************************)
Lifecycle == INSTANCE IncidentLifecycle WITH
  status <- [f \in Fingerprints |-> incidents[f].status],
  severity <- [f \in Fingerprints |-> incidents[f].severity]

\* Whatever the interleaving of evaluations and aborts, the incident rows
\* move only as IncidentLifecycle allows.
ImplementsLifecycle == Lifecycle!Spec
=============================================================================
