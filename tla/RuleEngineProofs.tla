-------------------------- MODULE RuleEngineProofs --------------------------
(***************************************************************************)
(* Proofs about RuleEngine, for every rule list, target set, observation   *)
(* and number of concurrent evaluations.                                   *)
(***************************************************************************)
EXTENDS RuleEngine, SequenceTheorems, TLAPS

Verdict == Severity \cup {"keep"}
RunRecord == [severity : Severity, since : Nat]

(***************************************************************************)
(* Facts about the operators.                                              *)
(***************************************************************************)

\* Whatever the observations, verdict yields a severity or "keep".
LEMMA VerdictType ==
  ASSUME NEW r, NEW obs, NEW t
  PROVE  verdict(r, obs, t) \in Verdict
<1>1. ASSUME NEW policy
      PROVE  policySeverity(policy) \in Verdict
  BY DEF policySeverity, Verdict, Severity, ActiveSeverity
<1>2. desiredSeverityForTarget(r, obs, t) \in Severity
  BY DEF desiredSeverityForTarget, Severity, ActiveSeverity
<1>. QED  BY <1>1, <1>2 DEF verdict, Verdict

\* A configured rule has a natural duration for every level.
LEMMA DurationType ==
  ASSUME NEW r \in Rule, NEW s \in ActiveSeverity
  PROVE  durationFor(r, s) \in Nat
BY DEF durationFor, Rule, Threshold

\* A pair is a rule of the configuration and a target, and has a fingerprint.
LEMMA PairRule ==
  ASSUME NEW p \in Pair
  PROVE  rule(p) \in Rule /\ fingerprint(p) \in Fingerprints
<1>1. p[1] \in DOMAIN Rules
  BY DEF Pair
<1>2. rule(p) \in Rule
  BY <1>1, RulesAssumption DEF rule
<1>. QED  BY <1>2 DEF Fingerprints

\* The states and severities a step may leave.
LEMMA StateMaps ==
  ASSUME NEW s \in ActiveSeverity
  PROVE  /\ stateForSeverity[s] \in {"WARN", "FAIL", "CRITICAL"}
         /\ pendingStateForSeverity(s) \in PendingState
         /\ severityRank[s] > severityRank["none"]
BY DEF ActiveSeverity, Severity, stateForSeverity, pendingStateForSeverity,
       PendingState, severityRank

\* The healthy half of transitionState, on a consistent memory that tells the
\* run: the result is consistent, tells the extended run, and clears the
\* incident only at the end of a healthy run of at least RecoverFor.
LEMMA HealthyStep ==
  ASSUME NEW r \in Rule, NEW m \in EvaluationMemory, NEW h \in RunRecord,
         NEW at \in Nat, consistent(m), tells(m, h)
  PROVE  LET d == healthyStep(r, m, at)
         IN /\ d.memory \in EvaluationMemory
            /\ consistent(d.memory)
            /\ tells(d.memory, extended(h, "none", at))
            /\ \/ /\ d.candidate = NoCandidate
                  /\ d.memory.severity \in {"none", m.severity}
               \/ /\ d.candidate = Clear
                  /\ d.memory.severity = "none"
                  /\ h.severity = "none"
                  /\ at - h.since >= r.recoverFor
<1>. USE DEF healthyStep, Step, EvaluationMemory, consistent, tells, extended,
             RunRecord, State, Time, Severity
<1>1. CASE ~isActive(m.state)
  BY <1>1 DEF InitialMemory, NoTime, PendingState, ActiveState, isActive
<1>2. CASE isActive(m.state) /\ m.recoverySince = NoTime
  <2>1. m.state \in {"WARN", "FAIL", "CRITICAL"} /\ m.severity \in ActiveSeverity
    BY <1>2 DEF ActiveState, isActive
  <2>2. extended(h, "none", at) = [severity |-> "none", since |-> at]
    BY <2>1 DEF ActiveSeverity
  <2>3. healthyStep(r, m, at) =
          [memory |-> [m EXCEPT !.state = "RECOVERING", !.recoverySince = at],
           candidate |-> NoCandidate]
    BY <1>2
  <2>. DEFINE n == [m EXCEPT !.state = "RECOVERING", !.recoverySince = at]
  <2>4. n \in EvaluationMemory
    BY DEF ActiveState
  <2>5. n.state = "RECOVERING" /\ n.recoverySince = at /\ n.severity = m.severity
    OBVIOUS
  <2>6. consistent(n)
    BY <2>1, <2>5 DEF NoTime, PendingState
  <2>7. tells(n, [severity |-> "none", since |-> at])
    BY <2>5 DEF PendingState
  <2>8. /\ healthyStep(r, m, at).memory = n
        /\ healthyStep(r, m, at).candidate = NoCandidate
    BY <2>3
  <2>. HIDE DEF n, EvaluationMemory, consistent, tells, extended, healthyStep
  <2>. QED  BY <2>2, <2>8, <2>4, <2>5, <2>6, <2>7
<1>3. CASE /\ isActive(m.state) /\ m.recoverySince # NoTime
           /\ at - m.recoverySince >= r.recoverFor
  BY <1>3 DEF NoTime, PendingState, ActiveState, isActive, ActiveSeverity
<1>4. CASE /\ isActive(m.state) /\ m.recoverySince # NoTime
           /\ ~(at - m.recoverySince >= r.recoverFor)
  BY <1>4 DEF NoTime, PendingState, ActiveState, isActive, ActiveSeverity
<1>. QED  BY <1>1, <1>2, <1>3, <1>4

\* The unhealthy half: the candidate, if any, carries the asked severity, and
\* a memory that held no severity raises one only at the end of a run of it
\* that lasted the threshold's duration.
LEMMA UnhealthyStep ==
  ASSUME NEW r \in Rule, NEW m \in EvaluationMemory, NEW h \in RunRecord,
         NEW s \in ActiveSeverity, NEW at \in Nat, consistent(m), tells(m, h)
  PROVE  LET d == unhealthyStep(r, m, s, at)
         IN /\ d.memory \in EvaluationMemory
            /\ consistent(d.memory)
            /\ tells(d.memory, extended(h, s, at))
            /\ \/ /\ d.candidate = NoCandidate
                  /\ d.memory.severity = m.severity
               \/ /\ d.candidate = Raise(s)
                  /\ d.memory.severity = s
                  /\ \/ m.severity # "none"
                     \/ /\ h.severity = s
                        /\ at - h.since >= durationFor(r, s)
<1>. USE StateMaps DEF unhealthyStep, Step, EvaluationMemory, consistent,
             tells, extended, RunRecord, State, Time, Severity
<1>0. s # "none" /\ s # "keep"
  BY DEF ActiveSeverity
<1>a. m.severity = "none" => ~(severityRank[m.severity] >= severityRank[s])
  BY DEF severityRank, ActiveSeverity
<1>1. CASE isActive(m.state) /\ severityRank[m.severity] >= severityRank[s]
  BY <1>0, <1>a, <1>1 DEF NoTime, PendingState, ActiveState, isActive
<1>b. m.state \in {"OK", "RECOVERED"} => h.severity = "none"
  OBVIOUS
<1>c. isActive(m.state) => m.severity \in ActiveSeverity
  BY DEF isActive, ActiveState
<1>d. m.state \in PendingState => m.pendingSeverity \in ActiveSeverity
  OBVIOUS
<1>e. \/ isActive(m.state) \/ m.state \in PendingState
      \/ m.state = "OK" \/ m.state = "RECOVERED"
  BY DEF isActive
<1>2. CASE /\ ~(isActive(m.state) /\ severityRank[m.severity] >= severityRank[s])
           /\ m.pendingSeverity # s \/ m.conditionMetSince = NoTime
  <2>1. unhealthyStep(r, m, s, at) =
          [memory |-> [m EXCEPT !.recoverySince = NoTime,
                                !.state = pendingStateForSeverity(s),
                                !.conditionMetSince = at,
                                !.pendingSeverity = s],
           candidate |-> NoCandidate]
    BY <1>2
  <2>2. m.severity = "none" => h.severity # s
    <3>1. CASE isActive(m.state)
      BY <3>1, <1>c DEF ActiveSeverity
    <3>2. CASE m.state \in PendingState
      BY <3>2, <1>2
    <3>3. CASE m.state \in {"OK", "RECOVERED"}
      BY <3>3, <1>0, <1>b
    <3>. QED  BY <3>1, <3>2, <3>3, <1>e
  <2>. DEFINE n == [m EXCEPT !.recoverySince = NoTime,
                             !.state = pendingStateForSeverity(s),
                             !.conditionMetSince = at,
                             !.pendingSeverity = s]
  <2>3. n \in EvaluationMemory
    BY DEF NoTime
  <2>4. /\ n.state = pendingStateForSeverity(s) /\ n.recoverySince = NoTime
        /\ n.conditionMetSince = at /\ n.pendingSeverity = s
        /\ n.severity = m.severity
    OBVIOUS
  <2>5. n.state \in PendingState
    BY <2>4
  <2>6. consistent(n)
    BY <2>4, <2>5 DEF NoTime, PendingState
  <2>7. tells(n, extended(h, s, at))
    BY <1>0, <2>2, <2>4, <2>5 DEF PendingState
  <2>8. /\ unhealthyStep(r, m, s, at).memory = n
        /\ unhealthyStep(r, m, s, at).candidate = NoCandidate
    BY <2>1
  <2>. HIDE DEF n, EvaluationMemory, consistent, tells, extended, unhealthyStep
  <2>. QED  BY <2>8, <2>3, <2>4, <2>6, <2>7
<1>3. CASE /\ ~(isActive(m.state) /\ severityRank[m.severity] >= severityRank[s])
           /\ ~(m.pendingSeverity # s \/ m.conditionMetSince = NoTime)
           /\ at - m.conditionMetSince >= durationFor(r, s)
  <2>1. unhealthyStep(r, m, s, at) =
          [memory |-> [m EXCEPT !.recoverySince = NoTime,
                                !.severity = s,
                                !.state = stateForSeverity[s]],
           candidate |-> Raise(s)]
    BY <1>3
  <2>2. m.severity = "none" => m.state \in PendingState
    BY <1>0, <1>3, <1>c, <1>e DEF InitialMemory, ActiveSeverity
  <2>3. extended(h, s, at).severity = s
    BY <1>0
  <2>. QED
    BY <1>0, <1>3, <2>1, <2>2, <2>3 DEF NoTime, PendingState, ActiveState
<1>4. CASE /\ ~(isActive(m.state) /\ severityRank[m.severity] >= severityRank[s])
           /\ ~(m.pendingSeverity # s \/ m.conditionMetSince = NoTime)
           /\ ~(at - m.conditionMetSince >= durationFor(r, s))
  <2>1. unhealthyStep(r, m, s, at) =
          [memory |-> [m EXCEPT !.recoverySince = NoTime,
                                !.state = pendingStateForSeverity(s)],
           candidate |-> NoCandidate]
    BY <1>4
  <2>2. m.severity = "none" => m.state \in PendingState
    BY <1>0, <1>4, <1>c, <1>e DEF InitialMemory, ActiveSeverity
  <2>3. m.severity = "none" => extended(h, s, at) = h
    BY <1>4, <2>2
  <2>. QED
    BY <1>0, <1>4, <2>1, <2>2, <2>3 DEF NoTime, PendingState, ActiveState
<1>. QED  BY <1>1, <1>2, <1>3, <1>4

\* The incident engine on a result that raises severity s: the row is open at
\* s, a transition is always reported, and reported as an opening exactly when
\* the row was not open.
LEMMA ApplyRaise ==
  ASSUME NEW i \in IncidentRecord, NEW s \in ActiveSeverity, NEW at \in Nat,
         sound(i)
  PROVE  LET o == Apply(i, Raise(s), at)
         IN /\ o.record \in IncidentRecord
            /\ sound(o.record)
            /\ o.record.status = "open"
            /\ o.record.severity = s
            /\ o.action \in Action \ {"none"}
BY DEF Apply, Raise, open, updateActive, Outcome, IncidentRecord, sound, Action,
       Status, Severity, ActiveSeverity, Time, NoTime

\* The incident engine on a result that clears: the row is not open.
LEMMA ApplyClear ==
  ASSUME NEW i \in IncidentRecord, NEW at \in Nat, sound(i)
  PROVE  LET o == Apply(i, Clear, at)
         IN /\ o.record \in IncidentRecord
            /\ sound(o.record)
            /\ i.status = "open" => o.record.status = "resolved"
            /\ i.status # "open" => o.record = i
            /\ o.action \in Action
BY DEF Apply, Clear, resolve, Outcome, IncidentRecord, sound, Action, Status,
       Severity, ActiveSeverity, Time, NoTime

(***************************************************************************)
(* One transaction: what an evaluation decides for a pair.                 *)
(***************************************************************************)
MemoryInv == TypeOK /\ MemoryShape /\ MemoryTellsRun

\* The decision keeps the memory consistent, true to the extended run, and
\* falls in one of three cases: no candidate and no severity gained, a
\* deserved recovery, or a raised severity that the memory already had one of
\* or that was sustained.
LEMMA DecisionFacts ==
  ASSUME MemoryInv, NEW e \in Evaluator, NEW p \in Pair
  PROVE  LET d == decision(e, p)
             at == eval[e].at
         IN /\ d.memory \in EvaluationMemory
            /\ consistent(d.memory)
            /\ extended(run[p], verdictOf(e, p), at) \in RunRecord
            /\ tells(d.memory, extended(run[p], verdictOf(e, p), at))
            /\ \/ /\ d.candidate = NoCandidate
                  /\ d.memory.severity \in {"none", memory[p].severity}
               \/ /\ d.candidate = Clear
                  /\ d.memory.severity = "none"
                  /\ run[p].severity = "none"
                  /\ at - run[p].since >= rule(p).recoverFor
               \/ \E s \in ActiveSeverity :
                    /\ d.candidate = Raise(s)
                    /\ d.memory.severity = s
                    /\ \/ memory[p].severity # "none"
                       \/ /\ run[p].severity = s
                          /\ at - run[p].since >= durationFor(rule(p), s)
<1>. DEFINE v == verdictOf(e, p)
            at == eval[e].at
<1>1. /\ memory[p] \in EvaluationMemory /\ run[p] \in RunRecord /\ at \in Nat
      /\ consistent(memory[p]) /\ tells(memory[p], run[p])
      /\ rule(p) \in Rule
  BY PairRule DEF MemoryInv, TypeOK, MemoryShape, MemoryTellsRun, RunRecord,
                  Evaluation
<1>2. v \in Verdict
  BY VerdictType DEF verdictOf
<1>. HIDE DEF v, at
<1>3. extended(run[p], v, at) \in RunRecord
  BY <1>1, <1>2 DEF extended, RunRecord, Verdict
<1>4. CASE v = "keep"
  <2>1. decide(rule(p), memory[p], v, at).memory = memory[p]
    BY <1>4 DEF decide, Step
  <2>2. decide(rule(p), memory[p], v, at).candidate = NoCandidate
    BY <1>4 DEF decide, Step
  <2>3. extended(run[p], v, at) = run[p]
    BY <1>4 DEF extended
  <2>. QED  BY <1>1, <1>3, <2>1, <2>2, <2>3 DEF decision, v, at
<1>5. CASE v = "none"
  <2>1. decide(rule(p), memory[p], v, at) = healthyStep(rule(p), memory[p], at)
    BY <1>5 DEF decide, transitionState
  <2>. QED  BY <1>1, <1>3, <1>5, <2>1, HealthyStep DEF decision, v, at
<1>6. CASE v \in ActiveSeverity
  <2>1. decide(rule(p), memory[p], v, at)
          = unhealthyStep(rule(p), memory[p], v, at)
    BY <1>6 DEF decide, transitionState, ActiveSeverity
  <2>. QED  BY <1>1, <1>3, <1>6, <2>1, UnhealthyStep DEF decision, v, at
<1>. QED  BY <1>2, <1>4, <1>5, <1>6 DEF Verdict, Severity

(***************************************************************************)
(* The inductive invariant that needs no assumption on fingerprints.       *)
(***************************************************************************)
RowsInv == MemoryInv /\ IncidentShape

\* What one committed transaction writes to the pair's incident.
LEMMA AppliedFacts ==
  ASSUME RowsInv, NEW e \in Evaluator, NEW p \in Pair
  PROVE  /\ applied(e, p).record \in IncidentRecord
         /\ sound(applied(e, p).record)
         /\ applied(e, p).action \in Action
<1>1. /\ incidentOf(p) \in IncidentRecord /\ sound(incidentOf(p))
      /\ eval[e].at \in Nat
  BY PairRule DEF RowsInv, MemoryInv, TypeOK, IncidentShape, incidentOf,
                  Evaluation
<1>2. \/ decision(e, p).candidate \in {NoCandidate, Clear}
      \/ \E s \in ActiveSeverity : decision(e, p).candidate = Raise(s)
  BY DecisionFacts DEF RowsInv
<1>3. CASE decision(e, p).candidate = NoCandidate
  BY <1>1, <1>3 DEF applied, Outcome, NoCandidate, Action
<1>4. CASE decision(e, p).candidate = Clear
  <2>1. applied(e, p) = Apply(incidentOf(p), Clear, eval[e].at)
    BY <1>4 DEF applied, Clear
  <2>. QED  BY <1>1, <2>1, ApplyClear
<1>5. ASSUME NEW s \in ActiveSeverity, decision(e, p).candidate = Raise(s)
      PROVE  /\ applied(e, p).record \in IncidentRecord
             /\ sound(applied(e, p).record)
             /\ applied(e, p).action \in Action
  <2>1. applied(e, p) = Apply(incidentOf(p), Raise(s), eval[e].at)
    BY <1>5 DEF applied, Raise
  <2>. QED  BY <1>1, <2>1, ApplyRaise
<1>. QED  BY <1>2, <1>3, <1>4, <1>5

\* Empty tables satisfy the invariant on the rows.
LEMMA RowsInit == Init => RowsInv
<1>. SUFFICES ASSUME Init PROVE RowsInv
  OBVIOUS
<1>1. TypeOK
  BY DEF Init, TypeOK, InitialMemory, EvaluationMemory, NoIncident,
         IncidentRecord, Idle, Evaluation, State, Severity, Status, Time
<1>2. MemoryShape /\ MemoryTellsRun
  BY DEF Init, MemoryShape, MemoryTellsRun, consistent, tells, InitialMemory,
         PendingState
<1>3. IncidentShape
  BY DEF Init, IncidentShape, sound, NoIncident
<1>. QED  BY <1>1, <1>2, <1>3 DEF RowsInv, MemoryInv

\* Every commit, start, end and abort of an evaluation preserves it.
LEMMA RowsNext == RowsInv /\ [Next]_vars => RowsInv'
<1>. SUFFICES ASSUME RowsInv, [Next]_vars PROVE RowsInv'
  OBVIOUS
<1>. USE DEF RowsInv, MemoryInv
<1>1. CASE Tick
  BY <1>1 DEF Tick, TypeOK, MemoryShape, MemoryTellsRun, IncidentShape
<1>2. ASSUME NEW e \in Evaluator, NEW obs \in ObservationLists, Evaluate(e, obs)
      PROVE  RowsInv'
  <2>1. TypeOK'
    BY <1>2 DEF Evaluate, TypeOK, Evaluation
  <2>2. (MemoryShape /\ MemoryTellsRun /\ IncidentShape)'
    BY <1>2 DEF Evaluate, MemoryShape, MemoryTellsRun, IncidentShape
  <2>. QED  BY <2>1, <2>2
<1>3. ASSUME NEW e \in Evaluator, NEW p \in Pair, evaluateRuleTarget(e, p)
      PROVE  RowsInv'
  <2>. DEFINE d == decision(e, p)
              o == applied(e, p)
              x == extended(run[p], verdictOf(e, p), eval[e].at)
  <2>1. /\ d.memory \in EvaluationMemory /\ consistent(d.memory)
        /\ x \in RunRecord /\ tells(d.memory, x)
    BY DecisionFacts
  <2>2. o.record \in IncidentRecord /\ sound(o.record) /\ o.action \in Action
    BY AppliedFacts
  <2>3. /\ memory' = [memory EXCEPT ![p] = d.memory]
        /\ incidents' = [incidents EXCEPT ![fingerprint(p)] = o.record]
        /\ run' = [run EXCEPT ![p] = x]
        /\ now' = now
    BY <1>3 DEF evaluateRuleTarget
  <2>4. eval' \in [Evaluator -> Evaluation]
    <3>. DEFINE ts == IF o.action = "none" THEN eval[e].transitions
                      ELSE Append(eval[e].transitions,
                                  [action |-> o.action,
                                   fingerprint |-> fingerprint(p)])
    <3>1. eval[e] \in Evaluation
      BY DEF TypeOK
    <3>2. eval[e].transitions \in Seq(Transition)
      BY <3>1 DEF Evaluation
    <3>3. o.action # "none" =>
            [action |-> o.action, fingerprint |-> fingerprint(p)] \in Transition
      BY <2>2, PairRule DEF Transition
    <3>4. ts \in Seq(Transition)
      <4>. HIDE DEF o
      <4>. QED  BY <3>2, <3>3, AppendProperties
    <3>5. eval' = [eval EXCEPT ![e].todo = @ \ {p}, ![e].transitions = ts]
      BY <1>3 DEF evaluateRuleTarget, TypeOK
    <3>. HIDE DEF ts
    <3>6. [eval[e] EXCEPT !.todo = @ \ {p}, !.transitions = ts] \in Evaluation
      BY <3>1, <3>4 DEF Evaluation
    <3>7. eval' = [eval EXCEPT ![e] =
                     [eval[e] EXCEPT !.todo = @ \ {p}, !.transitions = ts]]
      BY <3>5 DEF TypeOK
    <3>. QED  BY <3>6, <3>7 DEF TypeOK
  <2>. HIDE DEF d, o, x
  <2>5. TypeOK'
    BY <2>1, <2>2, <2>3, <2>4, PairRule DEF TypeOK, RunRecord
  <2>6. MemoryShape' /\ MemoryTellsRun'
    BY <2>1, <2>3 DEF MemoryShape, MemoryTellsRun, TypeOK
  <2>7. IncidentShape'
    BY <2>2, <2>3 DEF IncidentShape, TypeOK
  <2>. QED  BY <2>5, <2>6, <2>7
<1>4. ASSUME NEW e \in Evaluator, FinishEvaluate(e) \/ AbortEvaluate(e)
      PROVE  RowsInv'
  <2>1. Idle \in Evaluation
    BY DEF Idle, Evaluation
  <2>. HIDE DEF Idle
  <2>3. TypeOK'
    BY <1>4, <2>1 DEF FinishEvaluate, AbortEvaluate, TypeOK
  <2>2. (MemoryShape /\ MemoryTellsRun /\ IncidentShape)'
    BY <1>4 DEF FinishEvaluate, AbortEvaluate, MemoryShape, MemoryTellsRun,
                IncidentShape
  <2>. QED  BY <2>2, <2>3
<1>5. CASE UNCHANGED vars
  BY <1>5 DEF vars, TypeOK, MemoryShape, MemoryTellsRun, IncidentShape
<1>. QED  BY <1>1, <1>2, <1>3, <1>4, <1>5 DEF Next

\* The persisted rows keep their types under any interleaving of evaluations.
THEOREM TypeCorrect == Spec => []TypeOK
<1>. USE DEF RowsInv, MemoryInv
<1>. QED  BY RowsInit, RowsNext, PTL DEF Spec

\* Rule memory never contradicts its state, and its two timestamps mark the
\* start of an uninterrupted run of verdicts, also when two processes evaluate
\* with different clock readings and evaluations fail half way.
THEOREM MemoryCorrect == Spec => [](MemoryShape /\ MemoryTellsRun)
<1>. USE DEF RowsInv, MemoryInv
<1>. QED  BY RowsInit, RowsNext, PTL DEF Spec

\* Every stored incident is sound.
THEOREM IncidentCorrect == Spec => []IncidentShape
<1>. USE DEF RowsInv, MemoryInv
<1>. QED  BY RowsInit, RowsNext, PTL DEF Spec

(***************************************************************************)
(* A rule that holds a severity has an open incident.  This needs pairs    *)
(* with incidents of their own, which DistinctFingerprints says: nothing   *)
(* in the code keeps two rules from watching one series, or two targets    *)
(* from having names of which the fingerprint's text is the same.          *)
(***************************************************************************)
CouplingInv == RowsInv /\ SeverityHasOpenIncident

\* The incident a transaction leaves, in the three cases of DecisionFacts.
LEMMA AppliedCases ==
  ASSUME RowsInv, NEW e \in Evaluator, NEW p \in Pair
  PROVE  LET d == decision(e, p)
             new == applied(e, p).record
         IN \/ /\ new = incidentOf(p)
               /\ d.memory.severity \in {"none", memory[p].severity}
            \/ /\ new.status # "open"
               /\ d.memory.severity = "none"
               /\ run[p].severity = "none"
               /\ eval[e].at - run[p].since >= rule(p).recoverFor
            \/ \E s \in ActiveSeverity :
                 /\ new.status = "open"
                 /\ new.severity = s
                 /\ d.memory.severity = s
                 /\ \/ memory[p].severity # "none"
                    \/ /\ run[p].severity = s
                       /\ eval[e].at - run[p].since >= durationFor(rule(p), s)
<1>1. /\ incidentOf(p) \in IncidentRecord /\ sound(incidentOf(p))
      /\ eval[e].at \in Nat
  BY PairRule DEF RowsInv, MemoryInv, TypeOK, IncidentShape, incidentOf,
                  Evaluation
<1>2. MemoryInv
  BY DEF RowsInv
<1>a. /\ NoCandidate # Clear
      /\ \A s \in ActiveSeverity : Raise(s) # NoCandidate /\ Raise(s) # Clear
  <2>1. ~NoCandidate.present /\ Clear.present /\ ~Clear.active
    BY DEF NoCandidate, Clear
  <2>2. \A s : Raise(s).present /\ Raise(s).active
    BY DEF Raise
  <2>. QED  BY <2>1, <2>2
<1>3. CASE decision(e, p).candidate = NoCandidate
  <2>1. applied(e, p).record = incidentOf(p)
    BY <1>3 DEF applied, NoCandidate, Outcome
  <2>. QED  BY <1>2, <1>3, <1>a, <2>1, DecisionFacts
<1>4. CASE decision(e, p).candidate = Clear
  <2>1. applied(e, p) = Apply(incidentOf(p), Clear, eval[e].at)
    BY <1>4 DEF applied, Clear
  <2>2. applied(e, p).record.status # "open"
    BY <1>1, <2>1, ApplyClear
  <2>. QED  BY <1>2, <1>4, <1>a, <2>2, DecisionFacts
<1>5. ASSUME NEW s \in ActiveSeverity, decision(e, p).candidate = Raise(s)
      PROVE  /\ applied(e, p).record.status = "open"
             /\ applied(e, p).record.severity = s
  <2>1. applied(e, p) = Apply(incidentOf(p), Raise(s), eval[e].at)
    BY <1>5 DEF applied, Raise
  <2>. QED  BY <1>1, <2>1, ApplyRaise
<1>. QED  BY <1>2, <1>3, <1>4, <1>5, DecisionFacts

\* No memory row holds a severity at first.
LEMMA CouplingInit == Init => CouplingInv
BY RowsInit DEF Init, CouplingInv, SeverityHasOpenIncident, InitialMemory

\* With a fingerprint per rule and target, every step keeps severities backed
\* by open incidents.
LEMMA CouplingNext ==
  DistinctFingerprints /\ CouplingInv /\ [Next]_vars => CouplingInv'
<1>. SUFFICES ASSUME DistinctFingerprints, CouplingInv, [Next]_vars
              PROVE  SeverityHasOpenIncident'
  BY RowsNext DEF CouplingInv
<1>1. ASSUME UNCHANGED <<memory, incidents>>
      PROVE  SeverityHasOpenIncident'
  BY <1>1 DEF CouplingInv, SeverityHasOpenIncident, incidentOf
<1>2. ASSUME NEW e \in Evaluator, NEW p \in Pair, evaluateRuleTarget(e, p),
             NEW q \in Pair, memory'[q].severity # "none"
      PROVE  /\ incidents'[fingerprint(q)].status = "open"
             /\ incidents'[fingerprint(q)].severity = memory'[q].severity
  <2>1. /\ memory' = [memory EXCEPT ![p] = decision(e, p).memory]
        /\ incidents' = [incidents EXCEPT ![fingerprint(p)] = applied(e, p).record]
    BY <1>2 DEF evaluateRuleTarget
  <2>2. /\ memory \in [Pair -> EvaluationMemory]
        /\ incidents \in [Fingerprints -> IncidentRecord]
        /\ fingerprint(p) \in Fingerprints /\ fingerprint(q) \in Fingerprints
    BY PairRule DEF CouplingInv, RowsInv, MemoryInv, TypeOK
  <2>3. CASE q # p
    <3>1. fingerprint(q) # fingerprint(p)
      BY <2>3 DEF DistinctFingerprints
    <3>2. memory'[q] = memory[q] /\ incidents'[fingerprint(q)] = incidents[fingerprint(q)]
      BY <2>1, <2>2, <2>3, <3>1
    <3>. QED
      BY <1>2, <3>2 DEF CouplingInv, SeverityHasOpenIncident, incidentOf
  <2>4. CASE q = p
    <3>1. /\ memory'[q] = decision(e, p).memory
          /\ incidents'[fingerprint(q)] = applied(e, p).record
      BY <2>1, <2>2, <2>4
    <3>2. memory[p].severity # "none" =>
            /\ incidentOf(p).status = "open"
            /\ incidentOf(p).severity = memory[p].severity
      BY DEF CouplingInv, SeverityHasOpenIncident
    <3>. QED
      BY <1>2, <3>1, <3>2, AppliedCases DEF CouplingInv
  <2>. QED  BY <2>3, <2>4
<1>3. ASSUME NEW e \in Evaluator, NEW p \in Pair, evaluateRuleTarget(e, p)
      PROVE  SeverityHasOpenIncident'
  BY <1>2, <1>3 DEF SeverityHasOpenIncident, incidentOf
<1>. QED
  BY <1>1, <1>3 DEF Next, vars, Tick, Evaluate, FinishEvaluate, AbortEvaluate

\* With an incident of its own, a rule that holds a severity always has an open
\* incident at that severity (docs/incident-lifecycle.md, "keep the existing
\* warning incident", "keep the incident open").
THEOREM SeverityCoupled ==
  DistinctFingerprints => (Spec => []SeverityHasOpenIncident)
<1>. SUFFICES ASSUME DistinctFingerprints
              PROVE  Spec => []SeverityHasOpenIncident
  OBVIOUS
<1>1. CouplingInv /\ [Next]_vars => CouplingInv'
  BY CouplingNext
<1>2. CouplingInv => SeverityHasOpenIncident
  BY DEF CouplingInv
<1>. QED  BY CouplingInit, <1>1, <1>2, PTL DEF Spec

(***************************************************************************)
(* Action properties.                                                      *)
(***************************************************************************)

\* A step that changes an incident is the transaction of a pair with its
\* fingerprint.
LEMMA IncidentStep ==
  ASSUME RowsInv, [Next]_vars, NEW f \in Fingerprints, incidents'[f] # incidents[f]
  PROVE  \E e \in Evaluator, p \in Pair :
           /\ evaluateRuleTarget(e, p)
           /\ fingerprint(p) = f
           /\ incidents[f] = incidentOf(p)
           /\ incidents'[f] = applied(e, p).record
<1>1. PICK e \in Evaluator, p \in Pair : evaluateRuleTarget(e, p)
  BY DEF Next, vars, Tick, Evaluate, FinishEvaluate, AbortEvaluate
<1>2. /\ incidents' = [incidents EXCEPT ![fingerprint(p)] = applied(e, p).record]
      /\ incidents \in [Fingerprints -> IncidentRecord]
  BY <1>1 DEF evaluateRuleTarget, RowsInv, MemoryInv, TypeOK
<1>3. fingerprint(p) = f
  BY <1>2
<1>. QED  BY <1>1, <1>2, <1>3 DEF incidentOf

\* What Apply says it did is what it did to the row.
LEMMA AppliedAction ==
  ASSUME RowsInv, NEW e \in Evaluator, NEW p \in Pair
  PROVE  LET old == incidentOf(p)
             new == applied(e, p).record
             action == applied(e, p).action
         IN /\ old.status # "open" /\ new.status = "open" =>
                 action \in {"opened", "reopened"}
            /\ /\ old.status = "open"
               /\ severityRank[new.severity] > severityRank[old.severity]
               => action = "escalated"
            /\ old.status = "open" /\ new.status = "resolved" =>
                 action = "resolved"
<1>. DEFINE old == incidentOf(p)
            at == eval[e].at
<1>1. old \in IncidentRecord /\ sound(old) /\ at \in Nat /\ MemoryInv
  BY PairRule DEF RowsInv, MemoryInv, TypeOK, IncidentShape, incidentOf,
                  Evaluation
<1>2. severityRank[old.severity] \in Int /\ severityRank["none"] = 0
  BY <1>1 DEF IncidentRecord, Severity, ActiveSeverity, severityRank
<1>3. CASE decision(e, p).candidate = NoCandidate
  BY <1>2, <1>3 DEF applied, NoCandidate, Outcome
<1>4. CASE decision(e, p).candidate = Clear
  <2>1. applied(e, p) = Apply(old, Clear, at)
    BY <1>4 DEF applied, Clear
  <2>2. CASE old.status = "open"
    <3>1. applied(e, p) = Outcome([status         |-> "resolved",
                                   severity       |-> "none",
                                   lastTransition |-> at,
                                   resolvedAt     |-> at],
                                  "resolved")
      BY <2>1, <2>2 DEF Apply, Clear, resolve
    <3>2. severityRank[old.severity] >= 0
      BY <1>1 DEF IncidentRecord, Severity, ActiveSeverity, severityRank
    <3>. QED  BY <1>2, <2>2, <3>1, <3>2 DEF Outcome
  <2>3. CASE old.status # "open"
    <3>1. sound(applied(e, p).record) /\ applied(e, p).record.status # "open"
      BY <1>1, <2>1, <2>3, ApplyClear, AppliedFacts
    <3>. QED  BY <2>3, <3>1
  <2>. QED  BY <2>2, <2>3
<1>5. ASSUME NEW s \in ActiveSeverity, decision(e, p).candidate = Raise(s)
      PROVE  /\ old.status # "open" =>
                  applied(e, p).action \in {"opened", "reopened"}
             /\ /\ old.status = "open"
                /\ severityRank[s] > severityRank[old.severity]
                => applied(e, p).action = "escalated"
             /\ applied(e, p).record.status = "open"
             /\ applied(e, p).record.severity = s
  <2>1. applied(e, p) = Apply(old, Raise(s), at)
    BY <1>5 DEF applied, Raise
  <2>2. old.status \in {"absent", "open", "resolved"}
    BY <1>1 DEF IncidentRecord, Status
  <2>3. CASE old.status = "absent"
    BY <2>1, <2>3 DEF Apply, Raise, open, Outcome
  <2>4. CASE old.status # "absent"
    <3>1. applied(e, p) = updateActive(old, Raise(s), at)
      BY <2>1, <2>4 DEF Apply, Raise
    <3>. QED  BY <2>2, <2>4, <3>1 DEF updateActive, Raise, Outcome
  <2>. QED  BY <2>3, <2>4
<1>. QED  BY <1>1, <1>3, <1>4, <1>5, DecisionFacts

\* Every opening, reopening, escalation and resolution that is committed is the
\* last transition of the evaluation that committed it, for every configuration
\* and any number of evaluations (engine.go 66-103, lifecycle.go 26-149).
THEOREM EveryChangeReported == Spec => ChangeIsReported
<1>. DEFINE reported(f, actions) ==
              \E e \in Evaluator :
                LET ts == eval'[e].transitions
                IN /\ Len(ts) = Len(eval[e].transitions) + 1
                   /\ ts[Len(ts)].fingerprint = f
                   /\ ts[Len(ts)].action \in actions
            told(f) == /\ opens(f) => reported(f, {"opened", "reopened"})
                       /\ escalates(f) => reported(f, {"escalated"})
                       /\ resolves(f) => reported(f, {"resolved"})
<1>1. ASSUME RowsInv, [Next]_vars, NEW f \in Fingerprints,
             opens(f) \/ escalates(f) \/ resolves(f)
      PROVE  told(f)
  <2>1. incidents'[f] # incidents[f]
    <3>1. severityRank[incidents[f].severity] \in Int
      BY <1>1 DEF RowsInv, MemoryInv, TypeOK, IncidentRecord, Severity,
                  ActiveSeverity, severityRank
    <3>. QED  BY <1>1, <3>1 DEF opens, escalates, resolves
  <2>2. PICK e \in Evaluator, p \in Pair :
           /\ evaluateRuleTarget(e, p)
           /\ fingerprint(p) = f
           /\ incidents[f] = incidentOf(p)
           /\ incidents'[f] = applied(e, p).record
    BY <1>1, <2>1, IncidentStep
  <2>. DEFINE action == applied(e, p).action
  <2>3. /\ opens(f) => action \in {"opened", "reopened"}
        /\ escalates(f) => action = "escalated"
        /\ resolves(f) => action = "resolved"
    BY <1>1, <2>2, AppliedAction DEF opens, escalates, resolves
  <2>4. action # "none"
    BY <1>1, <2>3
  <2>5. /\ eval[e].transitions \in Seq(Transition)
        /\ eval \in [Evaluator -> Evaluation]
    BY <1>1 DEF RowsInv, MemoryInv, TypeOK, Evaluation
  <2>6. eval'[e].transitions =
          Append(eval[e].transitions, [action |-> action, fingerprint |-> f])
    BY <2>2, <2>4, <2>5 DEF evaluateRuleTarget, Evaluation
  <2>7. ASSUME NEW actions, action \in actions
        PROVE  reported(f, actions)
    BY <2>5, <2>6, <2>7
  <2>. QED  BY <2>3, <2>7
<1>2. RowsInv /\ [Next]_vars => [\A f \in Fingerprints : told(f)]_vars
  BY <1>1
<1>. QED  BY <1>2, RowsInit, RowsNext, PTL DEF Spec, ChangeIsReported

\* docs/rule-engine.md, "Recovery duration prevents brief healthy samples from
\* resolving an active incident too quickly", for every configuration.
THEOREM ResolutionDeserved == Spec => ResolvesWhenRecovered
<1>1. ASSUME RowsInv, [Next]_vars, NEW f \in Fingerprints, resolves(f)
      PROVE  \E e \in Evaluator, p \in Pair :
               /\ fingerprint(p) = f
               /\ upNext(e, p)
               /\ run[p].severity = "none"
               /\ eval[e].at - run[p].since >= rule(p).recoverFor
  <2>1. incidents'[f] # incidents[f] /\ incidents'[f].status # "open"
    BY <1>1 DEF resolves
  <2>2. PICK e \in Evaluator, p \in Pair :
           /\ evaluateRuleTarget(e, p)
           /\ fingerprint(p) = f
           /\ incidents[f] = incidentOf(p)
           /\ incidents'[f] = applied(e, p).record
    BY <1>1, <2>1, IncidentStep
  <2>3. upNext(e, p)
    BY <2>2 DEF evaluateRuleTarget
  <2>. QED  BY <1>1, <2>1, <2>2, <2>3, AppliedCases
<1>2. RowsInv /\ [Next]_vars =>
        [\A f \in Fingerprints : resolves(f) =>
           \E e \in Evaluator, p \in Pair :
             /\ fingerprint(p) = f
             /\ upNext(e, p)
             /\ run[p].severity = "none"
             /\ eval[e].at - run[p].since >= rule(p).recoverFor]_vars
  BY <1>1
<1>. QED  BY <1>2, RowsInit, RowsNext, PTL DEF Spec, ResolvesWhenRecovered

(***************************************************************************)
(* What a resolution rests on.  Rules for any target visit only what was   *)
(* observed, and a rule on events sees an event or nothing (condition.go   *)
(* 105-169): no policy for missing or stale data ends an incident.         *)
(***************************************************************************)
endsIncident(f) ==
  incidents[f].status = "open" /\ incidents'[f].status # "open"

\* A sample of the pair's target that meets no level of its rule.
isHealthy(p, s) ==
  \A level \in ActiveSeverity :
    rule(p).threshold[level].set =>
      ~thresholdMatches(rule(p).threshold[level], s)

\* An incident ends only on the evidence of a healthy sample of its own
\* target, in a collection whose status for the rule's collector is clean: an
\* incident whose target is gone from the observations stays open
\* (condition.go 105).
EndsOnEvidence ==
  [][\A f \in Fingerprints : endsIncident(f) =>
       \E e \in Evaluator, p \in Pair :
         /\ fingerprint(p) = f
         /\ upNext(e, p)
         /\ observationStatus(rule(p), eval[e].observations) = ""
         /\ \E s \in matchesForTarget(rule(p), eval[e].observations,
                                      target(p)) : isHealthy(p, s)]_vars

\* A rule that selects an event and has a level which that event meets.
onEvent(r) ==
  /\ r.metric = ""
  /\ \E level \in ActiveSeverity :
       /\ r.threshold[level].set
       /\ r.threshold[level].operator = "event_category_match"
       /\ r.threshold[level].text = r.eventCategory

\* The open incident of rules on an event category never ends, whatever their
\* recover_for and their policies (engine.go 139).
EventIncidentsStay ==
  [][\A f \in Fingerprints :
       (\A p \in Pair : fingerprint(p) = f => onEvent(rule(p))) =>
         ~endsIncident(f)]_vars

\* Only the verdict "none" clears an incident: the policies ask for a severity
\* or leave the memory as it was.
LEMMA OnlyHealthClears ==
  ASSUME MemoryInv, NEW e \in Evaluator, NEW p \in Pair,
         decision(e, p).candidate = Clear
  PROVE  verdictOf(e, p) = "none"
<1>. DEFINE m == memory[p]
            v == verdictOf(e, p)
            at == eval[e].at
<1>1. v \in Verdict
  BY VerdictType DEF verdictOf
<1>2. decision(e, p) = decide(rule(p), m, v, at)
  BY DEF decision
<1>3. Clear.present /\ ~Clear.active
  BY DEF Clear
<1>4. ~NoCandidate.present /\ \A s : Raise(s).active
  BY DEF NoCandidate, Raise
<1>. HIDE DEF m, v, at
<1>5. v # "keep"
  BY <1>2, <1>3, <1>4 DEF decide, Step
<1>6. ASSUME v \in ActiveSeverity
      PROVE  FALSE
  <2>1. decision(e, p) = unhealthyStep(rule(p), m, v, at)
    BY <1>2, <1>6 DEF decide, transitionState, ActiveSeverity
  <2>2. decision(e, p).candidate \in {Raise(v), NoCandidate}
    BY <2>1 DEF unhealthyStep, Step
  <2>. QED  BY <1>3, <1>4, <2>2
<1>. QED  BY <1>1, <1>5, <1>6 DEF Verdict, Severity, v

\* The verdict "none" comes from samples of the target, none of which meets a
\* level of the rule.
LEMMA HealthIsSeen ==
  ASSUME NEW e \in Evaluator, NEW p \in Pair, verdictOf(e, p) = "none"
  PROVE  /\ observationStatus(rule(p), eval[e].observations) = ""
         /\ \E s \in matchesForTarget(rule(p), eval[e].observations,
                                      target(p)) : isHealthy(p, s)
<1>. DEFINE class == observationStatus(rule(p), eval[e].observations)
            matches == matchesForTarget(rule(p), eval[e].observations,
                                        target(p))
            desired == desiredSeverityForTarget(rule(p), eval[e].observations,
                                                target(p))
<1>1. \A policy : policySeverity(policy) # "none"
  BY DEF policySeverity
<1>2. "none" = IF class \in {"unsupported", "counter_reset"} THEN "keep"
               ELSE IF class # "" THEN policySeverity(rule(p).staleData)
               ELSE IF matches = {} THEN policySeverity(rule(p).missingData)
               ELSE desired
  BY Zenon DEF verdictOf, verdict
<1>3. \A level \in ActiveSeverity :
        (/\ rule(p).threshold[level].set
         /\ \E s \in matches : thresholdMatches(rule(p).threshold[level], s))
        => desired # "none"
  BY DEF desiredSeverityForTarget, ActiveSeverity
<1>. HIDE DEF class, matches, desired
<1>4. class = "" /\ matches # {} /\ desired = "none"
  BY <1>1, <1>2
<1>5. PICK s : s \in matches
  BY <1>4
<1>6. isHealthy(p, s)
  BY <1>3, <1>4, <1>5 DEF isHealthy
<1>. QED  BY <1>4, <1>5, <1>6 DEF class, matches

\* Missing, stale or unsupported data never ends an incident, for every
\* configuration and any number of evaluations (engine.go 139-230,
\* condition.go 69-126).
THEOREM EndsRestOnEvidence == Spec => EndsOnEvidence
<1>. DEFINE backed(f) ==
              \E e \in Evaluator, p \in Pair :
                /\ fingerprint(p) = f
                /\ upNext(e, p)
                /\ observationStatus(rule(p), eval[e].observations) = ""
                /\ \E s \in matchesForTarget(rule(p), eval[e].observations,
                                             target(p)) : isHealthy(p, s)
<1>1. ASSUME RowsInv, [Next]_vars, NEW f \in Fingerprints, endsIncident(f)
      PROVE  backed(f)
  <2>1. incidents'[f] # incidents[f]
    BY <1>1 DEF endsIncident
  <2>2. PICK e \in Evaluator, p \in Pair :
           /\ evaluateRuleTarget(e, p)
           /\ fingerprint(p) = f
           /\ incidents[f] = incidentOf(p)
           /\ incidents'[f] = applied(e, p).record
    BY <1>1, <2>1, IncidentStep
  <2>3. /\ incidentOf(p).status = "open"
        /\ applied(e, p).record.status # "open"
    BY <1>1, <2>2 DEF endsIncident
  <2>4. decision(e, p).candidate = Clear
    <3>1. MemoryInv /\ incidentOf(p) \in IncidentRecord /\ eval[e].at \in Nat
      BY <1>1, PairRule DEF RowsInv, MemoryInv, TypeOK, incidentOf, Evaluation
    <3>2. decision(e, p).candidate # NoCandidate
      BY <2>3 DEF applied, NoCandidate, Outcome
    <3>3. ASSUME NEW s \in ActiveSeverity, decision(e, p).candidate = Raise(s)
          PROVE  FALSE
      <4>1. applied(e, p) = updateActive(incidentOf(p), Raise(s), eval[e].at)
        BY <2>3, <3>3 DEF applied, Apply, Raise
      <4>. QED  BY <2>3, <4>1 DEF updateActive, Outcome
    <3>. QED  BY <3>1, <3>2, <3>3, DecisionFacts
  <2>5. verdictOf(e, p) = "none"
    BY <1>1, <2>4, OnlyHealthClears DEF RowsInv
  <2>6. upNext(e, p)
    BY <2>2 DEF evaluateRuleTarget
  <2>. QED  BY <2>2, <2>5, <2>6, HealthIsSeen
<1>2. RowsInv /\ [Next]_vars =>
        [\A f \in Fingerprints : endsIncident(f) => backed(f)]_vars
  BY <1>1
<1>. QED  BY <1>2, RowsInit, RowsNext, PTL DEF Spec, EndsOnEvidence

\* A rule on an event category never resolves its incident, for every such rule
\* and any observations: what it selects is that event, which meets its level
\* (condition.go 128-208).
THEOREM EventsNeverResolve == Spec => EventIncidentsStay
<1>. DEFINE onEvents(f) ==
              \A p \in Pair : fingerprint(p) = f => onEvent(rule(p))
            backed(f) ==
              \E e \in Evaluator, p \in Pair :
                /\ fingerprint(p) = f
                /\ upNext(e, p)
                /\ observationStatus(rule(p), eval[e].observations) = ""
                /\ \E s \in matchesForTarget(rule(p), eval[e].observations,
                                             target(p)) : isHealthy(p, s)
<1>1. ASSUME NEW p \in Pair, NEW e \in Evaluator, onEvent(rule(p)),
             NEW s \in matchesForTarget(rule(p), eval[e].observations,
                                        target(p))
      PROVE  ~isHealthy(p, s)
  <2>1. selects(rule(p), s)
    BY DEF matchesForTarget, findMatches
  <2>2. s.kind = "event" /\ s.name = rule(p).eventCategory
    BY <1>1, <2>1 DEF selects, onEvent
  <2>3. PICK level \in ActiveSeverity :
           /\ rule(p).threshold[level].set
           /\ rule(p).threshold[level].operator = "event_category_match"
           /\ rule(p).threshold[level].text = rule(p).eventCategory
    BY <1>1 DEF onEvent
  <2>4. thresholdMatches(rule(p).threshold[level], s)
    BY <2>2, <2>3 DEF thresholdMatches
  <2>. QED  BY <2>3, <2>4 DEF isHealthy
<1>2. [\A f \in Fingerprints : endsIncident(f) => backed(f)]_vars =>
        [\A f \in Fingerprints : onEvents(f) => ~endsIncident(f)]_vars
  BY <1>1
<1>. QED  BY <1>2, EndsRestOnEvidence, PTL DEF EndsOnEvidence, EventIncidentsStay

\* docs/rule-engine.md, "Sustained durations prevent a single sample from
\* opening an incident", for every configuration whose pairs have incidents of
\* their own.
THEOREM OpeningSustained ==
  DistinctFingerprints => (Spec => OpensWhenSustained)
<1>. SUFFICES ASSUME DistinctFingerprints
              PROVE  Spec => OpensWhenSustained
  OBVIOUS
<1>1. ASSUME CouplingInv, [Next]_vars, NEW f \in Fingerprints, opens(f)
      PROVE  \E e \in Evaluator, p \in Pair :
               /\ fingerprint(p) = f
               /\ upNext(e, p)
               /\ run[p].severity = incidents'[f].severity
               /\ eval[e].at - run[p].since >=
                    durationFor(rule(p), run[p].severity)
  <2>0. RowsInv
    BY <1>1 DEF CouplingInv
  <2>1. /\ incidents'[f] # incidents[f]
        /\ incidents[f].status # "open" /\ incidents'[f].status = "open"
    BY <1>1 DEF opens
  <2>2. PICK e \in Evaluator, p \in Pair :
           /\ evaluateRuleTarget(e, p)
           /\ fingerprint(p) = f
           /\ incidents[f] = incidentOf(p)
           /\ incidents'[f] = applied(e, p).record
    BY <1>1, <2>0, <2>1, IncidentStep
  <2>3. upNext(e, p)
    BY <2>2 DEF evaluateRuleTarget
  <2>4. memory[p].severity = "none"
    BY <1>1, <2>1, <2>2 DEF CouplingInv, SeverityHasOpenIncident
  <2>. QED  BY <2>0, <2>1, <2>2, <2>3, <2>4, AppliedCases
<1>2. CouplingInv /\ [Next]_vars =>
        [\A f \in Fingerprints : opens(f) =>
           \E e \in Evaluator, p \in Pair :
             /\ fingerprint(p) = f
             /\ upNext(e, p)
             /\ run[p].severity = incidents'[f].severity
             /\ eval[e].at - run[p].since >=
                  durationFor(rule(p), run[p].severity)]_vars
  BY <1>1
<1>3. CouplingInv /\ [Next]_vars => CouplingInv'
  BY CouplingNext
<1>. QED  BY <1>2, <1>3, CouplingInit, PTL DEF Spec, OpensWhenSustained

(***************************************************************************)
(* Incidents that nobody resolves.  OkHasNoOpenIncident does not hold: a   *)
(* run shows a rule back at OK with its incident open.  How that comes     *)
(* about, and which configurations it cannot happen to.                    *)
(***************************************************************************)

\* A verdict takes a severity from a memory only with a candidate that clears
\* the incident, or in a pending state.
LEMMA SeverityGivenUp ==
  ASSUME MemoryInv, NEW e \in Evaluator, NEW p \in Pair,
         memory[p].severity # "none", decision(e, p).memory.severity = "none"
  PROVE  \/ decision(e, p).candidate = Clear
         \/ /\ memory[p].state \in PendingState
            /\ decision(e, p).candidate = NoCandidate
<1>. DEFINE m == memory[p]
            v == verdictOf(e, p)
            at == eval[e].at
<1>1. m \in EvaluationMemory /\ consistent(m)
  BY DEF MemoryInv, TypeOK, MemoryShape
<1>2. v \in Verdict
  BY VerdictType DEF verdictOf
<1>3. decision(e, p) = decide(rule(p), m, v, at) /\ m.severity # "none"
  BY DEF decision
<1>. HIDE DEF m, v, at
<1>4. CASE v = "keep"
  BY <1>3, <1>4 DEF decide, Step
<1>5. CASE v = "none"
  <2>1. decision(e, p) = healthyStep(rule(p), m, at)
    BY <1>3, <1>5 DEF decide, transitionState
  <2>2. CASE ~isActive(m.state)
    <3>1. m.state \in PendingState
      BY <1>1, <1>3, <2>2
         DEF EvaluationMemory, consistent, State, isActive, InitialMemory
    <3>2. decision(e, p).candidate = NoCandidate
      BY <2>1, <2>2 DEF healthyStep, Step
    <3>. QED  BY <3>1, <3>2 DEF m
  <2>3. CASE isActive(m.state)
    BY <1>1, <1>3, <2>1, <2>3 DEF healthyStep, Step, EvaluationMemory
  <2>. QED  BY <2>2, <2>3
<1>6. CASE v \in ActiveSeverity
  <2>1. decision(e, p) = unhealthyStep(rule(p), m, v, at)
    BY <1>3, <1>6 DEF decide, transitionState, ActiveSeverity
  <2>2. decision(e, p).memory.severity \in {v, m.severity}
    BY <1>1, <2>1 DEF unhealthyStep, Step, EvaluationMemory
  <2>. QED  BY <1>3, <1>6, <2>2 DEF ActiveSeverity
<1>. QED  BY <1>2, <1>4, <1>5, <1>6 DEF Verdict, Severity

givesUp(p) == memory[p].severity # "none" /\ memory'[p].severity = "none"

\* A rule gives up a severity in two ways: its incident is resolved, or it was
\* pending on top of that severity and leaves every incident as it is.
GivesUpOnlySo ==
  [][\A p \in Pair : givesUp(p) =>
       \/ incidents'[fingerprint(p)].status = "resolved"
       \/ memory[p].state \in PendingState /\ UNCHANGED incidents]_vars

\* With an incident of its own, a rule loses an incident that is open only out
\* of PENDING_WARN or PENDING_FAIL (transitionState, engine.go; the example is
\* the counterexample of OkHasNoOpenIncident).
THEOREM OrphansComeFromPending ==
  DistinctFingerprints => (Spec => GivesUpOnlySo)
<1>. SUFFICES ASSUME DistinctFingerprints PROVE Spec => GivesUpOnlySo
  OBVIOUS
<1>1. ASSUME CouplingInv, [Next]_vars, NEW p \in Pair, givesUp(p)
      PROVE  \/ incidents'[fingerprint(p)].status = "resolved"
             \/ memory[p].state \in PendingState /\ UNCHANGED incidents
  <2>0. RowsInv /\ MemoryInv
    BY <1>1 DEF CouplingInv, RowsInv
  <2>1. memory' # memory
    BY <1>1 DEF givesUp
  <2>2. PICK e \in Evaluator, q \in Pair : evaluateRuleTarget(e, q)
    BY <1>1, <2>1 DEF Next, vars, Tick, Evaluate, FinishEvaluate, AbortEvaluate
  <2>3. /\ memory' = [memory EXCEPT ![q] = decision(e, q).memory]
        /\ incidents' = [incidents EXCEPT ![fingerprint(q)] =
                           applied(e, q).record]
    BY <2>2 DEF evaluateRuleTarget
  <2>4. /\ memory \in [Pair -> EvaluationMemory]
        /\ incidents \in [Fingerprints -> IncidentRecord]
        /\ fingerprint(p) \in Fingerprints
        /\ eval[e].at \in Nat
    BY <2>0, PairRule DEF MemoryInv, TypeOK, Evaluation
  <2>5. q = p
    BY <1>1, <2>3, <2>4 DEF givesUp
  <2>6. decision(e, p).memory.severity = "none" /\ memory[p].severity # "none"
    BY <1>1, <2>3, <2>4, <2>5 DEF givesUp
  <2>7. CASE decision(e, p).candidate = Clear
    <3>1. applied(e, p) = Apply(incidentOf(p), Clear, eval[e].at)
      BY <2>7 DEF applied, Clear
    <3>2. incidentOf(p).status = "open"
      BY <1>1, <2>6 DEF CouplingInv, SeverityHasOpenIncident
    <3>3. applied(e, p).record.status = "resolved"
      BY <3>1, <3>2 DEF Apply, Clear, resolve, Outcome
    <3>. QED  BY <2>3, <2>4, <2>5, <3>3
  <2>8. CASE /\ memory[p].state \in PendingState
             /\ decision(e, p).candidate = NoCandidate
    <3>1. applied(e, p).record = incidents[fingerprint(p)]
      BY <2>8 DEF applied, NoCandidate, Outcome, incidentOf
    <3>2. incidents' = incidents
      BY <2>3, <2>4, <2>5, <3>1
    <3>. QED  BY <2>8, <3>2
  <2>. QED  BY <2>0, <2>6, <2>7, <2>8, SeverityGivenUp
<1>2. CouplingInv /\ [Next]_vars =>
        [\A p \in Pair : givesUp(p) =>
           \/ incidents'[fingerprint(p)].status = "resolved"
           \/ memory[p].state \in PendingState /\ UNCHANGED incidents]_vars
  BY <1>1
<1>3. CouplingInv /\ [Next]_vars => CouplingInv'
  BY CouplingNext
<1>. QED  BY <1>2, <1>3, CouplingInit, PTL DEF Spec, GivesUpOnlySo

(***************************************************************************)
(* A rule that can ask for one severity only is never pending on top of    *)
(* another.  With such rules an incident is open exactly as long as its    *)
(* rule holds a severity.                                                  *)
(***************************************************************************)

\* The thresholds that are set and the policies for missing and stale data ask
\* for s or for nothing.
asksOnlyFor(r, s) ==
  /\ \A t \in ActiveSeverity : r.threshold[t].set => t = s
  /\ policySeverity(r.missingData) \in {"keep", s}
  /\ policySeverity(r.staleData) \in {"keep", s}

OneLevelRules ==
  \A i \in DOMAIN Rules : \E s \in ActiveSeverity : asksOnlyFor(Rules[i], s)

levelOf(p) == CHOOSE s \in ActiveSeverity : asksOnlyFor(rule(p), s)

\* The verdicts of such a rule.
LEMMA OneLevelVerdict ==
  ASSUME OneLevelRules, NEW e, NEW p \in Pair
  PROVE  /\ levelOf(p) \in ActiveSeverity
         /\ verdictOf(e, p) \in {"keep", "none", levelOf(p)}
<1>1. p[1] \in DOMAIN Rules
  BY DEF Pair
<1>2. \E s \in ActiveSeverity : asksOnlyFor(rule(p), s)
  BY <1>1 DEF OneLevelRules, rule
<1>3. levelOf(p) \in ActiveSeverity /\ asksOnlyFor(rule(p), levelOf(p))
  BY <1>2, Zenon DEF levelOf
<1>4. ASSUME NEW obs, NEW t
      PROVE  desiredSeverityForTarget(rule(p), obs, t)
               \in {"none", levelOf(p)}
  BY <1>3 DEF desiredSeverityForTarget, asksOnlyFor, ActiveSeverity
<1>. QED
  BY <1>3, <1>4 DEF verdictOf, verdict, asksOnlyFor

\* What the memory of such a rule may hold.
OneLevelMemory(p, m) ==
  /\ m.severity \in {"none", levelOf(p)}
  /\ m.state \in PendingState => m.severity = "none"

\* A verdict keeps it so; a severity is given up only with the incident.
LEMMA OneLevelDecision ==
  ASSUME OneLevelRules, MemoryInv, NEW e \in Evaluator, NEW p \in Pair,
         OneLevelMemory(p, memory[p])
  PROVE  /\ OneLevelMemory(p, decision(e, p).memory)
         /\ \/ decision(e, p).memory.severity # "none"
            \/ decision(e, p).candidate = Clear
            \/ /\ memory[p].severity = "none"
               /\ decision(e, p).candidate = NoCandidate
<1>. DEFINE m == memory[p]
            v == verdictOf(e, p)
            at == eval[e].at
            s == levelOf(p)
            d == decision(e, p)
<1>1. m \in EvaluationMemory /\ consistent(m) /\ OneLevelMemory(p, m)
  BY DEF MemoryInv, TypeOK, MemoryShape
<1>2. s \in ActiveSeverity /\ v \in {"keep", "none", s}
  BY OneLevelVerdict
<1>3. d = decide(rule(p), m, v, at)
  BY DEF decision
<1>4. m.severity \in {"none", s} /\ (m.state \in PendingState => m.severity = "none")
  BY <1>1 DEF OneLevelMemory
<1>5. s # "none" /\ s # "keep"
  BY <1>2 DEF ActiveSeverity
<1>. HIDE DEF m, v, at, s, d
<1>6. CASE v = "keep"
  BY <1>3, <1>4, <1>6 DEF decide, Step, OneLevelMemory, m, s, d
<1>7. CASE v = "none"
  <2>1. d = healthyStep(rule(p), m, at)
    BY <1>3, <1>7 DEF decide, transitionState
  <2>2. CASE ~isActive(m.state)
    <3>1. m.severity = "none"
      BY <1>1, <1>4, <2>2
         DEF EvaluationMemory, consistent, State, isActive, InitialMemory
    <3>2. d.memory = InitialMemory /\ d.candidate = NoCandidate
      BY <2>1, <2>2 DEF healthyStep, Step
    <3>. QED
      BY <3>1, <3>2 DEF OneLevelMemory, InitialMemory, PendingState, m, d
  <2>3. CASE isActive(m.state)
    <3>1. /\ d.memory.state \in {"RECOVERING", "RECOVERED"}
          /\ \/ d.memory.severity = m.severity /\ m.severity # "none"
             \/ d.memory.severity = "none" /\ d.candidate = Clear
      BY <1>1, <2>1, <2>3 DEF healthyStep, Step, EvaluationMemory, consistent,
         isActive, ActiveState, ActiveSeverity
    <3>. QED
      BY <1>4, <3>1 DEF OneLevelMemory, PendingState, m, s, d
  <2>. QED  BY <2>2, <2>3
<1>8. CASE v = s
  <2>1. d = unhealthyStep(rule(p), m, s, at)
    BY <1>2, <1>3, <1>5, <1>8 DEF decide, transitionState
  <2>2. CASE isActive(m.state)
    <3>1. m.severity = s
      BY <1>1, <1>4, <2>2 DEF consistent, isActive, ActiveState, ActiveSeverity
    <3>2. severityRank[m.severity] >= severityRank[s]
      BY <1>2, <3>1 DEF severityRank, Severity, ActiveSeverity
    <3>3. d.memory.severity = s /\ d.memory.state = stateForSeverity[s]
      BY <1>1, <2>1, <2>2, <3>2 DEF unhealthyStep, Step, EvaluationMemory
    <3>4. stateForSeverity[s] \notin PendingState
      BY <1>2, StateMaps DEF PendingState
    <3>. QED  BY <1>5, <3>3, <3>4 DEF OneLevelMemory, s, d
  <2>3. CASE ~isActive(m.state)
    <3>1. m.severity = "none"
      BY <1>1, <1>4, <2>3
         DEF EvaluationMemory, consistent, State, isActive, InitialMemory
    <3>2. \/ d.memory.severity = s /\ d.memory.state = stateForSeverity[s]
          \/ d.memory.severity = "none" /\ d.candidate = NoCandidate
      BY <1>1, <2>1, <2>3, <3>1 DEF unhealthyStep, Step, EvaluationMemory
    <3>3. stateForSeverity[s] \notin PendingState
      BY <1>2, StateMaps DEF PendingState
    <3>. QED
      BY <1>5, <3>1, <3>2, <3>3 DEF OneLevelMemory, m, s, d
  <2>. QED  BY <2>2, <2>3
<1>. QED  BY <1>2, <1>6, <1>7, <1>8

\* An incident is open exactly as long as its rule holds a severity.
OpenIffHeld ==
  \A p \in Pair :
    (incidentOf(p).status = "open") <=> (memory[p].severity # "none")

OneLevelInv ==
  /\ CouplingInv
  /\ OpenIffHeld
  /\ \A p \in Pair : OneLevelMemory(p, memory[p])

\* The initial rows are of that invariant.
LEMMA OneLevelInit == Init => OneLevelInv
BY CouplingInit, PairRule
   DEF Init, OneLevelInv, OpenIffHeld, OneLevelMemory, InitialMemory,
       NoIncident, incidentOf, PendingState

\* A transaction writes the memory and the incident of one pair together.
LEMMA OneLevelNext ==
  DistinctFingerprints /\ OneLevelRules /\ OneLevelInv /\ [Next]_vars
    => OneLevelInv'
<1>. SUFFICES ASSUME DistinctFingerprints, OneLevelRules, OneLevelInv,
                     [Next]_vars
              PROVE  /\ OpenIffHeld'
                     /\ \A p \in Pair : OneLevelMemory(p, memory[p])'
  BY CouplingNext DEF OneLevelInv
<1>1. CASE UNCHANGED <<memory, incidents>>
  <2>1. \A p : (levelOf(p))' = levelOf(p)
    BY DEF levelOf, asksOnlyFor, rule
  <2>. QED
    BY <1>1, <2>1 DEF OneLevelInv, OpenIffHeld, OneLevelMemory, incidentOf
<1>2. ASSUME NEW e \in Evaluator, NEW p \in Pair, evaluateRuleTarget(e, p),
             NEW q \in Pair
      PROVE  /\ OneLevelMemory(q, memory[q])'
             /\ (incidents'[fingerprint(q)].status = "open")
                  <=> (memory'[q].severity # "none")
  <2>0. CouplingInv /\ RowsInv /\ MemoryInv
    BY DEF OneLevelInv, CouplingInv, RowsInv
  <2>1. /\ memory' = [memory EXCEPT ![p] = decision(e, p).memory]
        /\ incidents' = [incidents EXCEPT ![fingerprint(p)] = applied(e, p).record]
    BY <1>2 DEF evaluateRuleTarget
  <2>2. /\ memory \in [Pair -> EvaluationMemory]
        /\ incidents \in [Fingerprints -> IncidentRecord]
        /\ fingerprint(p) \in Fingerprints /\ fingerprint(q) \in Fingerprints
        /\ eval[e].at \in Nat
    BY <2>0, PairRule DEF MemoryInv, TypeOK, Evaluation
  <2>3. CASE q # p
    <3>1. fingerprint(q) # fingerprint(p)
      BY <2>3 DEF DistinctFingerprints
    <3>2. /\ memory'[q] = memory[q]
          /\ incidents'[fingerprint(q)] = incidents[fingerprint(q)]
      BY <2>1, <2>2, <2>3, <3>1
    <3>3. OneLevelMemory(q, memory'[q])
      BY <3>2 DEF OneLevelInv
    <3>4. (incidents'[fingerprint(q)].status = "open")
            <=> (memory'[q].severity # "none")
      BY <3>2 DEF OneLevelInv, OpenIffHeld, incidentOf
    <3>. QED  BY <3>3, <3>4 DEF OneLevelMemory
  <2>4. CASE q = p
    <3>1. /\ memory'[p] = decision(e, p).memory
          /\ incidents'[fingerprint(p)] = applied(e, p).record
      BY <2>1, <2>2
    <3>2. /\ OneLevelMemory(p, decision(e, p).memory)
          /\ \/ decision(e, p).memory.severity # "none"
             \/ decision(e, p).candidate = Clear
             \/ /\ memory[p].severity = "none"
                /\ decision(e, p).candidate = NoCandidate
      BY <2>0, OneLevelDecision DEF OneLevelInv
    <3>3. CouplingInv'
      BY <2>0, CouplingNext
    <3>4. decision(e, p).memory.severity # "none"
            => applied(e, p).record.status = "open"
      BY <3>1, <3>3 DEF CouplingInv, SeverityHasOpenIncident, incidentOf
    <3>5. ASSUME decision(e, p).memory.severity = "none",
                 decision(e, p).candidate = Clear
          PROVE  applied(e, p).record.status # "open"
      <4>1. applied(e, p) = Apply(incidentOf(p), Clear, eval[e].at)
        BY <3>5 DEF applied, Clear
      <4>2. incidentOf(p) \in IncidentRecord /\ sound(incidentOf(p))
        BY <2>0, <2>2 DEF RowsInv, IncidentShape, incidentOf
      <4>. QED  BY <2>2, <4>1, <4>2, ApplyClear
    <3>6. ASSUME memory[p].severity = "none",
                 decision(e, p).candidate = NoCandidate
          PROVE  applied(e, p).record.status # "open"
      BY <3>6 DEF applied, NoCandidate, Outcome, OneLevelInv, OpenIffHeld
    <3>7. (applied(e, p).record.status = "open")
            <=> (decision(e, p).memory.severity # "none")
      BY <3>2, <3>4, <3>5, <3>6
    <3>. QED  BY <2>4, <3>1, <3>2, <3>7 DEF OneLevelMemory
  <2>. QED  BY <2>3, <2>4
<1>3. ASSUME NEW e \in Evaluator, NEW p \in Pair, evaluateRuleTarget(e, p)
      PROVE  /\ OpenIffHeld'
             /\ \A q \in Pair : OneLevelMemory(q, memory[q])'
  BY <1>2, <1>3 DEF OpenIffHeld, incidentOf
<1>. QED
  BY <1>1, <1>3 DEF Next, vars, Tick, Evaluate, FinishEvaluate, AbortEvaluate

\* With rules of one level and an incident each, what the finding shows cannot
\* happen: a rule that is OK has no open incident, and an incident is open
\* exactly as long as its rule holds a severity (docs/incident-lifecycle.md,
\* "`OK` to `PENDING_WARN`: no incident yet").
THEOREM OneLevelNoOrphans ==
  DistinctFingerprints /\ OneLevelRules =>
    (Spec => [](OpenIffHeld /\ OkHasNoOpenIncident))
<1>. SUFFICES ASSUME DistinctFingerprints, OneLevelRules
              PROVE  Spec => [](OpenIffHeld /\ OkHasNoOpenIncident)
  OBVIOUS
<1>1. OneLevelInv => OpenIffHeld /\ OkHasNoOpenIncident
  BY DEF OneLevelInv, OpenIffHeld, OkHasNoOpenIncident, CouplingInv, RowsInv,
         MemoryInv, MemoryShape, consistent, InitialMemory
<1>2. OneLevelInv /\ [Next]_vars => OneLevelInv'
  BY OneLevelNext
<1>. QED  BY OneLevelInit, <1>1, <1>2, PTL DEF Spec

(***************************************************************************)
(* Refinement.                                                             *)
(***************************************************************************)

\* What a transaction does to the two abstract fields of its incident.
LEMMA AppliedAbstract ==
  ASSUME RowsInv, NEW e \in Evaluator, NEW p \in Pair
  PROVE  LET old == incidentOf(p)
             new == applied(e, p).record
         IN \/ new.status = old.status /\ new.severity = old.severity
            \/ /\ old.status = "open"
               /\ new.status = "resolved" /\ new.severity = "none"
            \/ new.status = "open" /\ new.severity \in ActiveSeverity
<1>1. /\ incidentOf(p) \in IncidentRecord /\ sound(incidentOf(p))
      /\ eval[e].at \in Nat
  BY PairRule DEF RowsInv, MemoryInv, TypeOK, IncidentShape, incidentOf,
                  Evaluation
<1>2. MemoryInv
  BY DEF RowsInv
<1>3. CASE decision(e, p).candidate = NoCandidate
  BY <1>3 DEF applied, NoCandidate, Outcome
<1>4. CASE decision(e, p).candidate = Clear
  <2>1. applied(e, p) = Apply(incidentOf(p), Clear, eval[e].at)
    BY <1>4 DEF applied, Clear
  <2>2. sound(applied(e, p).record)
    BY AppliedFacts
  <2>. QED  BY <1>1, <2>1, <2>2, ApplyClear DEF sound
<1>5. ASSUME NEW s \in ActiveSeverity, decision(e, p).candidate = Raise(s)
      PROVE  /\ applied(e, p).record.status = "open"
             /\ applied(e, p).record.severity = s
  <2>1. applied(e, p) = Apply(incidentOf(p), Raise(s), eval[e].at)
    BY <1>5 DEF applied, Raise
  <2>. QED  BY <1>1, <2>1, ApplyRaise
<1>. QED  BY <1>2, <1>3, <1>4, <1>5, DecisionFacts

\* The rule engine implements the incident lifecycle: rows are never deleted,
\* are resolved only from open, and are open exactly with a severity, for
\* every configuration, shared fingerprints included.
THEOREM RefinesLifecycle == Spec => ImplementsLifecycle
<1>. DEFINE st == [f \in Fingerprints |-> incidents[f].status]
            sv == [f \in Fingerprints |-> incidents[f].severity]
<1>1. Init => Lifecycle!Init
  BY DEF Init, Lifecycle!Init, NoIncident
<1>2. ASSUME RowsInv, [Next]_vars
      PROVE  [Lifecycle!Next]_(Lifecycle!vars)
  <2>1. CASE \A f \in Fingerprints : incidents'[f] = incidents[f]
    <3>1. st' = st /\ sv' = sv
      BY <2>1
    <3>. QED  BY <3>1 DEF Lifecycle!vars
  <2>2. CASE \E f \in Fingerprints : incidents'[f] # incidents[f]
    <3>1. PICK f \in Fingerprints : incidents'[f] # incidents[f]
      BY <2>2
    <3>2. PICK e \in Evaluator, p \in Pair :
             /\ evaluateRuleTarget(e, p)
             /\ fingerprint(p) = f
             /\ incidents[f] = incidentOf(p)
             /\ incidents'[f] = applied(e, p).record
      BY <1>2, <3>1, IncidentStep
    <3>3. \A g \in Fingerprints : g # f => incidents'[g] = incidents[g]
      BY <1>2, <3>2 DEF evaluateRuleTarget, RowsInv, MemoryInv, TypeOK
    <3>4. /\ st' = [st EXCEPT ![f] = incidents'[f].status]
          /\ sv' = [sv EXCEPT ![f] = incidents'[f].severity]
      BY <3>3
    <3>5. st[f] = incidents[f].status /\ sv[f] = incidents[f].severity
      OBVIOUS
    <3>6. \/ /\ incidents'[f].status = incidents[f].status
             /\ incidents'[f].severity = incidents[f].severity
          \/ /\ incidents[f].status = "open"
             /\ incidents'[f].status = "resolved"
             /\ incidents'[f].severity = "none"
          \/ /\ incidents'[f].status = "open"
             /\ incidents'[f].severity \in ActiveSeverity
      BY <1>2, <3>2, AppliedAbstract
    <3>7. CASE /\ incidents'[f].status = incidents[f].status
               /\ incidents'[f].severity = incidents[f].severity
      <4>1. st' = st /\ sv' = sv
        BY <3>4, <3>5, <3>7
      <4>. QED  BY <4>1 DEF Lifecycle!vars
    <3>8. CASE /\ incidents[f].status = "open"
               /\ incidents'[f].status = "resolved"
               /\ incidents'[f].severity = "none"
      <4>1. Lifecycle!Resolve(f)
        BY <3>4, <3>5, <3>8 DEF Lifecycle!Resolve
      <4>. QED  BY <4>1 DEF Lifecycle!Next
    <3>9. CASE /\ incidents'[f].status = "open"
               /\ incidents'[f].severity \in ActiveSeverity
      <4>0. PICK s \in ActiveSeverity : s = incidents'[f].severity
        BY <3>9
      <4>a. s \in Lifecycle!ActiveSeverity
        BY DEF Lifecycle!ActiveSeverity, ActiveSeverity
      <4>1. CASE incidents[f].status # "open"
        <5>1. Lifecycle!Open(f, s)
          BY <4>0, <3>4, <3>5, <3>9, <4>1 DEF Lifecycle!Open
        <5>. QED  BY <5>1, <4>a DEF Lifecycle!Next
      <4>2. CASE /\ incidents[f].status = "open"
                 /\ incidents'[f].severity # incidents[f].severity
        <5>1. st' = st
          BY <3>4, <3>5, <3>9, <4>2
        <5>2. Lifecycle!ChangeSeverity(f, s)
          BY <4>0, <3>4, <3>5, <3>9, <4>2, <5>1 DEF Lifecycle!ChangeSeverity
        <5>. QED  BY <5>2, <4>a DEF Lifecycle!Next
      <4>3. CASE /\ incidents[f].status = "open"
                 /\ incidents'[f].severity = incidents[f].severity
        BY <3>7, <3>9, <4>3
      <4>. QED  BY <4>1, <4>2, <4>3
    <3>. QED  BY <3>6, <3>7, <3>8, <3>9
  <2>. QED  BY <2>1, <2>2
<1>3. RowsInv /\ [Next]_vars => [Lifecycle!Next]_(Lifecycle!vars)
  BY <1>2
<1>. QED
  BY <1>1, <1>3, RowsInit, RowsNext, PTL
     DEF Spec, ImplementsLifecycle, Lifecycle!Spec
=============================================================================
