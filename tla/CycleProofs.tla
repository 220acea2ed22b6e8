----------------------------- MODULE CycleProofs -----------------------------
(***************************************************************************)
(* Proofs about a whole cycle: what the collector, the rule engine and the *)
(* notifier made durable at different moments is either seen through to    *)
(* the end or reported, and a cycle runs the rule engine, so that what is  *)
(* proved of that holds here; for any number of processes on one database, *)
(* any rules on the stream and any number of records and cycles.  Last,    *)
(* the collectors side by side.                                            *)
(***************************************************************************)
EXTENDS MCCollectors, CollectorProofs, TLAPS, FiniteSetTheorems, SequenceTheorems

(***************************************************************************)
(* The inductive invariant.  At every stage of a cycle it says where the   *)
(* records of its batch and the changes its process owes to the receivers  *)
(* are.                                                                    *)
(***************************************************************************)
\* A transition that the notifier will tell the receivers of is among ts.
announced(ts, f) ==
  \E i \in DOMAIN ts : ts[i].fingerprint = f /\ ts[i].action # "updated"

owedBy(p) == {c \in owed : c[1] = p /\ c \notin excused.changes}

seenByAll(p) == cycle[p].batch \X Engine!Pair \subseteq evaluated

\* Outside the stages that hold something, a cycle holds nothing.  While the
\* rules are visited the pairs still to come are in todo and the changes in
\* the transitions; DeliverTransitions has the changes in its queue, unless it
\* already knows that it will fail.
InHand(p) ==
  LET c == cycle[p]
  IN /\ c.pc \in {"idle", "dead", "collect"} => c.batch = {}
     /\ c.pc \in {"idle", "dead", "collect", "evaluate"} => owedBy(p) = {}
     /\ c.pc = "rules" =>
          /\ \A n \in c.batch, pair \in Engine!Pair :
               <<n, pair>> \in evaluated \/ pair \in eval[p].todo
          /\ \A o \in owedBy(p) : announced(eval[p].transitions, o[2])
     /\ c.pc = "notify" =>
          /\ seenByAll(p)
          /\ \A o \in owedBy(p) : c.rejected \/ announced(c.queue, o[2])
     /\ c.pc = "finish" =>
          c.err \/ (seenByAll(p) /\ owedBy(p) = {})

CycleShape ==
  /\ now \in Nat
  /\ eval \in [Cycler -> Engine!Evaluation]
  /\ logged \in 0..MaxLogged
  /\ streamCursor \in 0..MaxLogged
  /\ cycle \in [Cycler -> CycleRecord]
  /\ evaluated \subseteq (1..MaxLogged) \X Engine!Pair
  /\ owed \subseteq Cycler \X Engine!Fingerprints
  /\ excused \in Loss

CycleInv == CycleShape /\ LossIsReported /\ \A p \in Cycler : InHand(p)

(***************************************************************************)
(* Facts about the parts.                                                  *)
(***************************************************************************)
\* A rule on the stream is visited in every cycle (matchingTargets,
\* condition.go), so Evaluate starts with every pair still to come.
LEMMA EveryRuleIsVisited ==
  ASSUME NEW pair \in Engine!Pair, NEW observations
  PROVE  /\ Engine!rule(pair).enabled
         /\ Engine!target(pair) \in
              Engine!matchingTargets(Engine!rule(pair), observations)
<1>1. pair[1] \in DOMAIN CycleRules /\ pair[2] = "auth"
  BY DEF Engine!Pair
<1>2. Engine!rule(pair).enabled /\ Engine!rule(pair).target = "auth"
  BY <1>1, CycleRulesAssumption DEF Engine!rule
<1> QED
  BY <1>1, <1>2 DEF Engine!target, Engine!matchingTargets, Engine!AnyTarget,
     Engine!defaultTarget

\* Apply reports one of the actions, whatever the row and the candidate.
LEMMA ReportedAction ==
  ASSUME NEW p, NEW pair
  PROVE  Engine!applied(p, pair).action \in Engine!Action
<1>1. ASSUME NEW r, NEW c, NEW at
      PROVE  Engine!Apply(r, c, at).action \in Engine!Action
  <2>1. Engine!resolve(r, at).action \in Engine!Action
    BY DEF Engine!resolve, Engine!Outcome, Engine!Action
  <2>2. Engine!open(c, at).action \in Engine!Action
    BY DEF Engine!open, Engine!Outcome, Engine!Action
  <2>3. Engine!updateActive(r, c, at).action \in Engine!Action
    BY DEF Engine!updateActive, Engine!Outcome, Engine!Action
  <2>4. Engine!Outcome(r, "none").action \in Engine!Action
    BY DEF Engine!Outcome, Engine!Action
  <2> QED
    BY <2>1, <2>2, <2>3, <2>4 DEF Engine!Apply
<1>2. ASSUME NEW r
      PROVE  Engine!Outcome(r, "none").action \in Engine!Action
  BY DEF Engine!Outcome, Engine!Action
<1> QED
  BY <1>1, <1>2 DEF Engine!applied

\* A batch has at most as many records as journald wrote.
LEMMA BatchSize ==
  ASSUME NEW batch \in SUBSET (1..MaxLogged)
  PROVE  Cardinality(batch) \in 0..MaxLogged
<1>1. IsFiniteSet(1..MaxLogged) /\ Cardinality(1..MaxLogged) = MaxLogged
  BY CycleAssumption, FS_Interval
<1>2. /\ IsFiniteSet(batch)
      /\ Cardinality(batch) <= Cardinality(1..MaxLogged)
  BY <1>1, FS_Subset
<1> QED
  BY <1>1, <1>2, FS_CardinalityType, CycleAssumption

\* A step of one process leaves what the others hold in hand alone.
LEMMA OtherHands ==
  ASSUME CycleInv, NEW p \in Cycler, NEW q \in Cycler, q # p,
         cycle'[q] = cycle[q], eval'[q] = eval[q],
         evaluated \subseteq evaluated',
         excused.changes \subseteq excused'.changes,
         \A o \in owed' : o \in owed \/ o[1] = p
  PROVE  InHand(q)'
<1>1. InHand(q)
  BY DEF CycleInv
<1>2. owedBy(q)' \subseteq owedBy(q)
  BY DEF owedBy
<1>3. seenByAll(q) => seenByAll(q)'
  BY DEF seenByAll
<1> HIDE DEF owedBy, seenByAll
<1> QED
  BY <1>1, <1>2, <1>3 DEF InHand

\* What one process does in a cycle keeps the invariant if its own part of it
\* holds, and if it goes on with its batch or has nothing in hand when it ends.
LEMMA StepOfOne ==
  ASSUME CycleInv, NEW p \in Cycler, CycleShape', InHand(p)',
         \A q \in Cycler \ {p} : cycle'[q] = cycle[q] /\ eval'[q] = eval[q],
         evaluated \subseteq evaluated',
         excused.entries \subseteq excused'.entries,
         excused.changes \subseteq excused'.changes,
         \A o \in owed' : o \in owed \/ o[1] = p,
         streamCursor' = streamCursor,
         \/ /\ cycle'[p].pc \notin {"idle", "dead"}
            /\ cycle'[p].batch = cycle[p].batch
         \/ /\ \A n \in cycle[p].batch, pair \in Engine!Pair :
                  n \in excused'.entries \/ <<n, pair>> \in evaluated'
            /\ owedBy(p)' = {}
  PROVE  CycleInv'
<1>1. \A q \in Cycler : InHand(q)'
  BY OtherHands
<1>2. ASSUME NEW n \in 1..streamCursor, NEW pair \in Engine!Pair
      PROVE  \/ <<n, pair>> \in evaluated'
             \/ n \in excused'.entries
             \/ \E q \in inProgress' : n \in cycle'[q].batch
  <2>1. \/ <<n, pair>> \in evaluated
        \/ n \in excused.entries
        \/ \E q \in inProgress : n \in cycle[q].batch
    BY DEF CycleInv, LossIsReported
  <2>2. ASSUME NEW q \in inProgress, n \in cycle[q].batch
        PROVE  \/ <<n, pair>> \in evaluated'
               \/ n \in excused'.entries
               \/ \E r \in inProgress' : n \in cycle'[r].batch
    <3>1. CASE q = p
      BY <2>2, <3>1 DEF inProgress
    <3>2. CASE q # p
      BY <2>2, <3>2 DEF inProgress
    <3> QED
      BY <3>1, <3>2
  <2> QED
    BY <2>1, <2>2
<1>3. ASSUME NEW o \in owed'
      PROVE  o \in excused'.changes \/ o[1] \in inProgress'
  <2>1. o[1] \in Cycler
    BY DEF CycleShape
  <2>2. CASE o[1] = p
    BY <2>1, <2>2 DEF owedBy, inProgress
  <2>3. CASE o[1] # p
    BY <2>1, <2>3 DEF CycleInv, LossIsReported, inProgress
  <2> QED
    BY <2>2, <2>3
<1> QED
  BY <1>1, <1>2, <1>3 DEF CycleInv, LossIsReported

(***************************************************************************)
(* The actions.                                                            *)
(***************************************************************************)
\* Nothing has been read, evaluated or promised.
LEMMA CycleInvInit == CycleInit => CycleInv
<1> SUFFICES ASSUME CycleInit PROVE CycleInv
  OBVIOUS
<1>1. NoCycle \in CycleRecord
  BY DEF NoCycle, CycleRecord, CyclePC
<1>2. Engine!Idle \in Engine!Evaluation
  BY DEF Engine!Idle, Engine!Evaluation
<1>3. CycleShape
  <2> HIDE DEF NoCycle, CycleRecord, Engine!Idle, Engine!Evaluation
  <2> QED
    BY <1>1, <1>2, CycleAssumption
       DEF CycleInit, CycleShape, Engine!Init, Loss
<1>4. LossIsReported
  BY DEF CycleInit, LossIsReported
<1>5. \A p \in Cycler : InHand(p)
  BY DEF CycleInit, InHand, owedBy, NoCycle
<1> QED
  BY <1>3, <1>4, <1>5 DEF CycleInv

\* A record that journald writes is behind no cursor.
LEMMA JournalWritesStep == CycleInv /\ JournalWrites => CycleInv'
<1> SUFFICES ASSUME CycleInv, JournalWrites PROVE CycleInv'
  OBVIOUS
<1>1. /\ logged < MaxLogged /\ logged' = logged + 1
      /\ UNCHANGED <<now, eval, streamCursor, cycle, evaluated, owed, excused>>
  BY DEF JournalWrites, engineVars, cycleHistory
<1>2. CycleShape'
  BY <1>1, CycleAssumption DEF CycleInv, CycleShape
<1>3. LossIsReported'
  BY <1>1 DEF CycleInv, LossIsReported, inProgress
<1>4. \A p \in Cycler : InHand(p)'
  BY <1>1 DEF CycleInv, InHand, owedBy, seenByAll
<1> QED
  BY <1>2, <1>3, <1>4 DEF CycleInv

\* The clock is nothing that a cycle has in hand.
LEMMA ClockTicksStep == CycleInv /\ ClockTicks => CycleInv'
<1> SUFFICES ASSUME CycleInv, ClockTicks PROVE CycleInv'
  OBVIOUS
<1>1. /\ now' = now + 1
      /\ UNCHANGED <<eval, logged, streamCursor, cycle, evaluated, owed, excused>>
  BY DEF ClockTicks, Engine!Tick, cycleHistory
<1>2. CycleShape'
  BY <1>1 DEF CycleInv, CycleShape
<1>3. LossIsReported'
  BY <1>1 DEF CycleInv, LossIsReported, inProgress
<1>4. \A p \in Cycler : InHand(p)'
  BY <1>1 DEF CycleInv, InHand, owedBy, seenByAll
<1> QED
  BY <1>2, <1>3, <1>4 DEF CycleInv

\* Steps that move only the cycle of p, to a record that is one.
LEMMA CycleMoves ==
  ASSUME CycleInv, NEW p \in Cycler, NEW c \in CycleRecord,
         cycle' = [cycle EXCEPT ![p] = c],
         eval' \in [Cycler -> Engine!Evaluation],
         UNCHANGED <<now, logged, streamCursor, evaluated, owed, excused>>
  PROVE  CycleShape' /\ cycle'[p] = c
BY DEF CycleInv, CycleShape

\* A cycle begins with nothing in hand (runCycle, scheduler.go).
LEMMA BeginCycleStep ==
  ASSUME CycleInv, NEW p \in Cycler, BeginCycle(p)
  PROVE  CycleInv'
<1> DEFINE c == [cycle[p] EXCEPT !.pc = "collect"]
<1>1. /\ cycle[p].pc = "idle" /\ cycle' = [cycle EXCEPT ![p] = c]
      /\ UNCHANGED <<now, eval, logged, streamCursor, evaluated, owed, excused>>
  BY DEF BeginCycle, engineVars, cycleHistory, CycleInv, CycleShape
<1>2. c \in CycleRecord /\ c.pc = "collect" /\ c.batch = cycle[p].batch
  BY DEF CycleInv, CycleShape, CycleRecord, CyclePC
<1> HIDE DEF c
<1>3. CycleShape' /\ cycle'[p] = c
  BY <1>1, <1>2, CycleMoves DEF CycleInv, CycleShape
<1>4. InHand(p)'
  BY <1>1, <1>2, <1>3 DEF CycleInv, InHand, owedBy
<1> QED
  BY <1>1, <1>2, <1>3, <1>4, StepOfOne DEF CycleInv, CycleShape

\* The cursor passes exactly the records that the cycle takes in hand.
LEMMA CollectObservationsStep ==
  ASSUME CycleInv, NEW p \in Cycler, CollectObservations(p)
  PROVE  CycleInv'
<1>1. /\ cycle[p].pc = "collect"
      /\ UNCHANGED <<now, eval, logged, evaluated, owed, excused>>
  BY DEF CollectObservations, engineVars, cycleHistory
<1>2. cycle[p] \in CycleRecord /\ cycle[p].batch = {} /\ owedBy(p) = {}
  BY <1>1 DEF CycleInv, CycleShape, InHand
<1>3. CASE /\ streamCursor' = logged
           /\ cycle' = [cycle EXCEPT ![p].pc = "evaluate",
                                     ![p].batch = (streamCursor + 1)..logged]
  <2> DEFINE c == [cycle[p] EXCEPT !.pc = "evaluate",
                                   !.batch = (streamCursor + 1)..logged]
  <2>1. cycle' = [cycle EXCEPT ![p] = c]
    BY <1>3 DEF CycleInv, CycleShape
  <2>2. (streamCursor + 1)..logged \subseteq 1..MaxLogged
    BY CycleAssumption DEF CycleInv, CycleShape
  <2>3. /\ c \in CycleRecord /\ c.pc = "evaluate"
        /\ c.batch = (streamCursor + 1)..logged
    BY <1>2, <2>2 DEF CycleRecord, CyclePC
  <2> HIDE DEF c
  <2>4. CycleShape' /\ cycle'[p] = c
    BY <1>1, <1>3, <2>1, <2>3 DEF CycleInv, CycleShape
  <2>5. \A q \in Cycler \ {p} : cycle'[q] = cycle[q]
    BY <2>1 DEF CycleInv, CycleShape
  <2>6. InHand(p)'
    BY <1>1, <1>2, <2>3, <2>4 DEF InHand, owedBy
  <2>7. \A q \in Cycler : InHand(q)'
    BY <1>1, <2>5, <2>6, OtherHands DEF CycleInv, CycleShape
  <2>8. LossIsReported'
    <3>1. ASSUME NEW n \in 1..streamCursor', NEW pair \in Engine!Pair
          PROVE  \/ <<n, pair>> \in evaluated'
                 \/ n \in excused'.entries
                 \/ \E q \in inProgress' : n \in cycle'[q].batch
      <4>1. CASE n \in 1..streamCursor
        <5>1. \/ <<n, pair>> \in evaluated
              \/ n \in excused.entries
              \/ \E q \in inProgress : n \in cycle[q].batch
          BY <4>1 DEF CycleInv, LossIsReported
        <5> QED
          BY <5>1, <1>1, <1>2, <2>5 DEF inProgress
      <4>2. CASE n \notin 1..streamCursor
        <5>1. n \in c.batch
          BY <1>3, <2>3, <4>2 DEF CycleInv, CycleShape
        <5>2. p \in inProgress'
          BY <2>3, <2>4 DEF inProgress
        <5> QED
          BY <5>1, <5>2, <2>4
      <4> QED
        BY <4>1, <4>2
    <3>2. ASSUME NEW o \in owed'
          PROVE  o \in excused'.changes \/ o[1] \in inProgress'
      <4>1. o \in excused.changes \/ o[1] \in inProgress
        BY <1>1 DEF CycleInv, LossIsReported
      <4> QED
        BY <4>1, <1>1, <2>3, <2>4, <2>5 DEF inProgress
    <3> QED
      BY <3>1, <3>2 DEF LossIsReported
  <2> QED
    BY <2>4, <2>7, <2>8 DEF CycleInv
<1>4. CASE /\ cycle' = [cycle EXCEPT ![p].pc = "evaluate", ![p].soft = TRUE]
           /\ UNCHANGED streamCursor
  <2> DEFINE c == [cycle[p] EXCEPT !.pc = "evaluate", !.soft = TRUE]
  <2>1. cycle' = [cycle EXCEPT ![p] = c]
    BY <1>4 DEF CycleInv, CycleShape
  <2>2. c \in CycleRecord /\ c.pc = "evaluate" /\ c.batch = cycle[p].batch
    BY <1>2 DEF CycleRecord, CyclePC
  <2> HIDE DEF c
  <2>3. CycleShape' /\ cycle'[p] = c
    BY <1>1, <1>4, <2>1, <2>2, CycleMoves DEF CycleInv, CycleShape
  <2>4. InHand(p)'
    BY <1>1, <1>2, <2>2, <2>3 DEF InHand, owedBy
  <2> QED
    BY <1>1, <1>4, <2>1, <2>2, <2>3, <2>4, StepOfOne DEF CycleInv, CycleShape
<1> QED
  BY <1>3, <1>4 DEF CollectObservations

\* Evaluate begins with every rule still to be visited; without it the cycle
\* goes to its end as a failed one.
LEMMA CallEvaluateStep ==
  ASSUME CycleInv, NEW p \in Cycler, CallEvaluate(p)
  PROVE  CycleInv'
<1>1. /\ cycle[p].pc = "evaluate"
      /\ UNCHANGED <<now, logged, streamCursor, evaluated, owed, excused>>
  BY DEF CallEvaluate, cycleHistory, engineVars, Engine!Evaluate
<1>2. cycle[p] \in CycleRecord /\ owedBy(p) = {}
  BY <1>1 DEF CycleInv, CycleShape, InHand
<1>3. ASSUME NEW observations \in {<<failedObservation>>,
               <<journalObservation(Cardinality(cycle[p].batch))>>},
             Engine!Evaluate(p, observations),
             cycle' = [cycle EXCEPT ![p].pc = "rules"]
      PROVE  CycleInv'
  <2> DEFINE c == [cycle[p] EXCEPT !.pc = "rules"]
             v == [running      |-> TRUE,
                   at           |-> now,
                   observations |-> observations,
                   todo         |-> {pair \in Engine!Pair :
                      /\ Engine!rule(pair).enabled
                      /\ Engine!target(pair) \in
                           Engine!matchingTargets(Engine!rule(pair),
                                                  observations)},
                   transitions  |-> <<>>]
  <2>1. /\ cycle' = [cycle EXCEPT ![p] = c]
        /\ eval' = [eval EXCEPT ![p] = v]
    BY <1>3 DEF CycleInv, CycleShape, Engine!Evaluate
  <2>2. c \in CycleRecord /\ c.pc = "rules" /\ c.batch = cycle[p].batch
    BY <1>2 DEF CycleRecord, CyclePC
  <2>3. observations \in {<<journalObservation(n)>> : n \in 0..MaxLogged}
                           \cup {<<failedObservation>>}
    BY <1>2, BatchSize DEF CycleRecord
  <2>4. v.todo = Engine!Pair /\ v.transitions = <<>>
    BY EveryRuleIsVisited
  <2>5. now \in Nat
    BY DEF CycleInv, CycleShape
  <2>6. v \in Engine!Evaluation
    BY <2>3, <2>5 DEF Engine!Evaluation
  <2> HIDE DEF c, v
  <2>7. CycleShape' /\ cycle'[p] = c /\ eval'[p] = v
    BY <1>1, <2>1, <2>2, <2>6, CycleMoves DEF CycleInv, CycleShape
  <2>8. InHand(p)'
    BY <1>1, <1>2, <2>2, <2>4, <2>7 DEF InHand, owedBy
  <2> QED
    BY <1>1, <2>1, <2>2, <2>7, <2>8, StepOfOne DEF CycleInv, CycleShape
<1>4. CASE /\ cycle' = [cycle EXCEPT ![p].pc = "finish", ![p].err = TRUE]
           /\ UNCHANGED engineVars
  <2> DEFINE c == [cycle[p] EXCEPT !.pc = "finish", !.err = TRUE]
  <2>1. cycle' = [cycle EXCEPT ![p] = c] /\ eval' = eval
    BY <1>4 DEF CycleInv, CycleShape, engineVars
  <2>2. /\ c \in CycleRecord /\ c.pc = "finish" /\ c.err
        /\ c.batch = cycle[p].batch
    BY <1>2 DEF CycleRecord, CyclePC
  <2> HIDE DEF c
  <2>3. CycleShape' /\ cycle'[p] = c
    BY <1>1, <2>1, <2>2, CycleMoves DEF CycleInv, CycleShape
  <2>4. InHand(p)'
    BY <2>2, <2>3 DEF InHand
  <2> QED
    BY <1>1, <2>1, <2>2, <2>3, <2>4, StepOfOne DEF CycleInv, CycleShape
<1> QED
  BY <1>3, <1>4 DEF CallEvaluate

\* A rule commits: the records of the batch have been put before it, and the
\* change it makes to an incident is among the transitions.
LEMMA CommitRuleStep ==
  ASSUME CycleInv, NEW p \in Cycler, NEW pair \in Engine!Pair,
         CommitRule(p, pair)
  PROVE  CycleInv'
<1> DEFINE act == Engine!applied(p, pair).action
           f == Engine!fingerprint(pair)
           old == eval[p].transitions
           ts == IF act = "none" THEN old
                 ELSE Append(old, [action |-> act, fingerprint |-> f])
<1>1. /\ cycle[p].pc = "rules"
      /\ owed' = IF act \notin {"none", "updated"} THEN owed \cup {<<p, f>>}
                 ELSE owed
      /\ evaluated' = evaluated \cup {<<n, pair>> : n \in cycle[p].batch}
      /\ UNCHANGED <<now, logged, streamCursor, cycle, excused>>
  BY DEF CommitRule, Engine!evaluateRuleTarget
<1>2. /\ cycle[p] \in CycleRecord /\ eval[p] \in Engine!Evaluation
      /\ old \in Seq(Engine!Transition)
  BY DEF CycleInv, CycleShape, Engine!Evaluation
<1>3. act \in Engine!Action /\ f \in Engine!Fingerprints
  BY ReportedAction DEF Engine!Fingerprints
<1>4. act # "none" =>
        [action |-> act, fingerprint |-> f] \in Engine!Transition
  BY <1>3 DEF Engine!Transition
<1>5. eval' = [eval EXCEPT ![p] = [eval[p] EXCEPT !.todo = @ \ {pair},
                                                  !.transitions = ts]]
  BY DEF CommitRule, Engine!evaluateRuleTarget, CycleInv, CycleShape
<1> HIDE DEF act, f
<1>6. ts \in Seq(Engine!Transition)
  BY <1>2, <1>4, AppendProperties
<1>7. [eval[p] EXCEPT !.todo = @ \ {pair}, !.transitions = ts]
        \in Engine!Evaluation
  BY <1>2, <1>6 DEF Engine!Evaluation
<1>8. /\ eval'[p].todo = eval[p].todo \ {pair}
      /\ eval'[p].transitions = ts
  BY <1>2, <1>5 DEF CycleInv, CycleShape, Engine!Evaluation
<1>9. /\ \A g : announced(old, g) => announced(ts, g)
      /\ act \notin {"none", "updated"} => announced(ts, f)
  <2>1. CASE act = "none"
    BY <2>1
  <2>2. CASE act # "none"
    <3>1. /\ Len(ts) = Len(old) + 1 /\ DOMAIN ts = 1..(Len(old) + 1)
          /\ ts[Len(old) + 1] = [action |-> act, fingerprint |-> f]
          /\ \A i \in 1..Len(old) : ts[i] = old[i]
          /\ DOMAIN old = 1..Len(old) /\ Len(old) \in Nat
      BY <1>2, <1>4, <2>2, AppendProperties, LenProperties
    <3> HIDE DEF ts, old
    <3> QED
      BY <3>1 DEF announced
  <2> QED
    BY <2>1, <2>2
<1>10. /\ \A q \in Cycler \ {p} : cycle'[q] = cycle[q] /\ eval'[q] = eval[q]
       /\ eval' \in [Cycler -> Engine!Evaluation]
  BY <1>1, <1>5, <1>7 DEF CycleInv, CycleShape
<1> HIDE DEF ts
<1>11. CycleShape'
  <2>1. evaluated' \subseteq (1..MaxLogged) \X Engine!Pair
    BY <1>1, <1>2 DEF CycleInv, CycleShape, CycleRecord
  <2>2. owed' \subseteq Cycler \X Engine!Fingerprints
    BY <1>1, <1>3 DEF CycleInv, CycleShape
  <2> QED
    BY <1>1, <1>10, <2>1, <2>2 DEF CycleInv, CycleShape
<1>12. InHand(p)'
  <2>1. ASSUME NEW n \in cycle[p].batch, NEW r \in Engine!Pair
        PROVE  <<n, r>> \in evaluated' \/ r \in eval'[p].todo
    BY <1>1, <1>8 DEF CycleInv, InHand
  <2>2. ASSUME NEW o \in owedBy(p)'
        PROVE  announced(ts, o[2])
    <3>1. CASE o \in owedBy(p)
      BY <3>1, <1>1, <1>9 DEF CycleInv, InHand
    <3>2. CASE o \notin owedBy(p)
      BY <3>2, <1>1, <1>9 DEF owedBy
    <3> QED
      BY <3>1, <3>2
  <2> QED
    BY <1>1, <1>8, <2>1, <2>2 DEF InHand
<1>13. \A o \in owed' : o \in owed \/ o[1] = p
  BY <1>1
<1> QED
  BY <1>1, <1>10, <1>11, <1>12, <1>13, StepOfOne

\* Evaluate returns: every rule has seen the batch, and the notifier is handed
\* every change.
LEMMA EvaluateReturnsStep ==
  ASSUME CycleInv, NEW p \in Cycler, EvaluateReturns(p)
  PROVE  CycleInv'
<1> DEFINE c == [cycle[p] EXCEPT !.pc = "notify",
                                 !.queue = eval[p].transitions]
<1>1. /\ cycle[p].pc = "rules" /\ eval[p].todo = {}
      /\ cycle' = [cycle EXCEPT ![p] = c]
      /\ eval' = [eval EXCEPT ![p] = Engine!Idle]
      /\ UNCHANGED <<now, logged, streamCursor, evaluated, owed, excused>>
  BY DEF EvaluateReturns, Engine!FinishEvaluate, cycleHistory, CycleInv,
         CycleShape
<1>2. cycle[p] \in CycleRecord /\ eval[p] \in Engine!Evaluation
  BY DEF CycleInv, CycleShape
<1>3. /\ c \in CycleRecord /\ c.pc = "notify" /\ c.batch = cycle[p].batch
      /\ c.queue = eval[p].transitions
  BY <1>2 DEF CycleRecord, CyclePC, Engine!Evaluation
<1>4. Engine!Idle \in Engine!Evaluation
  BY DEF Engine!Idle, Engine!Evaluation
<1> HIDE DEF c
<1>5. CycleShape' /\ cycle'[p] = c
  <2> HIDE DEF Engine!Idle
  <2> QED
    BY <1>1, <1>3, <1>4, CycleMoves DEF CycleInv, CycleShape
<1>6. seenByAll(p) /\ \A o \in owedBy(p) : announced(c.queue, o[2])
  BY <1>1, <1>2, <1>3 DEF CycleInv, InHand, seenByAll, CycleRecord
<1>7. InHand(p)'
  <2>1. seenByAll(p)' /\ owedBy(p)' = owedBy(p)
    BY <1>1, <1>3, <1>5, <1>6 DEF seenByAll, owedBy
  <2> HIDE DEF seenByAll, owedBy, announced
  <2> QED
    BY <1>3, <1>5, <1>6, <2>1 DEF InHand
<1> QED
  <2> HIDE DEF Engine!Idle
  <2> QED
    BY <1>1, <1>3, <1>5, <1>7, StepOfOne DEF CycleInv, CycleShape

\* Evaluate fails: its transitions are dropped, and the cycle is to be counted
\* as failed.
LEMMA EvaluateFailsStep ==
  ASSUME CycleInv, NEW p \in Cycler, EvaluateFails(p)
  PROVE  CycleInv'
<1> DEFINE c == [cycle[p] EXCEPT !.pc = "finish", !.err = TRUE]
<1>1. /\ cycle' = [cycle EXCEPT ![p] = c]
      /\ eval' = [eval EXCEPT ![p] = Engine!Idle]
      /\ UNCHANGED <<now, logged, streamCursor, evaluated, owed, excused>>
  BY DEF EvaluateFails, Engine!AbortEvaluate, cycleHistory, CycleInv, CycleShape
<1>2. /\ c \in CycleRecord /\ c.pc = "finish" /\ c.err
      /\ c.batch = cycle[p].batch
  BY DEF CycleInv, CycleShape, CycleRecord, CyclePC
<1>3. Engine!Idle \in Engine!Evaluation
  BY DEF Engine!Idle, Engine!Evaluation
<1> HIDE DEF c, Engine!Idle
<1>4. CycleShape' /\ cycle'[p] = c
  BY <1>1, <1>2, <1>3, CycleMoves DEF CycleInv, CycleShape
<1>5. InHand(p)'
  BY <1>2, <1>4 DEF InHand
<1> QED
  BY <1>1, <1>2, <1>4, <1>5, StepOfOne DEF CycleInv, CycleShape

\* Taking the first transition off a queue leaves the others announced.
LEMMA RestAnnounced ==
  ASSUME NEW ts \in Seq(Engine!Transition), ts # <<>>, NEW f, announced(ts, f)
  PROVE  \/ announced(Tail(ts), f)
         \/ Head(ts).fingerprint = f /\ Head(ts).action # "updated"
<1>1. PICK i \in 1..Len(ts) : ts[i].fingerprint = f /\ ts[i].action # "updated"
  BY DEF announced
<1>2. CASE i = 1
  BY <1>1, <1>2
<1>3. CASE i # 1
  <2>1. /\ i - 1 \in 1..(Len(ts) - 1)
        /\ Tail(ts)[i - 1] = ts[i]
        /\ DOMAIN Tail(ts) = 1..(Len(ts) - 1)
    BY <1>1, <1>3, HeadTailProperties
  <2> QED
    BY <1>1, <2>1 DEF announced
<1> QED
  BY <1>2, <1>3

\* One transition is handed to the receivers: it is settled, or the delivery
\* is known to fail.
LEMMA DeliverTransitionStep ==
  ASSUME CycleInv, NEW p \in Cycler, DeliverTransition(p)
  PROVE  CycleInv'
<1> DEFINE t == Head(cycle[p].queue)
           rest == [cycle[p] EXCEPT !.queue = Tail(@)]
           sour == [rest EXCEPT !.rejected = TRUE]
<1>1. /\ cycle[p].pc = "notify" /\ cycle[p].queue # <<>>
      /\ \/ /\ t.action = "updated"
            /\ cycle' = [cycle EXCEPT ![p] = rest] /\ owed' = owed
         \/ /\ cycle' = [cycle EXCEPT ![p] = rest]
            /\ owed' = owed \ {<<p, t.fingerprint>>}
         \/ /\ cycle' = [cycle EXCEPT ![p] = sour] /\ owed' = owed
      /\ UNCHANGED <<now, eval, logged, streamCursor, evaluated, excused>>
  BY DEF DeliverTransition, engineVars
<1>2. cycle[p] \in CycleRecord /\ cycle[p].queue \in Seq(Engine!Transition)
  BY DEF CycleInv, CycleShape, CycleRecord
<1>3. Tail(cycle[p].queue) \in Seq(Engine!Transition)
  BY <1>1, <1>2, HeadTailProperties
<1>4. /\ rest \in CycleRecord /\ rest.pc = "notify"
      /\ rest.batch = cycle[p].batch /\ rest.rejected = cycle[p].rejected
      /\ rest.queue = Tail(cycle[p].queue)
  BY <1>1, <1>2, <1>3 DEF CycleRecord
<1>5. /\ sour \in CycleRecord /\ sour.pc = "notify"
      /\ sour.batch = cycle[p].batch /\ sour.rejected
  BY <1>4 DEF CycleRecord
<1>6. \A o \in owedBy(p) :
        \/ cycle[p].rejected
        \/ announced(Tail(cycle[p].queue), o[2])
        \/ t.fingerprint = o[2] /\ t.action # "updated"
  BY <1>1, <1>2, RestAnnounced DEF CycleInv, InHand
<1>7. seenByAll(p)
  BY <1>1 DEF CycleInv, InHand
<1> HIDE DEF t, rest, sour
<1>8. PICK c \in {rest, sour} :
        /\ cycle' = [cycle EXCEPT ![p] = c]
        /\ \/ c = rest /\ t.action = "updated" /\ owed' = owed
           \/ c = rest /\ owed' = owed \ {<<p, t.fingerprint>>}
           \/ c = sour /\ owed' = owed
  BY <1>1
<1>9. c \in CycleRecord /\ c.pc = "notify" /\ c.batch = cycle[p].batch
  BY <1>4, <1>5
<1>10. CycleShape' /\ cycle'[p] = c
  BY <1>1, <1>8, <1>9 DEF CycleInv, CycleShape
<1>11. ASSUME NEW o \in owedBy(p)'
       PROVE  c.rejected \/ announced(c.queue, o[2])
  <2>1. o \in owedBy(p)
    BY <1>1, <1>8 DEF owedBy
  <2>2. CASE c = sour
    BY <2>2, <1>5
  <2>3. CASE c = rest /\ t.action = "updated"
    BY <2>1, <2>3, <1>4, <1>6
  <2>4. CASE c = rest /\ owed' = owed \ {<<p, t.fingerprint>>}
    <3>1. o[1] = p /\ o = <<o[1], o[2]>> /\ o # <<p, t.fingerprint>>
      BY <2>4, <1>10 DEF owedBy, CycleShape
    <3> QED
      BY <2>1, <2>4, <3>1, <1>4, <1>6
  <2> QED
    BY <1>8, <2>2, <2>3, <2>4
<1>12. InHand(p)'
  <2>1. seenByAll(p)'
    BY <1>1, <1>7, <1>9, <1>10 DEF seenByAll
  <2> HIDE DEF seenByAll
  <2> QED
    BY <1>9, <1>10, <1>11, <2>1 DEF InHand
<1> QED
  BY <1>1, <1>8, <1>9, <1>10, <1>12, StepOfOne DEF CycleInv, CycleShape

\* DeliverTransitions returns without an error only when every change is
\* settled.
LEMMA DeliverReturnsStep ==
  ASSUME CycleInv, NEW p \in Cycler, DeliverReturns(p)
  PROVE  CycleInv'
<1>1. PICK e \in BOOLEAN :
        /\ cycle' = [cycle EXCEPT ![p].pc = "finish", ![p].err = e]
        /\ ~e => cycle[p].queue = <<>> /\ ~cycle[p].rejected
  BY DEF DeliverReturns, CycleInv, CycleShape, CycleRecord
<1>2. /\ cycle[p].pc = "notify"
      /\ UNCHANGED <<now, eval, logged, streamCursor, evaluated, owed, excused>>
  BY DEF DeliverReturns, engineVars, cycleHistory
<1> DEFINE c == [cycle[p] EXCEPT !.pc = "finish", !.err = e]
<1>3. cycle' = [cycle EXCEPT ![p] = c]
  BY <1>1 DEF CycleInv, CycleShape
<1>4. /\ c \in CycleRecord /\ c.pc = "finish" /\ c.err = e
      /\ c.batch = cycle[p].batch
  BY DEF CycleInv, CycleShape, CycleRecord, CyclePC
<1> HIDE DEF c
<1>5. CycleShape' /\ cycle'[p] = c
  BY <1>2, <1>3, <1>4, CycleMoves DEF CycleInv, CycleShape
<1>6. e \/ (seenByAll(p) /\ owedBy(p) = {})
  BY <1>1, <1>2 DEF CycleInv, InHand, announced
<1>7. InHand(p)'
  <2>1. seenByAll(p)' = seenByAll(p) /\ owedBy(p)' = owedBy(p)
    BY <1>2, <1>4, <1>5 DEF seenByAll, owedBy
  <2> HIDE DEF seenByAll, owedBy
  <2> QED
    BY <1>4, <1>5, <1>6, <2>1 DEF InHand
<1> QED
  BY <1>2, <1>3, <1>4, <1>5, <1>7, StepOfOne DEF CycleInv, CycleShape

\* What a cycle leaves behind is of the type of the history.
LEMMA LeftByType ==
  ASSUME CycleShape, NEW p \in Cycler
  PROVE  /\ leftBy(p) \in Loss
         /\ excused.entries \subseteq leftBy(p).entries
         /\ excused.changes \subseteq leftBy(p).changes
         /\ cycle[p].batch \subseteq leftBy(p).entries
         /\ \A o \in owed : o[1] = p => o \in leftBy(p).changes
BY DEF leftBy, Loss, CycleShape, CycleRecord

\* A cycle that is counted as a success leaves nothing behind; any other is
\* charged with what it leaves.
LEMMA FinishCycleStep ==
  ASSUME CycleInv, NEW p \in Cycler, FinishCycle(p)
  PROVE  CycleInv'
<1>1. PICK failed \in {cycle[p].err, TRUE} :
        excused' = IF failed THEN leftBy(p) ELSE excused
  BY DEF FinishCycle
<1>2. /\ cycle[p].pc = "finish" /\ cycle' = [cycle EXCEPT ![p] = NoCycle]
      /\ UNCHANGED <<now, eval, logged, streamCursor, evaluated, owed>>
  BY DEF FinishCycle, engineVars
<1>3. failed \in BOOLEAN /\ (~failed => ~cycle[p].err)
  BY <1>1 DEF CycleInv, CycleShape, CycleRecord
<1>4. /\ NoCycle \in CycleRecord /\ NoCycle.pc = "idle" /\ NoCycle.batch = {}
  BY DEF NoCycle, CycleRecord, CyclePC
<1> HIDE DEF NoCycle
<1>5. /\ excused' \in Loss /\ excused.entries \subseteq excused'.entries
      /\ excused.changes \subseteq excused'.changes
  BY <1>1, LeftByType DEF CycleInv, CycleShape
<1>6. CycleShape' /\ cycle'[p] = NoCycle
  BY <1>2, <1>4, <1>5 DEF CycleInv, CycleShape
<1>7. /\ \A n \in cycle[p].batch, pair \in Engine!Pair :
           n \in excused'.entries \/ <<n, pair>> \in evaluated'
      /\ owedBy(p)' = {}
  <2>1. CASE failed
    BY <1>1, <1>2, <2>1, LeftByType DEF CycleInv, owedBy
  <2>2. CASE ~failed
    BY <1>1, <1>2, <1>3, <2>2 DEF CycleInv, InHand, owedBy, seenByAll
  <2> QED
    BY <1>3, <2>1, <2>2
<1>8. InHand(p)'
  BY <1>4, <1>6, <1>7 DEF InHand
<1> QED
  BY <1>2, <1>5, <1>6, <1>7, <1>8, StepOfOne DEF CycleInv, CycleShape

\* The context of a cycle ends; what is in hand stays in hand.
LEMMA CycleContextDoneStep ==
  ASSUME CycleInv, NEW p \in Cycler, CycleContextDone(p)
  PROVE  CycleInv'
<1> DEFINE c == [cycle[p] EXCEPT !.ctx = FALSE]
<1>1. /\ cycle[p].pc \notin {"idle", "finish", "dead"}
      /\ cycle' = [cycle EXCEPT ![p] = c]
      /\ UNCHANGED <<now, eval, logged, streamCursor, evaluated, owed, excused>>
  BY DEF CycleContextDone, engineVars, cycleHistory, CycleInv, CycleShape
<1>2. /\ c \in CycleRecord /\ c.pc = cycle[p].pc /\ c.batch = cycle[p].batch
      /\ c.queue = cycle[p].queue /\ c.rejected = cycle[p].rejected
      /\ c.err = cycle[p].err
  BY DEF CycleInv, CycleShape, CycleRecord
<1> HIDE DEF c
<1>3. CycleShape' /\ cycle'[p] = c
  BY <1>1, <1>2, CycleMoves DEF CycleInv, CycleShape
<1>4. InHand(p)'
  BY <1>1, <1>2, <1>3 DEF CycleInv, InHand, owedBy, seenByAll
<1> QED
  BY <1>1, <1>2, <1>3, <1>4, StepOfOne DEF CycleInv, CycleShape

\* The death of a process is charged with what its cycle leaves behind.
LEMMA CycleProcessDiesStep ==
  ASSUME CycleInv, NEW p \in Cycler, CycleProcessDies(p)
  PROVE  CycleInv'
<1> DEFINE c == [NoCycle EXCEPT !.pc = "dead"]
<1>1. /\ cycle' = [cycle EXCEPT ![p] = c]
      /\ eval' = [eval EXCEPT ![p] = Engine!Idle]
      /\ excused' = leftBy(p)
      /\ UNCHANGED <<now, logged, streamCursor, evaluated, owed>>
  BY DEF CycleProcessDies
<1>2. c \in CycleRecord /\ c.pc = "dead" /\ c.batch = {}
  <2>1. NoCycle \in CycleRecord /\ NoCycle.batch = {}
    BY DEF NoCycle, CycleRecord, CyclePC
  <2> HIDE DEF NoCycle
  <2> QED
    BY <2>1 DEF CycleRecord, CyclePC
<1>3. Engine!Idle \in Engine!Evaluation
  BY DEF Engine!Idle, Engine!Evaluation
<1> HIDE DEF c, Engine!Idle
<1>4. CycleShape' /\ cycle'[p] = c
  BY <1>1, <1>2, <1>3, LeftByType DEF CycleInv, CycleShape
<1>5. owedBy(p)' = {}
  BY <1>1, LeftByType DEF CycleInv, owedBy
<1>6. InHand(p)'
  BY <1>2, <1>4, <1>5 DEF InHand
<1> QED
  BY <1>1, <1>4, <1>5, <1>6, LeftByType, StepOfOne DEF CycleInv, CycleShape

\* A new process has nothing in hand.
LEMMA CycleProcessStartsStep ==
  ASSUME CycleInv, NEW p \in Cycler, CycleProcessStarts(p)
  PROVE  CycleInv'
<1>1. /\ cycle[p].pc = "dead" /\ cycle' = [cycle EXCEPT ![p] = NoCycle]
      /\ UNCHANGED <<now, eval, logged, streamCursor, evaluated, owed, excused>>
  BY DEF CycleProcessStarts, engineVars, cycleHistory
<1>2. NoCycle \in CycleRecord /\ NoCycle.pc = "idle" /\ NoCycle.batch = {}
  BY DEF NoCycle, CycleRecord, CyclePC
<1> HIDE DEF NoCycle
<1>3. CycleShape' /\ cycle'[p] = NoCycle
  BY <1>1, <1>2, CycleMoves DEF CycleInv, CycleShape
<1>4. owedBy(p)' = {} /\ cycle[p].batch = {}
  BY <1>1 DEF CycleInv, InHand, owedBy
<1>5. InHand(p)'
  BY <1>2, <1>3, <1>4 DEF InHand
<1> QED
  BY <1>1, <1>3, <1>4, <1>5, StepOfOne DEF CycleInv, CycleShape

(***************************************************************************)
(* The theorem.                                                            *)
(***************************************************************************)
\* Every step of a cycle keeps the invariant.
LEMMA CycleInvStep == CycleInv /\ [CycleNext]_cycleVars => CycleInv'
<1> SUFFICES ASSUME CycleInv, [CycleNext]_cycleVars PROVE CycleInv'
  OBVIOUS
<1>1. CASE JournalWrites
  BY <1>1, JournalWritesStep
<1>4. CASE ClockTicks
  BY <1>4, ClockTicksStep
<1>2. ASSUME NEW p \in Cycler,
             \/ BeginCycle(p) \/ CollectObservations(p) \/ CallEvaluate(p)
             \/ \E pair \in Engine!Pair : CommitRule(p, pair)
             \/ EvaluateReturns(p) \/ EvaluateFails(p)
             \/ DeliverTransition(p) \/ DeliverReturns(p) \/ FinishCycle(p)
             \/ CycleContextDone(p) \/ CycleProcessDies(p)
             \/ CycleProcessStarts(p)
      PROVE  CycleInv'
  BY <1>2, BeginCycleStep, CollectObservationsStep, CallEvaluateStep,
     CommitRuleStep, EvaluateReturnsStep, EvaluateFailsStep,
     DeliverTransitionStep, DeliverReturnsStep, FinishCycleStep,
     CycleContextDoneStep, CycleProcessDiesStep, CycleProcessStartsStep
<1>3. CASE UNCHANGED cycleVars
  <2>1. UNCHANGED <<now, eval, logged, streamCursor, cycle, evaluated, owed,
                    excused>>
    BY <1>3 DEF cycleVars, engineVars, cycleHistory
  <2> QED
    BY <2>1 DEF CycleInv, CycleShape, LossIsReported, inProgress, InHand,
                owedBy, seenByAll
<1> QED
  BY <1>1, <1>2, <1>3, <1>4 DEF CycleNext

\* LossIsReported: every record behind the stored cursor was put before every
\* rule and every committed change of an incident was settled with the
\* receivers, or the cycle that had it in hand is still running, was counted
\* as failed or died with its process (scheduler.go 233-350).
THEOREM NothingLostUnreported == CycleSpec => []LossIsReported
<1>1. CycleInv => LossIsReported
  BY DEF CycleInv
<1> QED
  BY <1>1, CycleInvInit, CycleInvStep, PTL DEF CycleSpec

(***************************************************************************)
(* The rule engine in a cycle.  MonitoringCycle calls the actions of       *)
(* RuleEngine; here every behaviour of it is shown to be one of            *)
(* RuleEngine, so what is proved there holds of the agent's cycles and of  *)
(* those of the commands beside it.                                        *)
(***************************************************************************)
\* The rule engine's proofs.  Its definitions have two names here: the ones
\* that MonitoringCycle uses, and the ones that those proofs are about.
RP == INSTANCE RuleEngineProofs WITH
  Rules <- CycleRules,
  Target <- {"auth"},
  RejectedTarget <- {},
  SameText <- <<>>,
  ObservationLists <- {<<journalObservation(n)>> : n \in 0..MaxLogged} \cup
                      {<<failedObservation>>},
  Evaluator <- Cycler,
  MaxTime <- MaxCycleTime

\* An evaluation that has ended leaves nothing behind in its process.
EndedIsIdle == \A p \in Cycler : ~eval[p].running => eval[p] = Engine!Idle

EngineInv == CycleInv /\ EndedIsIdle

\* A cycle's step is one of the rule engine, or leaves it alone.
LEMMA StepIsEngines ==
  EngineInv /\ [CycleNext]_cycleVars => [Engine!Next]_(Engine!vars)
<1> SUFFICES ASSUME EngineInv, [CycleNext]_cycleVars
             PROVE  [Engine!Next]_(Engine!vars)
  OBVIOUS
<1>1. CASE UNCHANGED engineVars
  BY <1>1 DEF engineVars, Engine!vars
<1>2. CASE ClockTicks
  BY <1>2 DEF ClockTicks, Engine!Next
<1>3. ASSUME NEW p \in Cycler, CallEvaluate(p), ~UNCHANGED engineVars
      PROVE  Engine!Next
  <2> DEFINE seen == IF cycle[p].soft THEN <<failedObservation>>
                     ELSE <<journalObservation(Cardinality(cycle[p].batch))>>
             lists == {<<journalObservation(n)>> : n \in 0..MaxLogged}
                        \cup {<<failedObservation>>}
  <2>1. Engine!Evaluate(p, seen)
    BY <1>3 DEF CallEvaluate
  <2>2. cycle[p].batch \in SUBSET (1..MaxLogged)
    BY DEF EngineInv, CycleInv, CycleShape, CycleRecord
  <2>3. seen \in lists
    BY <2>2, BatchSize
  <2> HIDE DEF seen
  <2> QED
    BY <2>1, <2>3 DEF Engine!Next
<1>4. ASSUME NEW p \in Cycler, NEW pair \in Engine!Pair, CommitRule(p, pair)
      PROVE  Engine!Next
  BY <1>4 DEF CommitRule, Engine!Next
<1>5. ASSUME NEW p \in Cycler, EvaluateReturns(p) \/ EvaluateFails(p)
      PROVE  Engine!Next
  BY <1>5 DEF EvaluateReturns, EvaluateFails, Engine!Next
<1>6. ASSUME NEW p \in Cycler, CycleProcessDies(p)
      PROVE  [Engine!Next]_(Engine!vars)
  <2>1. /\ eval' = [eval EXCEPT ![p] = Engine!Idle]
        /\ UNCHANGED <<now, memory, incidents, run>>
    BY <1>6 DEF CycleProcessDies
  <2>2. eval \in [Cycler -> Engine!Evaluation]
    BY DEF EngineInv, CycleInv, CycleShape
  <2>3. CASE eval[p].running
    <3>1. Engine!FinishEvaluate(p) \/ Engine!AbortEvaluate(p)
      BY <2>1, <2>3 DEF Engine!FinishEvaluate, Engine!AbortEvaluate
    <3> QED
      BY <3>1 DEF Engine!Next
  <2>4. CASE ~eval[p].running
    <3>1. eval[p] = Engine!Idle
      BY <2>4 DEF EngineInv, EndedIsIdle
    <3>2. eval' = eval
      BY <2>1, <2>2, <3>1, Zenon
    <3> QED
      BY <2>1, <3>2 DEF Engine!vars
  <2> QED
    BY <2>3, <2>4
<1>7. ASSUME NEW p \in Cycler,
             \/ BeginCycle(p) \/ CollectObservations(p)
             \/ DeliverTransition(p) \/ DeliverReturns(p) \/ FinishCycle(p)
             \/ CycleContextDone(p) \/ CycleProcessStarts(p)
      PROVE  UNCHANGED engineVars
  BY <1>7 DEF BeginCycle, CollectObservations, DeliverTransition,
     DeliverReturns, FinishCycle, CycleContextDone, CycleProcessStarts
<1>8. CASE JournalWrites
  BY <1>1, <1>8 DEF JournalWrites
<1>9. CASE UNCHANGED cycleVars
  BY <1>1, <1>9 DEF cycleVars
<1> QED
  BY <1>1, <1>2, <1>3, <1>4, <1>5, <1>6, <1>7, <1>8, <1>9 DEF CycleNext

\* Evaluations start with Evaluate, and whatever ends one resets it.
LEMMA IdleStep ==
  EngineInv /\ [Engine!Next]_(Engine!vars) => EndedIsIdle'
<1> SUFFICES ASSUME EngineInv, [Engine!Next]_(Engine!vars)
             PROVE  EndedIsIdle'
  OBVIOUS
<1> USE DEF EngineInv, EndedIsIdle, CycleInv, CycleShape
<1>1. CASE Engine!Tick \/ UNCHANGED Engine!vars
  BY <1>1 DEF Engine!Tick, Engine!vars
<1>2. ASSUME NEW e \in Cycler, NEW seen, Engine!Evaluate(e, seen)
      PROVE  EndedIsIdle'
  BY <1>2 DEF Engine!Evaluate
<1>3. ASSUME NEW e \in Cycler, NEW pair, Engine!evaluateRuleTarget(e, pair)
      PROVE  EndedIsIdle'
  BY <1>3 DEF Engine!evaluateRuleTarget, Engine!upNext, Engine!Evaluation
<1>4. ASSUME NEW e \in Cycler,
             Engine!FinishEvaluate(e) \/ Engine!AbortEvaluate(e)
      PROVE  EndedIsIdle'
  BY <1>4 DEF Engine!FinishEvaluate, Engine!AbortEvaluate
<1> QED
  BY <1>1, <1>2, <1>3, <1>4 DEF Engine!Next

\* Every behaviour of the cycles is one of the rule engine.
THEOREM CycleRunsEngine == CycleSpec => Engine!Spec
<1>1. CycleInit => EngineInv /\ Engine!Init
  BY CycleInvInit DEF CycleInit, EngineInv, EndedIsIdle, Engine!Init
<1>2. EngineInv /\ [CycleNext]_cycleVars => EngineInv'
  BY CycleInvStep, StepIsEngines, IdleStep DEF EngineInv
<1> QED
  BY <1>1, <1>2, StepIsEngines, PTL DEF CycleSpec, Engine!Spec

\* Both names stand for the same rule engine.
LEMMA SameDecision ==
  ASSUME NEW e, NEW p
  PROVE  /\ Engine!verdictOf(e, p) = RP!verdictOf(e, p)
         /\ Engine!decision(e, p) = RP!decision(e, p)
         /\ Engine!applied(e, p) = RP!applied(e, p)
<1>1. ASSUME NEW r, NEW seen, NEW t
      PROVE  Engine!verdict(r, seen, t) = RP!verdict(r, seen, t)
  <2> USE DEF Engine!findMatches, RP!findMatches, Engine!selects, RP!selects,
       Engine!collectorMatches, RP!collectorMatches, Engine!targetMatches,
       RP!targetMatches, Engine!ResourceCollector, RP!ResourceCollector,
       Engine!AnyTarget, RP!AnyTarget, Engine!matchesForTarget,
       RP!matchesForTarget
  <2>1. Engine!observationStatus(r, seen) = RP!observationStatus(r, seen)
    BY Zenon DEF Engine!observationStatus, RP!observationStatus
  <2>2. \A policy : Engine!policySeverity(policy) = RP!policySeverity(policy)
    BY Zenon DEF Engine!policySeverity, RP!policySeverity
  <2>3. Engine!matchesForTarget(r, seen, t) = RP!matchesForTarget(r, seen, t)
    BY Zenon
  <2>4. Engine!desiredSeverityForTarget(r, seen, t)
          = RP!desiredSeverityForTarget(r, seen, t)
    BY Zenon DEF Engine!desiredSeverityForTarget, RP!desiredSeverityForTarget,
       Engine!thresholdMatches, RP!thresholdMatches
  <2> HIDE DEF Engine!matchesForTarget, RP!matchesForTarget
  <2> QED
    BY <2>1, <2>2, <2>3, <2>4 DEF Engine!verdict, RP!verdict
<1>2. Engine!rule(p) = RP!rule(p) /\ Engine!target(p) = RP!target(p)
      /\ Engine!fingerprint(p) = RP!fingerprint(p)
      /\ Engine!incidentOf(p) = RP!incidentOf(p)
  BY DEF Engine!rule, RP!rule, Engine!target, RP!target, Engine!fingerprint,
     RP!fingerprint, Engine!incidentOf, RP!incidentOf
<1>3. Engine!verdictOf(e, p) = RP!verdictOf(e, p)
  BY <1>1, <1>2 DEF Engine!verdictOf, RP!verdictOf
<1>4. ASSUME NEW r, NEW m, NEW v, NEW at
      PROVE  Engine!decide(r, m, v, at) = RP!decide(r, m, v, at)
  BY Zenon DEF Engine!decide, RP!decide, Engine!transitionState,
     RP!transitionState, Engine!healthyStep, RP!healthyStep,
     Engine!unhealthyStep, RP!unhealthyStep, Engine!Step, RP!Step,
     Engine!isActive, RP!isActive, Engine!ActiveState, RP!ActiveState,
     Engine!InitialMemory, RP!InitialMemory, Engine!NoCandidate,
     RP!NoCandidate, Engine!Clear, RP!Clear, Engine!Raise, RP!Raise,
     Engine!NoTime, RP!NoTime, Engine!stateForSeverity, RP!stateForSeverity,
     Engine!pendingStateForSeverity, RP!pendingStateForSeverity,
     Engine!durationFor, RP!durationFor, Engine!severityRank, RP!severityRank,
     Engine!ActiveSeverity, RP!ActiveSeverity, Engine!Severity, RP!Severity
<1>5. Engine!decision(e, p) = RP!decision(e, p)
  BY <1>2, <1>3, <1>4 DEF Engine!decision, RP!decision
<1>6. ASSUME NEW r, NEW c, NEW at
      PROVE  Engine!Apply(r, c, at) = RP!Apply(r, c, at)
  BY Zenon DEF Engine!Apply, RP!Apply, Engine!resolve, RP!resolve, Engine!open,
     RP!open, Engine!updateActive, RP!updateActive, Engine!Outcome,
     RP!Outcome, Engine!NoTime, RP!NoTime, Engine!severityRank,
     RP!severityRank, Engine!Severity, RP!Severity, Engine!ActiveSeverity,
     RP!ActiveSeverity
<1>7. Engine!applied(e, p) = RP!applied(e, p)
  BY <1>2, <1>5, <1>6 DEF Engine!applied, RP!applied, Engine!Outcome,
     RP!Outcome
<1> QED
  BY <1>3, <1>5, <1>7

\* The rule list and the target of the cycles are ones the proofs allow.
LEMMA EngineMayAssume == RP!RulesAssumption /\ RP!TargetAssumption
<1>1. Engine!Rule = RP!Rule
  BY Zenon DEF Engine!Rule, RP!Rule, Engine!Threshold, RP!Threshold,
     Engine!Policy, RP!Policy, Engine!ActiveSeverity, RP!ActiveSeverity
<1>3. ASSUME NEW i \in DOMAIN CycleRules, NEW seen
      PROVE  RP!matchingTargets(CycleRules[i], seen) \subseteq {"auth"}
  <2>1. CycleRules[i].target = "auth"
    BY CycleRulesAssumption
  <2> QED
    BY <2>1 DEF RP!matchingTargets, RP!AnyTarget, RP!defaultTarget
<1> QED
  BY <1>1, <1>3, CycleRulesAssumption, CycleAssumption
     DEF RP!RulesAssumption, RP!TargetAssumption

\* The behaviours under the two names are the same.
LEMMA SameEngine ==
  /\ Engine!Init <=> RP!Init
  /\ [Engine!Next]_(Engine!vars) <=> [RP!Next]_(RP!vars)
<1> USE DEF Engine!Pair, RP!Pair
<1>1. Engine!Init <=> RP!Init
  BY Zenon DEF Engine!Init, RP!Init, Engine!InitialMemory, RP!InitialMemory,
     Engine!NoTime, RP!NoTime, Engine!NoIncident, RP!NoIncident, Engine!Idle,
     RP!Idle, Engine!Fingerprints, RP!Fingerprints, Engine!fingerprint,
     RP!fingerprint, Engine!rule, RP!rule, Engine!target, RP!target
<1>2. ASSUME NEW e, NEW seen
      PROVE  Engine!Evaluate(e, seen) <=> RP!Evaluate(e, seen)
  BY Zenon DEF Engine!Evaluate, RP!Evaluate, Engine!rule, RP!rule,
     Engine!target, RP!target, Engine!matchingTargets, RP!matchingTargets,
     Engine!findMatches, RP!findMatches, Engine!selects, RP!selects,
     Engine!collectorMatches, RP!collectorMatches, Engine!targetMatches,
     RP!targetMatches, Engine!ResourceCollector, RP!ResourceCollector,
     Engine!AnyTarget, RP!AnyTarget, Engine!defaultTarget, RP!defaultTarget
<1>3. ASSUME NEW e, NEW p
      PROVE  Engine!evaluateRuleTarget(e, p) <=> RP!evaluateRuleTarget(e, p)
  <2>1. Engine!upNext(e, p) <=> RP!upNext(e, p)
    BY Zenon DEF Engine!upNext, RP!upNext
  <2>2. \A r, v, at : Engine!extended(r, v, at) = RP!extended(r, v, at)
    BY Zenon DEF Engine!extended, RP!extended
  <2>3. Engine!fingerprint(p) = RP!fingerprint(p)
        /\ Engine!target(p) = RP!target(p)
    BY Zenon DEF Engine!fingerprint, RP!fingerprint, Engine!rule, RP!rule,
       Engine!target, RP!target
  <2>4. /\ Engine!verdictOf(e, p) = RP!verdictOf(e, p)
        /\ Engine!decision(e, p) = RP!decision(e, p)
        /\ Engine!applied(e, p) = RP!applied(e, p)
    BY SameDecision
  <2> QED
    BY <2>1, <2>2, <2>3, <2>4
       DEF Engine!evaluateRuleTarget, RP!evaluateRuleTarget
<1>4. \A e : /\ Engine!FinishEvaluate(e) <=> RP!FinishEvaluate(e)
             /\ Engine!AbortEvaluate(e) <=> RP!AbortEvaluate(e)
  BY Zenon DEF Engine!FinishEvaluate, RP!FinishEvaluate, Engine!AbortEvaluate,
     RP!AbortEvaluate, Engine!Idle, RP!Idle
<1>5. Engine!Next <=> RP!Next
  BY <1>2, <1>3, <1>4, Zenon DEF Engine!Next, RP!Next, Engine!Tick, RP!Tick
<1>6. Engine!vars = RP!vars /\ Engine!vars' = RP!vars'
  BY Zenon DEF Engine!vars, RP!vars
<1> QED
  BY <1>1, <1>5, <1>6

\* What is proved of Spec under one name holds of the cycles.
LEMMA CyclesRunTheProved == CycleSpec => RP!Spec
BY CycleRunsEngine, SameEngine, PTL DEF Engine!Spec, RP!Spec

\* In every cycle, whoever runs it and wherever it fails or dies, the rows that
\* the rule engine keeps are of their types, a rule's memory never contradicts
\* its state and tells of an uninterrupted run of verdicts, and every stored
\* incident is sound.
THEOREM RowsSoundInCycles ==
  CycleSpec => [](/\ RP!TypeOK /\ RP!MemoryShape /\ RP!MemoryTellsRun
                  /\ RP!IncidentShape)
BY CyclesRunTheProved, EngineMayAssume, RP!TypeCorrect, RP!MemoryCorrect,
   RP!IncidentCorrect, PTL

\* In every cycle, an incident is resolved only after healthy verdicts alone
\* for the rule's recovery time, and each opening, escalation or resolution is
\* the last transition of the evaluation that committed it.
THEOREM ChangesDeservedInCycles ==
  CycleSpec => RP!ResolvesWhenRecovered /\ RP!ChangeIsReported
BY CyclesRunTheProved, EngineMayAssume, RP!ResolutionDeserved,
   RP!EveryChangeReported

\* In every cycle, an incident ends only on the evidence of a healthy sample of
\* its target, and that of rules on an event category, as the journal's are,
\* never ends.
THEOREM EndsRestOnEvidenceInCycles ==
  CycleSpec => RP!EndsOnEvidence /\ RP!EventIncidentsStay
BY CyclesRunTheProved, EngineMayAssume, RP!EndsRestOnEvidence,
   RP!EventsNeverResolve

\* In every cycle, the incident rows move as IncidentLifecycle allows.
THEOREM CyclesImplementLifecycle == CycleSpec => RP!ImplementsLifecycle
BY CyclesRunTheProved, EngineMayAssume, RP!RefinesLifecycle

\* When no two rules on the stream share an incident, an incident opens in a
\* cycle only on a sustained verdict and stays open at the severity its rule
\* holds.
THEOREM SustainedInCycles ==
  RP!DistinctFingerprints =>
    (CycleSpec => []RP!SeverityHasOpenIncident /\ RP!OpensWhenSustained)
BY CyclesRunTheProved, EngineMayAssume, RP!SeverityCoupled,
   RP!OpeningSustained

\* The types of the stores, of the cycles in progress and of the history.
THEOREM CycleTypes == CycleSpec => []CycleTypeOK
<1> DEFINE Counted == begun \in 0..MaxCycles
<1>1. CycleInit => EngineInv /\ Counted
  BY CycleInvInit, CycleAssumption
     DEF CycleInit, EngineInv, EndedIsIdle, Engine!Init
<1>2. ASSUME EngineInv, Counted, [CycleNext]_cycleVars
      PROVE  EngineInv' /\ Counted'
  <2>1. EngineInv'
    BY <1>2, CycleInvStep, StepIsEngines, IdleStep DEF EngineInv
  <2>2. begun' = begun \/ (begun < MaxCycles /\ begun' = begun + 1)
    BY <1>2 DEF CycleNext, cycleVars, JournalWrites, ClockTicks, BeginCycle,
       CollectObservations, CallEvaluate, CommitRule, EvaluateReturns,
       EvaluateFails, DeliverTransition, DeliverReturns, FinishCycle,
       CycleContextDone, CycleProcessDies, CycleProcessStarts
  <2> QED
    BY <1>2, <2>1, <2>2, CycleAssumption
<1>3. Engine!TypeOK <=> RP!TypeOK
  BY Zenon DEF Engine!TypeOK, RP!TypeOK, Engine!Pair, RP!Pair,
     Engine!EvaluationMemory, RP!EvaluationMemory, Engine!Fingerprints,
     RP!Fingerprints, Engine!fingerprint, RP!fingerprint, Engine!rule, RP!rule,
     Engine!target, RP!target, Engine!IncidentRecord, RP!IncidentRecord,
     Engine!Evaluation, RP!Evaluation, Engine!Severity, RP!Severity,
     Engine!ActiveSeverity, RP!ActiveSeverity, Engine!State, RP!State,
     Engine!ActiveState, RP!ActiveState, Engine!PendingState, RP!PendingState,
     Engine!Time, RP!Time, Engine!NoTime, RP!NoTime, Engine!Status, RP!Status,
     Engine!Transition, RP!Transition, Engine!Action, RP!Action
<1>4. EngineInv /\ Counted /\ RP!TypeOK => CycleTypeOK
  BY <1>3 DEF EngineInv, CycleInv, CycleShape, CycleTypeOK
<1>5. CycleSpec => []RP!TypeOK
  BY RowsSoundInCycles, PTL
<1> HIDE DEF Counted
<1> QED
  BY <1>1, <1>2, <1>4, <1>5, PTL DEF CycleSpec
-----------------------------------------------------------------------------
(***************************************************************************)
(* The collectors together.  They share a table and no row of it, so what  *)
(* is proved of each holds of all of them side by side.                    *)
(***************************************************************************)
\* A step of one collector is no step of another.
LEMMA CollectorStep ==
  [CollectorsNext]_collectorVars =>
    /\ [JournalNext]_journalVars
    /\ [FileNext]_fileVars
    /\ [CounterNext]_counterVars
    /\ [CpuNext]_cpuVars
    /\ [BootNext]_bootVars
    /\ [CycleNext]_cycleVars
<1>1. CASE UNCHANGED collectorVars
  BY <1>1 DEF collectorVars
<1>2. CASE CollectorsNext
  BY <1>2 DEF CollectorsNext, CounterNext
<1> QED
  BY <1>1, <1>2

\* What the collectors do together is a behaviour of each of them.
THEOREM CollectorsRunParts ==
  CollectorsSpec =>
    JournalSpec /\ FileSpec /\ CounterSpec /\ CpuSpec /\ BootSpec /\ CycleSpec
<1>1. CollectorsInit =>
        /\ JournalInit /\ FileInit /\ CounterInit /\ CpuInit /\ BootInit
        /\ CycleInit
  BY DEF CollectorsInit
<1> QED
  BY <1>1, CollectorStep, PTL
     DEF CollectorsSpec, JournalSpec, FileSpec, CounterSpec, CpuSpec, BootSpec,
         CycleSpec

\* The types of the rows, of the processes and of the world, of all of them.
THEOREM CollectorsTyped == CollectorsSpec => []TypeOK
BY CollectorsRunParts, JournalTypes, FileTypes, CounterTypes, CpuTypes,
   BootTypes, CycleTypes, PTL DEF TypeOK
=============================================================================
