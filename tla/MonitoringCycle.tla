--------------------------- MODULE MonitoringCycle ---------------------------
(***************************************************************************)
(* One cycle of the scheduler from end to end: the journal collector moves *)
(* its cursor, the rule engine commits rule by rule, the notifier is       *)
(* handed what Evaluate returned, finishCycle counts the cycle.  Each of   *)
(* these is durable at another moment, so a cycle that ends in between     *)
(* leaves something behind that no later cycle makes good: records behind  *)
(* the cursor that no rule has seen, incidents whose opening nobody was    *)
(* told of.                                                                *)
(*                                                                         *)
(* The rule engine is RuleEngine itself, as an instance that shares the    *)
(* variables.  A collection is one step (JournalCursor has its steps), as  *)
(* is the delivery of one transition to all receivers (NotifyDelivery).    *)
(* Cyclers are the agent and "scheduler run-once --persist" commands on    *)
(* the same database.                                                      *)
(*                                                                         *)
(* evaluated, owed and excused are history: which records which pair has   *)
(* seen; which changes of incidents, by which process, have not been       *)
(* settled with the receivers; what a counted failure or the death of a    *)
(* process accounts for.                                                   *)
(***************************************************************************)
EXTENDS IncidentEngine, Sequences, FiniteSets

CONSTANTS
  Cycler,      \* processes that run cycles
  CycleRules,  \* the enabled rules on the journal's "auth" stream
  MaxLogged,   \* bound on the records journald writes
  MaxCycles,   \* bound on the cycles begun
  MaxCycleTime \* bound on the clock

ASSUME CycleAssumption ==
  MaxLogged \in Nat /\ MaxCycles \in Nat /\ MaxCycleTime \in Nat

VARIABLES
  now, memory, incidents, eval, run,  \* as in RuleEngine
  logged,        \* journald holds the records 1..logged
  streamCursor,  \* the stored cursor of the stream
  cycle,         \* the cycles in progress
  begun,         \* cycles begun so far
  evaluated, owed, excused  \* history, see above

engineVars == <<now, memory, incidents, eval, run>>
cycleHistory == <<evaluated, owed, excused>>
cycleVars == <<engineVars, logged, streamCursor, cycle, begun, cycleHistory>>

(***************************************************************************)
(* What the collection of the stream reports: the number of records and    *)
(* one event per record, or a failure.                                     *)
(***************************************************************************)
journalObservation(n) ==
  [collector |-> "journal", supported |-> TRUE, errorClass |-> "",
   stale |-> FALSE, success |-> TRUE,
   samples |->
     {[kind |-> "metric", name |-> "pooly_journal_events_total",
       target |-> "auth", number |-> n, text |-> "auth"]} \cup
     {[kind |-> "event", name |-> "authentication_failure",
       target |-> "auth", number |-> 0, text |-> "authentication_failure"] :
        i \in 1..n}]

failedObservation ==
  [journalObservation(0) EXCEPT !.success = FALSE, !.errorClass = "timeout",
                                !.samples = {}]

Engine == INSTANCE RuleEngine WITH
  Rules <- CycleRules,
  Target <- {"auth"},
  RejectedTarget <- {},
  SameText <- <<>>,
  ObservationLists <- {<<journalObservation(n)>> : n \in 0..MaxLogged} \cup
                      {<<failedObservation>>},
  Evaluator <- Cycler,
  MaxTime <- MaxCycleTime

\* A rule that names the stream is visited in every cycle, whatever was
\* observed (matchingTargets); disabled ones and those for other targets are
\* left out.
ASSUME CycleRulesAssumption ==
  /\ CycleRules \in Seq(Engine!Rule)
  /\ \A i \in DOMAIN CycleRules :
       CycleRules[i].enabled /\ CycleRules[i].target = "auth"

Loss == [entries : SUBSET (1..MaxLogged),
         changes : SUBSET (Cycler \X Engine!Fingerprints)]

(***************************************************************************)
(* A cycle in progress.  batch holds the records of this cycle's           *)
(* observation, soft whether a collector failed, rejected whether a        *)
(* receiver did, err whether RunOnce's err is set.                         *)
(***************************************************************************)
CyclePC == {"idle", "collect", "evaluate", "rules", "notify", "finish", "dead"}

CycleRecord == [pc       : CyclePC,
                ctx      : BOOLEAN,
                batch    : SUBSET (1..MaxLogged),
                soft     : BOOLEAN,
                queue    : Seq(Engine!Transition),
                rejected : BOOLEAN,
                err      : BOOLEAN]

NoCycle == [pc |-> "idle", ctx |-> TRUE, batch |-> {}, soft |-> FALSE,
            queue |-> <<>>, rejected |-> FALSE, err |-> FALSE]

CycleInit ==
  /\ Engine!Init
  /\ logged = 0
  /\ streamCursor = 0
  /\ cycle = [p \in Cycler |-> NoCycle]
  /\ begun = 0
  /\ evaluated = {}
  /\ owed = {}
  /\ excused = [entries |-> {}, changes |-> {}]

JournalWrites ==
  /\ logged < MaxLogged
  /\ logged' = logged + 1
  /\ UNCHANGED <<engineVars, streamCursor, cycle, begun, cycleHistory>>

\* The wall clock moves on; an evaluation under way keeps its reading.
ClockTicks ==
  /\ Engine!Tick
  /\ UNCHANGED <<logged, streamCursor, cycle, begun, cycleHistory>>

BeginCycle(p) ==
  /\ cycle[p].pc = "idle"
  /\ begun < MaxCycles
  /\ begun' = begun + 1
  /\ cycle' = [cycle EXCEPT ![p].pc = "collect"]
  /\ UNCHANGED <<engineVars, logged, streamCursor, cycleHistory>>

\* The observations are complete only with their rows: the cursor is saved
\* before the collector returns.  A stage that sees its context done fails.
CollectObservations(p) ==
  /\ cycle[p].pc = "collect"
  /\ \/ /\ cycle[p].ctx
        /\ streamCursor' = logged
        /\ cycle' = [cycle EXCEPT ![p].pc = "evaluate",
                                  ![p].batch = (streamCursor + 1)..logged]
     \/ /\ cycle' = [cycle EXCEPT ![p].pc = "evaluate", ![p].soft = TRUE]
        /\ UNCHANGED streamCursor
  /\ UNCHANGED <<engineVars, logged, begun, cycleHistory>>

\* The look at the context between the stages, then Evaluate begins.  Here and
\* below, an error includes a panic that RunOnce has recovered.
CallEvaluate(p) ==
  /\ cycle[p].pc = "evaluate"
  /\ \/ /\ cycle[p].ctx
        /\ Engine!Evaluate(p,
             IF cycle[p].soft THEN <<failedObservation>>
             ELSE <<journalObservation(Cardinality(cycle[p].batch))>>)
        /\ cycle' = [cycle EXCEPT ![p].pc = "rules"]
     \/ /\ cycle' = [cycle EXCEPT ![p].pc = "finish", ![p].err = TRUE]
        /\ UNCHANGED engineVars
  /\ UNCHANGED <<logged, streamCursor, begun, cycleHistory>>

\* The transaction of one rule and target commits.
CommitRule(p, pair) ==
  /\ cycle[p].pc = "rules"
  /\ cycle[p].ctx
  /\ Engine!evaluateRuleTarget(p, pair)
  /\ LET f == Engine!fingerprint(pair)
         changes == Engine!applied(p, pair).action \notin {"none", "updated"}
     IN owed' = IF changes THEN owed \cup {<<p, f>>} ELSE owed
  /\ evaluated' = evaluated \cup {<<n, pair>> : n \in cycle[p].batch}
  /\ UNCHANGED <<logged, streamCursor, cycle, begun, excused>>

EvaluateReturns(p) ==
  /\ cycle[p].pc = "rules"
  /\ Engine!FinishEvaluate(p)
  /\ cycle' = [cycle EXCEPT ![p].pc = "notify",
                            ![p].queue = eval[p].transitions]
  /\ UNCHANGED <<logged, streamCursor, begun, cycleHistory>>

\* Mutated form: an error of Evaluate is passed over, its transitions are not.
EvaluateFailsQuietly(p) ==
  /\ cycle[p].pc = "rules"
  /\ Engine!AbortEvaluate(p)
  /\ cycle' = [cycle EXCEPT ![p].pc = "notify",
                            ![p].queue = eval[p].transitions]
  /\ UNCHANGED <<logged, streamCursor, begun, cycleHistory>>

\* Evaluate returns an error: the context is done, or a transaction failed.
\* RunOnce drops the transitions that came with it.
EvaluateFails(p) ==
  /\ cycle[p].pc = "rules"
  /\ Engine!AbortEvaluate(p)
  /\ cycle' = [cycle EXCEPT ![p].pc = "finish", ![p].err = TRUE]
  /\ UNCHANGED <<logged, streamCursor, begun, cycleHistory>>

\* One transition in DeliverTransitions.  An update is passed over; for the
\* others every receiver is settled (it accepted, has done so before, or its
\* filters do not match), or some receiver failed, which does not end the loop.
DeliverTransition(p) ==
  /\ cycle[p].pc = "notify"
  /\ cycle[p].queue # <<>>
  /\ LET t == Head(cycle[p].queue)
         rest == [cycle[p] EXCEPT !.queue = Tail(@)]
     IN IF t.action = "updated"
        THEN /\ cycle' = [cycle EXCEPT ![p] = rest]
             /\ UNCHANGED owed
        ELSE /\ cycle[p].ctx
             /\ \/ /\ cycle' = [cycle EXCEPT ![p] = rest]
                   /\ owed' = owed \ {<<p, t.fingerprint>>}
                \/ /\ cycle' = [cycle EXCEPT ![p] = [rest EXCEPT
                                                       !.rejected = TRUE]]
                   /\ UNCHANGED owed
  /\ UNCHANGED <<engineVars, logged, streamCursor, begun, evaluated, excused>>

\* The loop ends: the queue is empty, or the store or the context fails it.
DeliverReturns(p) ==
  /\ cycle[p].pc = "notify"
  /\ \/ /\ cycle[p].queue = <<>>
        /\ cycle' = [cycle EXCEPT ![p].pc = "finish",
                                  ![p].err = \/ cycle[p].rejected
                                             \/ cycle[p].soft
                                             \/ ~cycle[p].ctx]
     \/ /\ cycle[p].queue # <<>>
        /\ cycle' = [cycle EXCEPT ![p].pc = "finish", ![p].err = TRUE]
  /\ UNCHANGED <<engineVars, logged, streamCursor, begun, cycleHistory>>

\* What the cycle of p would leave behind if it ended now.
leftBy(p) ==
  [entries |-> excused.entries \cup cycle[p].batch,
   changes |-> excused.changes \cup {c \in owed : c[1] = p}]

\* finishCycle counts the cycle as a failure or a success; a status that is
\* not saved makes it a failure.
FinishCycle(p) ==
  /\ cycle[p].pc = "finish"
  /\ \E failed \in {cycle[p].err, TRUE} :
       excused' = IF failed THEN leftBy(p) ELSE excused
  /\ cycle' = [cycle EXCEPT ![p] = NoCycle]
  /\ UNCHANGED <<engineVars, logged, streamCursor, begun, evaluated, owed>>

\* The cycle's timeout, or a signal.
CycleContextDone(p) ==
  /\ cycle[p].pc \notin {"idle", "finish", "dead"}
  /\ cycle[p].ctx
  /\ cycle' = [cycle EXCEPT ![p].ctx = FALSE]
  /\ UNCHANGED <<engineVars, logged, streamCursor, begun, cycleHistory>>

\* The process dies; nothing counts its cycle.  Its evaluation, if one was
\* under way, rolls back the transaction it was in.
CycleProcessDies(p) ==
  /\ cycle[p].pc \notin {"idle", "dead"}
  /\ cycle' = [cycle EXCEPT ![p] = [NoCycle EXCEPT !.pc = "dead"]]
  /\ eval' = [eval EXCEPT ![p] = Engine!Idle]
  /\ excused' = leftBy(p)
  /\ UNCHANGED <<now, memory, incidents, run, logged, streamCursor, begun,
                 evaluated, owed>>

CycleProcessStarts(p) ==
  /\ cycle[p].pc = "dead"
  /\ cycle' = [cycle EXCEPT ![p] = NoCycle]
  /\ UNCHANGED <<engineVars, logged, streamCursor, begun, cycleHistory>>

CycleNext ==
  \/ JournalWrites
  \/ ClockTicks
  \/ \E p \in Cycler :
       \/ BeginCycle(p) \/ CollectObservations(p) \/ CallEvaluate(p)
       \/ \E pair \in Engine!Pair : CommitRule(p, pair)
       \/ EvaluateReturns(p) \/ EvaluateFails(p)
       \/ DeliverTransition(p) \/ DeliverReturns(p) \/ FinishCycle(p)
       \/ CycleContextDone(p) \/ CycleProcessDies(p) \/ CycleProcessStarts(p)

CycleSpec == CycleInit /\ [][CycleNext]_cycleVars
-----------------------------------------------------------------------------
\* The type of the stores, of the cycles in progress and of the history.
CycleTypeOK ==
  /\ Engine!TypeOK
  /\ logged \in 0..MaxLogged
  /\ streamCursor \in 0..MaxLogged
  /\ cycle \in [Cycler -> CycleRecord]
  /\ begun \in 0..MaxCycles
  /\ evaluated \subseteq (1..MaxLogged) \X Engine!Pair
  /\ owed \subseteq Cycler \X Engine!Fingerprints
  /\ excused \in Loss

inProgress == {p \in Cycler : cycle[p].pc \notin {"idle", "dead"}}

\* docs/scheduler.md counts a cycle whose stage fails as a failed one: that is
\* the only trace of what such a cycle lost.  Every record the cursor has
\* passed was put before every rule, and every committed change of an incident
\* was settled with the receivers, unless a cycle still has it in hand, or the
\* cycle that had it was counted as failed or died.
LossIsReported ==
  /\ \A n \in 1..streamCursor, pair \in Engine!Pair :
       \/ <<n, pair>> \in evaluated
       \/ n \in excused.entries
       \/ \E p \in inProgress : n \in cycle[p].batch
  /\ \A c \in owed : c \in excused.changes \/ c[1] \in inProgress
=============================================================================
