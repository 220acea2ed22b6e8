--------------------------- MODULE NotifyDelivery ---------------------------
(***************************************************************************)
(* Notification delivery (internal/notify/delivery.go, dedupe.go) over the *)
(* tables incidents and notification_deliveries.                           *)
(*                                                                         *)
(* A process is one invocation of the program on the shared database.  A   *)
(* Cycler runs scheduler cycles: an evaluation that commits incident       *)
(* transitions one by one, then DeliverTransitions on those it collected.  *)
(* A Sender runs "notifications send" for one stored incident.  Between    *)
(* reading the earlier attempts, posting to the receiver and recording the *)
(* attempt other processes may take steps, the context may end, and the    *)
(* process may die.                                                        *)
(*                                                                         *)
(* The rule engine is reduced to the candidates it may hand to the         *)
(* incident engine; the incident engine is IncidentEngine itself.          *)
(***************************************************************************)
EXTENDS IncidentEngine, Sequences

CONSTANTS
  Incident,   \* incident ids
  Receivers,  \* notify.receivers, in configuration order
  Cycler,     \* processes that run scheduler cycles
  Sender,     \* processes that run "notifications send"
  Enabled,    \* notify.enabled
  DryRun,     \* processes whose service is in dry-run mode
  MaxTime,    \* bound on the number of incident transitions
  MaxStarts   \* bound on the number of cycles and commands

Process == Cycler \cup Sender
Event == {"opened", "escalated", "resolved"}

\* A filter may name an event that is never raised: EventFromTransition
\* makes "opened" of a reopening.
Receiver == [id : STRING, enabled : BOOLEAN,
             events : SUBSET (Event \cup {"reopened"}),
             severities : SUBSET Severity]

ASSUME DeliveryAssumption ==
  /\ Incident # {}
  /\ Receivers \in Seq(Receiver)
  /\ Enabled \in BOOLEAN
  /\ DryRun \subseteq Process
  /\ MaxTime \in Nat
  /\ MaxStarts \in Nat

VARIABLES
  now,        \* number of the latest incident transition, the clock
  incidents,  \* table incidents, without last_alerted
  alerted,    \* column last_alerted
  rows,       \* table notification_deliveries
  proc,       \* the processes
  starts,     \* cycles and commands started so far
  accepted    \* history: keys for which a receiver reported success

vars == <<now, incidents, alerted, rows, proc, starts, accepted>>

(***************************************************************************)
(* Keys and attempts.                                                      *)
(***************************************************************************)
Key == [incident : Incident, receiver : STRING, event : Event,
        severity : Severity, status : Status, transition : Time]

transitionTime(record) ==
  IF record.lastTransition # NoTime THEN record.lastTransition
  ELSE record.resolvedAt

\* The hash of these fields; distinct fields give distinct hashes.
deliveryKey(i, record, receiver, event) ==
  [incident   |-> i,
   receiver   |-> receiver,
   event      |-> event,
   severity   |-> record.severity,
   status     |-> record.status,
   transition |-> transitionTime(record)]

\* The primary key of a row is its key and attempt.
Row == [key : Key, attempt : Nat, status : {"delivered", "failed"}, at : Nat]
NewRow(key, attempt, success, at) ==
  [key |-> key, attempt |-> attempt, at |-> at,
   status |-> IF success THEN "delivered" ELSE "failed"]

rowsOf(key) == {r \in rows : r.key = key}
attemptsOf(key) == {r.attempt : r \in rowsOf(key)}

\* Mutated form: only the first attempt counts.
wasDeliveredFirst(key) ==
  \E r \in rowsOf(key) : r.attempt = 1 /\ r.status = "delivered"

wasDelivered(key) == \E r \in rowsOf(key) : r.status = "delivered"

\* Mutated form: attempts for other events and receivers count too.
nextAttemptOfIncident(key) ==
  LET taken == {r.attempt : r \in {x \in rows : x.key.incident = key.incident}}
  IN IF taken = {} THEN 1
     ELSE 1 + (CHOOSE n \in taken : \A m \in taken : m <= n)

nextAttempt(key) ==
  IF attemptsOf(key) = {} THEN 1
  ELSE 1 + (CHOOSE n \in attemptsOf(key) : \A m \in attemptsOf(key) : m <= n)

EventFromTransition(action) ==
  IF action \in {"opened", "reopened"} THEN "opened" ELSE action

EventFromIncident(record) ==
  IF record.status = "resolved" THEN "resolved" ELSE "opened"

(***************************************************************************)
(* Receivers.  An empty list of events or severities in the configuration  *)
(* has already been replaced by all of them.                               *)
(***************************************************************************)
Matches(receiver, event, severity) ==
  /\ event \in receiver.events
  /\ event = "resolved" \/ severity \in receiver.severities

(***************************************************************************)
(* Processes.  queue holds the transitions still to be delivered, snapshot *)
(* the incident as GetIncident returned it, next the receiver whose turn   *)
(* it is, attempt, success and at the attempt under way, ctx whether the   *)
(* context is still alive.                                                 *)
(***************************************************************************)
PC == {"idle", "evaluate", "deliver", "receivers", "send", "record", "crashed"}

Transition == [incident : Incident, action : Action \ {"none"}]

ProcessRecord == [pc       : PC,
                  ctx      : BOOLEAN,
                  queue    : Seq(Transition),
                  incident : Incident,
                  snapshot : IncidentRecord,
                  event    : Event,
                  next     : Nat \ {0},
                  attempt  : Nat,
                  success  : BOOLEAN,
                  at       : Nat]

IdleProcess == [pc       |-> "idle",
                ctx      |-> TRUE,
                queue    |-> <<>>,
                incident |-> CHOOSE i \in Incident : TRUE,
                snapshot |-> NoIncident,
                event    |-> "opened",
                next     |-> 1,
                attempt  |-> 0,
                success  |-> FALSE,
                at       |-> 0]

Init ==
  /\ now = 0
  /\ incidents = [i \in Incident |-> NoIncident]
  /\ alerted = [i \in Incident |-> NoTime]
  /\ rows = {}
  /\ proc = [p \in Process |-> IdleProcess]
  /\ starts = 0
  /\ accepted = {}

receiverOf(p) == Receivers[proc[p].next]
keyOf(p) == deliveryKey(proc[p].incident, proc[p].snapshot, receiverOf(p).id,
                        proc[p].event)

Become(p, record) == proc' = [proc EXCEPT ![p] = record]

(***************************************************************************)
(* A cycle up to delivery: transitions of incidents, each committed before *)
(* it joins the queue.                                                     *)
(***************************************************************************)
BeginCycle(p) ==
  /\ p \in Cycler
  /\ proc[p].pc = "idle"
  /\ starts < MaxStarts
  /\ starts' = starts + 1
  /\ Become(p, [IdleProcess EXCEPT !.pc = "evaluate"])
  /\ UNCHANGED <<now, incidents, alerted, rows, accepted>>

\* The engine reads and writes the whole row in one transaction, last_alerted
\* included, which it leaves as it was.
ApplyCandidate(p, i, candidate) ==
  /\ proc[p].pc = "evaluate"
  /\ proc[p].ctx
  /\ now < MaxTime
  /\ now' = now + 1
  /\ LET out == Apply(incidents[i], candidate, now + 1)
     IN /\ incidents' = [incidents EXCEPT ![i] = out.record]
        /\ proc' = [proc EXCEPT ![p].queue =
                      IF out.action = "none" THEN @
                      ELSE Append(@, [incident |-> i, action |-> out.action])]
  /\ UNCHANGED <<alerted, rows, starts, accepted>>

EndEvaluate(p) ==
  /\ proc[p].pc = "evaluate"
  /\ proc' = [proc EXCEPT ![p].pc = "deliver"]
  /\ UNCHANGED <<now, incidents, alerted, rows, starts, accepted>>

(***************************************************************************)
(* DeliverTransitions and DeliverIncident.                                 *)
(***************************************************************************)
\* DeliverIncident up to its loop: without notifications and dry run there is
\* nothing to do.
enter(q, p, i, record, event) ==
  [q EXCEPT !.pc = IF Enabled \/ p \in DryRun THEN "receivers" ELSE "deliver",
            !.incident = i,
            !.snapshot = record,
            !.event = event,
            !.next = 1]

\* Mutated form: updates are delivered like the other transitions.
NextTransitionUpdates(p) ==
  /\ proc[p].pc = "deliver"
  /\ IF proc[p].queue = <<>>
     THEN Become(p, IdleProcess)
     ELSE LET t == Head(proc[p].queue)
          IN /\ proc[p].ctx
             /\ Become(p, enter([proc[p] EXCEPT !.queue = Tail(@)], p,
                                t.incident, incidents[t.incident],
                                EventFromTransition(t.action)))
  /\ UNCHANGED <<now, incidents, alerted, rows, starts, accepted>>

\* One round of the loop of DeliverTransitions: "updated" is passed over, for
\* the others the incident is read again, as it is now.
NextTransition(p) ==
  /\ proc[p].pc = "deliver"
  /\ IF proc[p].queue = <<>>
     THEN Become(p, IdleProcess)
     ELSE LET t == Head(proc[p].queue)
              rest == [proc[p] EXCEPT !.queue = Tail(@)]
          IN IF t.action = "updated"
             THEN Become(p, rest)
             ELSE /\ proc[p].ctx
                  /\ Become(p, enter(rest, p, t.incident, incidents[t.incident],
                                     EventFromTransition(t.action)))
  /\ UNCHANGED <<now, incidents, alerted, rows, starts, accepted>>

\* "notifications send".
SendCommand(p, i) ==
  /\ p \in Sender
  /\ proc[p].pc = "idle"
  /\ incidents[i].status # "absent"
  /\ starts < MaxStarts
  /\ starts' = starts + 1
  /\ Become(p, enter(IdleProcess, p, i, incidents[i],
                     EventFromIncident(incidents[i])))
  /\ UNCHANGED <<now, incidents, alerted, rows, accepted>>

\* deliverToReceiver returns without looking at the store.
skips(p) ==
  \/ ~receiverOf(p).enabled /\ p \notin DryRun
  \/ ~Matches(receiverOf(p), proc[p].event,
              IF proc[p].event = "resolved" THEN "none"
              ELSE proc[p].snapshot.severity)
  \/ p \in DryRun

\* Mutated form: a suppressed duplicate does not advance the loop.
NextReceiverRepeats(p) ==
  /\ proc[p].pc = "receivers"
  /\ IF proc[p].next > Len(Receivers)
     THEN proc' = [proc EXCEPT ![p].pc = "deliver"]
     ELSE /\ proc[p].ctx
          /\ ~skips(p) => ~wasDelivered(keyOf(p))
          /\ IF skips(p)
             THEN proc' = [proc EXCEPT ![p].next = @ + 1]
             ELSE proc' = [proc EXCEPT ![p].pc = "send",
                                       ![p].attempt = nextAttempt(keyOf(p))]
  /\ UNCHANGED <<now, incidents, alerted, rows, starts, accepted>>

\* One round of DeliverIncident's loop, up to the call of the receiver.
NextReceiver(p) ==
  /\ proc[p].pc = "receivers"
  /\ IF proc[p].next > Len(Receivers)
     THEN proc' = [proc EXCEPT ![p].pc = "deliver"]
     ELSE /\ proc[p].ctx
          /\ IF skips(p) \/ wasDelivered(keyOf(p))
             THEN proc' = [proc EXCEPT ![p].next = @ + 1]
             ELSE proc' = [proc EXCEPT ![p].pc = "send",
                                       ![p].attempt = nextAttempt(keyOf(p))]
  /\ UNCHANGED <<now, incidents, alerted, rows, starts, accepted>>

\* The receiver's answer.  Once the context is done the post fails.
Deliver(p) ==
  /\ proc[p].pc = "send"
  /\ \E success \in BOOLEAN :
       /\ success => proc[p].ctx
       /\ proc' = [proc EXCEPT ![p].pc = "record", ![p].success = success,
                               ![p].at = now]
       /\ accepted' = IF success THEN accepted \cup {keyOf(p)} ELSE accepted
  /\ UNCHANGED <<now, incidents, alerted, rows, starts>>

\* Mutated form: last_alerted is set by failed attempts as well.
RecordAlertsAlways(p) ==
  /\ proc[p].pc = "record"
  /\ proc[p].ctx
  /\ proc[p].attempt \notin attemptsOf(keyOf(p))
  /\ rows' = rows \cup {NewRow(keyOf(p), proc[p].attempt, proc[p].success,
                               proc[p].at)}
  /\ alerted' = [alerted EXCEPT ![proc[p].incident] = proc[p].at]
  /\ proc' = [proc EXCEPT ![p].pc = "receivers", ![p].next = @ + 1]
  /\ UNCHANGED <<now, incidents, starts, accepted>>

\* The transaction of one attempt commits.  A row with the same primary key
\* makes the insert fail, and a context that is done makes every statement
\* fail: see Fail.
Record(p) ==
  /\ proc[p].pc = "record"
  /\ proc[p].ctx
  /\ proc[p].attempt \notin attemptsOf(keyOf(p))
  /\ rows' = rows \cup {NewRow(keyOf(p), proc[p].attempt, proc[p].success,
                               proc[p].at)}
  /\ alerted' = IF proc[p].success
                THEN [alerted EXCEPT ![proc[p].incident] = proc[p].at]
                ELSE alerted
  /\ proc' = [proc EXCEPT ![p].pc = "receivers", ![p].next = @ + 1]
  /\ UNCHANGED <<now, incidents, starts, accepted>>

\* A store call returns an error, or the loop sees that the context is done:
\* what is left of the queue is dropped.
Fail(p) ==
  /\ proc[p].pc \in {"evaluate", "deliver", "receivers", "record"}
  /\ Become(p, IdleProcess)
  /\ UNCHANGED <<now, incidents, alerted, rows, starts, accepted>>

\* Cycle timeout or shutdown.  Only a cycle's context ends.
ContextDone(p) ==
  /\ p \in Cycler
  /\ proc[p].pc \notin {"idle", "crashed"}
  /\ proc[p].ctx
  /\ proc' = [proc EXCEPT ![p].ctx = FALSE]
  /\ UNCHANGED <<now, incidents, alerted, rows, starts, accepted>>

Crash(p) ==
  /\ proc[p].pc \notin {"idle", "crashed"}
  /\ Become(p, [IdleProcess EXCEPT !.pc = "crashed"])
  /\ UNCHANGED <<now, incidents, alerted, rows, starts, accepted>>

Restart(p) ==
  /\ proc[p].pc = "crashed"
  /\ Become(p, IdleProcess)
  /\ UNCHANGED <<now, incidents, alerted, rows, starts, accepted>>

Candidates == {Raise(s) : s \in ActiveSeverity} \cup {Clear}

DeliveryStep(p) ==
  \/ EndEvaluate(p) \/ NextTransition(p) \/ NextReceiver(p) \/ Deliver(p)
  \/ Record(p)

Next ==
  \E p \in Process :
    \/ BeginCycle(p)
    \/ \E i \in Incident : \/ \E c \in Candidates : ApplyCandidate(p, i, c)
                           \/ SendCommand(p, i)
    \/ DeliveryStep(p)
    \/ Fail(p) \/ ContextDone(p) \/ Crash(p) \/ Restart(p)

Spec == Init /\ [][Next]_vars

(***************************************************************************)
(* Receivers answer within their timeout and the store returns, so a       *)
(* process that is not killed takes its next step, or fails where it has   *)
(* to.  A store error that could have been a success is never forced.      *)
(***************************************************************************)
mustFail(p) ==
  \/ ~proc[p].ctx
  \/ proc[p].pc = "record" /\ proc[p].attempt \in attemptsOf(keyOf(p))

Fairness ==
  \A p \in Process : WF_vars(DeliveryStep(p) \/ (mustFail(p) /\ Fail(p)))

FairSpec == Spec /\ Fairness

-----------------------------------------------------------------------------
\* The type of the tables and the processes.
TypeOK ==
  /\ now \in Nat
  /\ incidents \in [Incident -> IncidentRecord]
  /\ alerted \in [Incident -> Time]
  /\ rows \subseteq Row
  /\ proc \in [Process -> ProcessRecord]
  /\ starts \in Nat
  /\ accepted \subseteq Key

\* The attempts recorded for a key are numbered from 1 without a gap, one row
\* each, and none follows a delivered one, although processes choose their
\* number long before they insert it.
AttemptsAccounted ==
  /\ \A r, s \in rows : r.key = s.key /\ r.attempt = s.attempt => r = s
  /\ \A r \in rows : \A n \in 1..r.attempt : n \in attemptsOf(r.key)
  /\ \A r, s \in rows :
       r.key = s.key /\ r.status = "delivered" => s.attempt <= r.attempt

\* docs/notification-delivery-state.md, "Duplicate suppression is
\* deterministic": at most one delivery per receiver and lifecycle event is
\* recorded as successful.
DeliveredOnce ==
  \A r, s \in rows :
    r.key = s.key /\ r.status = "delivered" /\ s.status = "delivered" => r = s

\* docs/notification-delivery.md, "Update `last_alerted` only after a
\* successful delivery": last_alerted is the time of a recorded delivery, and
\* is set as soon as there is one.
AlertedBacked ==
  \A i \in Incident :
    LET delivered == {r \in rows : r.key.incident = i /\ r.status = "delivered"}
    IN IF delivered = {} THEN alerted[i] = NoTime
       ELSE alerted[i] \in {r.at : r \in delivered}

\* A process in the middle of an attempt: every earlier attempt of its key is
\* recorded, as failed.  This makes AttemptsAccounted inductive.
AttemptFollowsFailures ==
  \A p \in Process :
    proc[p].pc \in {"send", "record"} =>
      /\ proc[p].attempt >= 1
      /\ \A n \in 1..(proc[p].attempt - 1) :
           \E r \in rowsOf(keyOf(p)) : r.attempt = n /\ r.status = "failed"

\* Every cycle and command comes to an end, whatever receivers answer.
DeliveryEnds ==
  \A p \in Process : proc[p].pc # "idle" ~> proc[p].pc \in {"idle", "crashed"}

\* docs/notification-delivery-state.md, "A prior successful attempt suppresses
\* repeated delivery for the same lifecycle event across process restarts": a
\* receiver that has accepted a notification is not posted to again once the
\* process that posted it has gone on or ended.  Later runs know of the success
\* only if it was recorded, and the process may end before that.
RepeatSuppressed ==
  [][\A p \in Process :
       /\ proc[p].pc # "send"
       /\ proc'[p].pc = "send"
       /\ \A q \in Process : proc[q].pc = "record" => keyOf(q) # keyOf(p)
       => keyOf(p) \notin accepted]_vars
=============================================================================
