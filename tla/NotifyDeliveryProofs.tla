------------------------ MODULE NotifyDeliveryProofs ------------------------
(***************************************************************************)
(* Proofs about NotifyDelivery: types, the numbering of attempts, at most  *)
(* one recorded delivery per key, last_alerted, and that deliveries only   *)
(* ever get on, for any number of processes, receivers, incidents, cycles  *)
(* and commands.                                                           *)
(***************************************************************************)
EXTENDS NotifyDelivery, SequenceTheorems, TLAPS

\* A process that is posting or recording is inside the loop over receivers.
InLoop ==
  \A p \in Process :
    proc[p].pc \in {"send", "record"} => proc[p].next <= Len(Receivers)

\* The attempts of a key are numbered 1 to n.  The numbers are bounded: without
\* this nextAttempt would have no largest number to start from.
Numbered == \A k \in Key : \E n \in Nat : attemptsOf(k) = 1..n

\* What nextAttempt returns, given Numbered.
LEMMA NextAttempt ==
  ASSUME Numbered, NEW k \in Key
  PROVE  /\ nextAttempt(k) \in Nat \ {0}
         /\ attemptsOf(k) = 1..(nextAttempt(k) - 1)
<1>1. PICK n \in Nat : attemptsOf(k) = 1..n
  BY DEF Numbered
<1>2. CASE n = 0
  <2>1. attemptsOf(k) = {}
    BY <1>1, <1>2
  <2>2. nextAttempt(k) = 1
    BY <2>1 DEF nextAttempt
  <2> QED
    BY <1>1, <1>2, <2>2
<1>3. CASE n # 0
  <2> DEFINE top(x) == \A m \in attemptsOf(k) : m <= x
             last == CHOOSE x \in attemptsOf(k) : top(x)
  <2>1. n \in attemptsOf(k) /\ top(n)
    BY <1>1, <1>3
  <2>2. last \in attemptsOf(k) /\ top(last)
    BY <2>1
  <2>3. last = n
    BY <1>1, <2>1, <2>2
  <2>4. nextAttempt(k) = 1 + last
    BY <2>1 DEF nextAttempt
  <2> QED
    <3>1. nextAttempt(k) = 1 + n
      BY <2>3, <2>4
    <3>2. (1 + n) - 1 = n
      OBVIOUS
    <3> QED
      BY <1>1, <3>1, <3>2
<1> QED
  BY <1>2, <1>3

\* The incident engine returns rows and actions of the right type.
LEMMA ApplyType ==
  ASSUME NEW record \in IncidentRecord, NEW c \in Candidates, NEW at \in Nat
  PROVE  /\ Apply(record, c, at).record \in IncidentRecord
         /\ Apply(record, c, at).action \in Action
<1>1. /\ c.severity \in Severity
      /\ at \in Time
      /\ NoTime \in Time
  <2>1. c = Clear \/ \E s \in ActiveSeverity : c = Raise(s)
    BY DEF Candidates
  <2>2. c.severity \in Severity
    BY <2>1 DEF Raise, Clear, Severity
  <2> QED
    BY <2>2 DEF Time, NoTime
<1>2. /\ open(c, at).record \in IncidentRecord
      /\ open(c, at).action \in Action
  BY <1>1 DEF open, Outcome, IncidentRecord, Status, Action
<1>3. /\ updateActive(record, c, at).record \in IncidentRecord
      /\ updateActive(record, c, at).action \in Action
  BY <1>1 DEF updateActive, Outcome, IncidentRecord, Status, Action
<1>4. /\ resolve(record, at).record \in IncidentRecord
      /\ resolve(record, at).action \in Action
  BY <1>1 DEF resolve, Outcome, IncidentRecord, Status, Severity, Action
<1>5. /\ Outcome(record, "none").record \in IncidentRecord
      /\ Outcome(record, "none").action \in Action
  BY DEF Outcome, Action
<1> QED
  BY <1>2, <1>3, <1>4, <1>5 DEF Apply

\* The initial value of a process has the type of a process.
LEMMA IdleType ==
  /\ IdleProcess \in ProcessRecord
  /\ [IdleProcess EXCEPT !.pc = "evaluate"] \in ProcessRecord
  /\ [IdleProcess EXCEPT !.pc = "crashed"] \in ProcessRecord
<1> DEFINE any == CHOOSE i \in Incident : TRUE
<1>1. any \in Incident
  BY DeliveryAssumption
<1>2. NoIncident \in IncidentRecord
  BY DEF NoIncident, IncidentRecord, Status, Severity, Time, NoTime
<1>3. <<>> \in Seq(Transition)
  OBVIOUS
<1>4. IdleProcess = [pc |-> "idle", ctx |-> TRUE, queue |-> <<>>,
                     incident |-> any, snapshot |-> NoIncident,
                     event |-> "opened", next |-> 1, attempt |-> 0,
                     success |-> FALSE, at |-> 0]
  BY DEF IdleProcess
<1> HIDE DEF any
<1>5. /\ {"idle", "evaluate", "crashed"} \subseteq PC
      /\ "opened" \in Event
      /\ 1 \in Nat \ {0}
  BY DEF PC, Event
<1>6. IdleProcess \in ProcessRecord
  BY <1>1, <1>2, <1>3, <1>4, <1>5 DEF ProcessRecord
<1> QED
  BY <1>5, <1>6 DEF ProcessRecord

\* Inside the loop the delivery key is a key.
LEMMA KeyType ==
  ASSUME TypeOK, NEW p \in Process, proc[p].next <= Len(Receivers)
  PROVE  keyOf(p) \in Key
<1>1. receiverOf(p) \in Receiver
  BY DeliveryAssumption DEF TypeOK, ProcessRecord, receiverOf
<1>2. receiverOf(p).id \in STRING
  BY <1>1 DEF Receiver
<1>3. proc[p].snapshot \in IncidentRecord
  BY DEF TypeOK, ProcessRecord
<1>4. transitionTime(proc[p].snapshot) \in Time
  BY <1>3 DEF transitionTime, IncidentRecord
<1> QED
  BY <1>2, <1>3, <1>4 DEF keyOf, deliveryKey, Key, TypeOK, ProcessRecord,
     IncidentRecord

\* A step that replaces the record of one process by a well-typed one, with a
\* legal place in the loop.
LEMMA ProcStep ==
  ASSUME TypeOK, InLoop, NEW p \in Process, NEW r \in ProcessRecord,
         proc' = [proc EXCEPT ![p] = r],
         r.pc \in {"send", "record"} => r.next <= Len(Receivers)
  PROVE  proc' \in [Process -> ProcessRecord] /\ InLoop'
BY DEF TypeOK, InLoop

\* Every step keeps the types and the place in the loop.
LEMMA TypeNext ==
  ASSUME TypeOK, InLoop, Numbered, [Next]_vars
  PROVE  TypeOK' /\ InLoop'
<1> USE DEF Become
<1>1. CASE UNCHANGED vars
  BY <1>1 DEF vars, TypeOK, InLoop
<1>2. ASSUME NEW p \in Process, BeginCycle(p)
      PROVE  TypeOK' /\ InLoop'
  <2>1. proc' \in [Process -> ProcessRecord] /\ InLoop'
    <3>1. [IdleProcess EXCEPT !.pc = "evaluate"].pc = "evaluate"
      BY DEF IdleProcess
    <3> QED
      BY <1>2, <3>1, ProcStep, IdleType DEF BeginCycle
  <2> QED
    BY <1>2, <2>1 DEF BeginCycle, TypeOK
<1>3. ASSUME NEW p \in Process, NEW i \in Incident, NEW c \in Candidates,
             ApplyCandidate(p, i, c)
      PROVE  TypeOK' /\ InLoop'
  <2> DEFINE out == Apply(incidents[i], c, now + 1)
             r == [proc[p] EXCEPT !.queue =
                     IF out.action = "none" THEN @
                     ELSE Append(@, [incident |-> i, action |-> out.action])]
  <2>1. /\ out.record \in IncidentRecord
        /\ out.action \in Action
    BY ApplyType DEF TypeOK
  <2>2. incidents' = [incidents EXCEPT ![i] = out.record]
    BY <1>3 DEF ApplyCandidate
  <2>3. proc' = [proc EXCEPT ![p] = r]
    BY <1>3 DEF ApplyCandidate
  <2>4. proc[p] \in ProcessRecord /\ proc[p].pc = "evaluate"
    BY <1>3 DEF TypeOK, ApplyCandidate
  <2> HIDE DEF out
  <2>5. proc[p].queue \in Seq(Transition)
    BY <2>4 DEF ProcessRecord
  <2>6. ASSUME out.action # "none"
        PROVE  Append(proc[p].queue, [incident |-> i, action |-> out.action])
                 \in Seq(Transition)
    BY <2>1, <2>5, <2>6 DEF Transition
  <2>7. r \in ProcessRecord /\ r.pc = "evaluate"
    BY <2>4, <2>5, <2>6 DEF ProcessRecord
  <2> HIDE DEF r
  <2>8. proc' \in [Process -> ProcessRecord] /\ InLoop'
    BY <2>3, <2>7, ProcStep
  <2> QED
    BY <1>3, <2>1, <2>2, <2>8 DEF ApplyCandidate, TypeOK
<1>4. ASSUME NEW p \in Process, EndEvaluate(p)
      PROVE  TypeOK' /\ InLoop'
  <2>1. [proc[p] EXCEPT !.pc = "deliver"] \in ProcessRecord
    BY DEF TypeOK, ProcessRecord, PC
  <2>2. proc' \in [Process -> ProcessRecord] /\ InLoop'
    BY <1>4, <2>1, ProcStep DEF EndEvaluate, TypeOK, ProcessRecord
  <2> QED
    BY <1>4, <2>2 DEF EndEvaluate, TypeOK
<1>5. ASSUME NEW q \in ProcessRecord, NEW p \in Process, NEW i \in Incident,
             NEW record \in IncidentRecord, NEW event \in Event
      PROVE  /\ enter(q, p, i, record, event) \in ProcessRecord
             /\ enter(q, p, i, record, event).pc \in {"receivers", "deliver"}
  <2> DEFINE place == IF Enabled \/ p \in DryRun THEN "receivers" ELSE "deliver"
  <2>1. place \in {"receivers", "deliver"} /\ place \in PC
    BY DEF PC
  <2>2. enter(q, p, i, record, event) =
          [q EXCEPT !.pc = place, !.incident = i, !.snapshot = record,
                    !.event = event, !.next = 1]
    BY DEF enter
  <2> HIDE DEF place
  <2>3. 1 \in Nat \ {0}
    OBVIOUS
  <2> QED
    BY <2>1, <2>2, <2>3 DEF ProcessRecord
<1>6. ASSUME NEW p \in Process, NextTransition(p)
      PROVE  TypeOK' /\ InLoop'
  <2> DEFINE t == Head(proc[p].queue)
             rest == [proc[p] EXCEPT !.queue = Tail(@)]
  <2>1. proc[p] \in ProcessRecord /\ proc[p].pc = "deliver"
    BY <1>6 DEF TypeOK, NextTransition
  <2>2. proc' \in [Process -> ProcessRecord] /\ InLoop'
    <3>1. CASE proc[p].queue = <<>>
      BY <1>6, <3>1, ProcStep, IdleType DEF NextTransition, IdleProcess
    <3>2. CASE proc[p].queue # <<>>
      <4>1. /\ t \in Transition
            /\ Tail(proc[p].queue) \in Seq(Transition)
        BY <2>1, <3>2, HeadTailProperties DEF ProcessRecord
      <4>2. rest \in ProcessRecord /\ rest.pc = "deliver"
        BY <2>1, <4>1 DEF ProcessRecord
      <4>3. CASE t.action = "updated"
        BY <1>6, <3>2, <4>2, <4>3, ProcStep DEF NextTransition
      <4>4. CASE t.action # "updated"
        <5>1. EventFromTransition(t.action) \in Event
          BY <4>1, <4>4 DEF EventFromTransition, Transition, Action, Event
        <5>2. t.incident \in Incident /\ incidents[t.incident] \in IncidentRecord
          BY <4>1 DEF Transition, TypeOK
        <5> DEFINE r == enter(rest, p, t.incident, incidents[t.incident],
                              EventFromTransition(t.action))
        <5>3. r \in ProcessRecord /\ r.pc \in {"receivers", "deliver"}
          BY <1>5, <4>2, <5>1, <5>2
        <5>4. proc' = [proc EXCEPT ![p] = r]
          BY <1>6, <3>2, <4>4 DEF NextTransition
        <5> HIDE DEF r
        <5> QED
          BY <5>3, <5>4, ProcStep
      <4> QED
        BY <4>3, <4>4
    <3> QED
      BY <3>1, <3>2
  <2> QED
    BY <1>6, <2>2 DEF NextTransition, TypeOK
<1>7. ASSUME NEW p \in Process, NEW i \in Incident, SendCommand(p, i)
      PROVE  TypeOK' /\ InLoop'
  <2> DEFINE r == enter(IdleProcess, p, i, incidents[i],
                        EventFromIncident(incidents[i]))
  <2>1. EventFromIncident(incidents[i]) \in Event
    BY DEF EventFromIncident, Event
  <2>2. r \in ProcessRecord /\ r.pc \in {"receivers", "deliver"}
    BY <1>5, <2>1, IdleType DEF TypeOK
  <2>3. proc' = [proc EXCEPT ![p] = r]
    BY <1>7 DEF SendCommand
  <2> HIDE DEF r
  <2>4. proc' \in [Process -> ProcessRecord] /\ InLoop'
    BY <2>2, <2>3, ProcStep
  <2> QED
    BY <1>7, <2>4 DEF SendCommand, TypeOK
<1>8. ASSUME NEW p \in Process, NextReceiver(p)
      PROVE  TypeOK' /\ InLoop'
  <2>1. proc[p] \in ProcessRecord /\ proc[p].pc = "receivers"
    BY <1>8 DEF TypeOK, NextReceiver
  <2>2. proc' \in [Process -> ProcessRecord] /\ InLoop'
    <3>1. CASE proc[p].next > Len(Receivers)
      <4>1. [proc[p] EXCEPT !.pc = "deliver"] \in ProcessRecord
        BY <2>1 DEF ProcessRecord, PC
      <4> QED
        BY <1>8, <2>1, <3>1, <4>1, ProcStep DEF NextReceiver, ProcessRecord
    <3>2. CASE ~(proc[p].next > Len(Receivers))
      <4>1. proc[p].next <= Len(Receivers)
        BY <2>1, <3>2, LenProperties, DeliveryAssumption DEF ProcessRecord
      <4>2. nextAttempt(keyOf(p)) \in Nat
        BY <4>1, KeyType, NextAttempt
      <4>3. [proc[p] EXCEPT !.next = @ + 1] \in ProcessRecord
        BY <2>1 DEF ProcessRecord
      <4>4. [proc[p] EXCEPT !.pc = "send", !.attempt = nextAttempt(keyOf(p))]
              \in ProcessRecord
        BY <2>1, <4>2 DEF ProcessRecord, PC
      <4>5. CASE skips(p) \/ wasDelivered(keyOf(p))
        BY <1>8, <2>1, <3>2, <4>3, <4>5, ProcStep
        DEF NextReceiver, ProcessRecord
      <4>6. CASE ~(skips(p) \/ wasDelivered(keyOf(p)))
        <5>1. proc' = [proc EXCEPT ![p] =
                         [proc[p] EXCEPT !.pc = "send",
                                         !.attempt = nextAttempt(keyOf(p))]]
          BY <1>8, <3>2, <4>6 DEF NextReceiver
        <5> QED
          BY <2>1, <4>1, <4>4, <5>1, ProcStep DEF ProcessRecord
      <4> QED
        BY <4>5, <4>6
    <3> QED
      BY <3>1, <3>2
  <2> QED
    BY <1>8, <2>2 DEF NextReceiver, TypeOK
<1>9. ASSUME NEW p \in Process, Deliver(p)
      PROVE  TypeOK' /\ InLoop'
  <2>1. /\ proc[p] \in ProcessRecord
        /\ proc[p].pc = "send"
        /\ proc[p].next <= Len(Receivers)
    BY <1>9 DEF TypeOK, InLoop, Deliver
  <2>2. PICK success \in BOOLEAN :
          /\ proc' = [proc EXCEPT ![p] =
                        [proc[p] EXCEPT !.pc = "record", !.success = success,
                                        !.at = now]]
          /\ accepted' = IF success THEN accepted \cup {keyOf(p)} ELSE accepted
    BY <1>9 DEF Deliver
  <2>3. [proc[p] EXCEPT !.pc = "record", !.success = success, !.at = now]
          \in ProcessRecord
    <3>1. now \in Nat /\ "record" \in PC
      BY DEF TypeOK, PC
    <3> QED
      BY <2>1, <2>2, <3>1 DEF ProcessRecord
  <2>4. proc' \in [Process -> ProcessRecord] /\ InLoop'
    BY <2>1, <2>2, <2>3, ProcStep DEF ProcessRecord
  <2>5. accepted' \subseteq Key
    BY <2>1, <2>2, KeyType DEF TypeOK
  <2> QED
    BY <1>9, <2>4, <2>5 DEF Deliver, TypeOK
<1>10. ASSUME NEW p \in Process, Record(p)
       PROVE  TypeOK' /\ InLoop'
  <2>1. /\ proc[p] \in ProcessRecord
        /\ proc[p].pc = "record"
        /\ proc[p].next <= Len(Receivers)
    BY <1>10 DEF TypeOK, InLoop, Record
  <2>2. keyOf(p) \in Key
    BY <2>1, KeyType
  <2>3. NewRow(keyOf(p), proc[p].attempt, proc[p].success, proc[p].at) \in Row
    BY <2>1, <2>2 DEF NewRow, Row, ProcessRecord
  <2>4. rows' \subseteq Row
    BY <1>10, <2>3 DEF Record, TypeOK
  <2>5. alerted' \in [Incident -> Time]
    BY <1>10, <2>1 DEF Record, TypeOK, ProcessRecord, Time
  <2>6. [proc[p] EXCEPT !.pc = "receivers", !.next = @ + 1] \in ProcessRecord
    <3>1. proc[p].next + 1 \in Nat \ {0} /\ "receivers" \in PC
      BY <2>1 DEF ProcessRecord, PC
    <3> QED
      BY <2>1, <3>1 DEF ProcessRecord
  <2>7. proc' = [proc EXCEPT ![p] =
                   [proc[p] EXCEPT !.pc = "receivers", !.next = @ + 1]]
    BY <1>10 DEF Record
  <2>8. proc' \in [Process -> ProcessRecord] /\ InLoop'
    BY <2>1, <2>6, <2>7, ProcStep DEF ProcessRecord
  <2> QED
    BY <1>10, <2>4, <2>5, <2>8 DEF Record, TypeOK
<1>11. ASSUME NEW p \in Process, Fail(p) \/ Restart(p)
       PROVE  TypeOK' /\ InLoop'
  <2>1. proc' \in [Process -> ProcessRecord] /\ InLoop'
    BY <1>11, ProcStep, IdleType DEF Fail, Restart, IdleProcess
  <2> QED
    BY <1>11, <2>1 DEF Fail, Restart, TypeOK
<1>12. ASSUME NEW p \in Process, ContextDone(p)
       PROVE  TypeOK' /\ InLoop'
  <2>1. proc[p] \in ProcessRecord
    BY DEF TypeOK
  <2>2. [proc[p] EXCEPT !.ctx = FALSE] \in ProcessRecord
    BY <2>1 DEF ProcessRecord
  <2>3. proc' \in [Process -> ProcessRecord] /\ InLoop'
    BY <1>12, <2>1, <2>2, ProcStep DEF ContextDone, ProcessRecord, InLoop
  <2> QED
    BY <1>12, <2>3 DEF ContextDone, TypeOK
<1>13. ASSUME NEW p \in Process, Crash(p)
       PROVE  TypeOK' /\ InLoop'
  <2>1. [IdleProcess EXCEPT !.pc = "crashed"].pc = "crashed"
    BY DEF IdleProcess
  <2>2. proc' \in [Process -> ProcessRecord] /\ InLoop'
    BY <1>13, <2>1, ProcStep, IdleType DEF Crash
  <2> QED
    BY <1>13, <2>2 DEF Crash, TypeOK
<1> QED
  BY <1>1, <1>2, <1>3, <1>4, <1>6, <1>7, <1>8, <1>9, <1>10, <1>11, <1>12, <1>13
  DEF Next, DeliveryStep

\* The inductive invariant of the ledger of attempts.
Ledger == Numbered /\ AttemptsAccounted /\ AttemptFollowsFailures

Busy == {"send", "record"}

\* A step that leaves the rows alone and starts no attempt keeps the ledger.
LEMMA LedgerQuiet ==
  ASSUME Ledger, UNCHANGED rows,
         \A q \in Process :
           proc'[q].pc \in Busy =>
             /\ proc[q].pc \in Busy
             /\ proc'[q].attempt = proc[q].attempt
             /\ keyOf(q)' = keyOf(q)
  PROVE  Ledger'
<1>1. \A k : rowsOf(k)' = rowsOf(k) /\ attemptsOf(k)' = attemptsOf(k)
  BY DEF rowsOf, attemptsOf
<1>2. Numbered'
  BY <1>1 DEF Ledger, Numbered
<1>3. AttemptsAccounted'
  BY <1>1 DEF Ledger, AttemptsAccounted
<1>4. AttemptFollowsFailures'
  <2> SUFFICES ASSUME NEW q \in Process, proc'[q].pc \in Busy
               PROVE  /\ proc'[q].attempt >= 1
                      /\ \A n \in 1..(proc'[q].attempt - 1) :
                           \E r \in rowsOf(keyOf(q))' :
                             r.attempt = n /\ r.status = "failed"
    BY DEF AttemptFollowsFailures, Busy
  <2>1. /\ proc[q].pc \in Busy
        /\ proc'[q].attempt = proc[q].attempt
        /\ keyOf(q)' = keyOf(q)
    OBVIOUS
  <2>2. rowsOf(keyOf(q))' = rowsOf(keyOf(q))
    BY <2>1 DEF rowsOf
  <2>3. /\ proc[q].attempt >= 1
        /\ \A n \in 1..(proc[q].attempt - 1) :
             \E r \in rowsOf(keyOf(q)) : r.attempt = n /\ r.status = "failed"
    BY <2>1 DEF Ledger, AttemptFollowsFailures, Busy
  <2> QED
    BY <2>1, <2>2, <2>3
<1> QED
  BY <1>2, <1>3, <1>4 DEF Ledger

\* The same for a step of one process, by its new record.
LEMMA LedgerQuietProc ==
  ASSUME TypeOK, Ledger, UNCHANGED rows, NEW p \in Process, NEW r,
         proc' = [proc EXCEPT ![p] = r],
         r.pc \in Busy =>
           /\ proc[p].pc \in Busy
           /\ r.attempt = proc[p].attempt
           /\ r.incident = proc[p].incident
           /\ r.snapshot = proc[p].snapshot
           /\ r.event = proc[p].event
           /\ r.next = proc[p].next
  PROVE  Ledger'
<1>1. proc'[p] = r /\ \A q \in Process : q # p => proc'[q] = proc[q]
  BY DEF TypeOK
<1>2. ASSUME NEW q \in Process, proc'[q].pc \in Busy
      PROVE  /\ proc[q].pc \in Busy
             /\ proc'[q].attempt = proc[q].attempt
             /\ keyOf(q)' = keyOf(q)
  BY <1>1, <1>2 DEF keyOf, receiverOf
<1> QED
  BY <1>2, LedgerQuiet

\* Choosing the number of a new attempt keeps the ledger: all recorded attempts
\* of the key failed, and there are as many as the number says.
LEMMA LedgerNextReceiver ==
  ASSUME TypeOK, Ledger, NEW p \in Process, NextReceiver(p)
  PROVE  Ledger'
<1>1. /\ UNCHANGED rows
      /\ proc[p] \in ProcessRecord
      /\ proc[p].pc = "receivers"
  BY DEF NextReceiver, TypeOK
<1>2. CASE proc[p].next > Len(Receivers)
  <2>1. proc' = [proc EXCEPT ![p] = [proc[p] EXCEPT !.pc = "deliver"]]
    BY <1>2 DEF NextReceiver
  <2>2. [proc[p] EXCEPT !.pc = "deliver"].pc = "deliver"
    BY <1>1 DEF ProcessRecord
  <2> QED
    BY <1>1, <2>1, <2>2, LedgerQuietProc DEF Busy
<1>3. CASE ~(proc[p].next > Len(Receivers)) /\ (skips(p) \/ wasDelivered(keyOf(p)))
  <2>1. proc' = [proc EXCEPT ![p] = [proc[p] EXCEPT !.next = @ + 1]]
    BY <1>3 DEF NextReceiver
  <2>2. [proc[p] EXCEPT !.next = @ + 1].pc = "receivers"
    BY <1>1 DEF ProcessRecord
  <2> QED
    BY <1>1, <2>1, <2>2, LedgerQuietProc DEF Busy
<1>4. CASE ~(proc[p].next > Len(Receivers)) /\ ~(skips(p) \/ wasDelivered(keyOf(p)))
  <2> DEFINE k == keyOf(p)
             a == nextAttempt(k)
             new == [proc[p] EXCEPT !.pc = "send", !.attempt = a]
  <2>1. proc' = [proc EXCEPT ![p] = new]
    BY <1>4 DEF NextReceiver
  <2>2. proc[p].next <= Len(Receivers)
    BY <1>1, <1>4, LenProperties, DeliveryAssumption DEF ProcessRecord
  <2>3. k \in Key
    BY <2>2, KeyType
  <2>4. /\ a \in Nat \ {0}
        /\ attemptsOf(k) = 1..(a - 1)
    BY <2>3, NextAttempt DEF Ledger
  <2>5. /\ proc'[p] = new
        /\ \A q \in Process : q # p => proc'[q] = proc[q]
    BY <2>1 DEF TypeOK
  <2>6. /\ new.pc = "send"
        /\ new.attempt = a
        /\ new.incident = proc[p].incident
        /\ new.snapshot = proc[p].snapshot
        /\ new.event = proc[p].event
        /\ new.next = proc[p].next
    BY <1>1 DEF ProcessRecord
  <2>7. keyOf(p)' = k
    BY <2>5, <2>6 DEF keyOf, receiverOf
  <2> HIDE DEF new, a
  <2>8. \A x : rowsOf(x)' = rowsOf(x) /\ attemptsOf(x)' = attemptsOf(x)
    BY <1>1 DEF rowsOf, attemptsOf
  <2>9. Numbered' /\ AttemptsAccounted'
    BY <1>1, <2>8 DEF Ledger, Numbered, AttemptsAccounted
  <2>10. AttemptFollowsFailures'
    <3> SUFFICES ASSUME NEW q \in Process, proc'[q].pc \in Busy
                 PROVE  /\ proc'[q].attempt >= 1
                        /\ \A n \in 1..(proc'[q].attempt - 1) :
                             \E r \in rowsOf(keyOf(q))' :
                               r.attempt = n /\ r.status = "failed"
      BY DEF AttemptFollowsFailures, Busy
    <3>1. CASE q = p
      <4>1. rowsOf(keyOf(q))' = rowsOf(k)
        BY <1>1, <2>7, <3>1 DEF rowsOf
      <4>2. proc'[q].attempt = a
        BY <2>5, <2>6, <3>1
      <4>3. ASSUME NEW n \in 1..(a - 1)
            PROVE  \E r \in rowsOf(k) : r.attempt = n /\ r.status = "failed"
        <5>1. PICK r \in rowsOf(k) : r.attempt = n
          BY <2>4 DEF attemptsOf
        <5>2. r.status # "delivered"
          BY <1>4 DEF wasDelivered
        <5>3. r \in Row
          BY DEF rowsOf, TypeOK
        <5> QED
          BY <5>1, <5>2, <5>3 DEF Row
      <4> QED
        BY <2>4, <4>1, <4>2, <4>3
    <3>2. CASE q # p
      <4>1. proc'[q] = proc[q] /\ keyOf(q)' = keyOf(q)
        BY <2>5, <3>2 DEF keyOf, receiverOf
      <4>2. rowsOf(keyOf(q))' = rowsOf(keyOf(q))
        BY <1>1, <4>1 DEF rowsOf
      <4>3. /\ proc[q].attempt >= 1
            /\ \A n \in 1..(proc[q].attempt - 1) :
                 \E r \in rowsOf(keyOf(q)) : r.attempt = n /\ r.status = "failed"
        BY <4>1 DEF Ledger, AttemptFollowsFailures, Busy
      <4> QED
        BY <4>1, <4>2, <4>3
    <3> QED
      BY <3>1, <3>2
  <2> QED
    BY <2>9, <2>10 DEF Ledger
<1> QED
  BY <1>2, <1>3, <1>4

\* Recording an attempt keeps the ledger: its number is the next one, whatever
\* was recorded since it was chosen, and no delivery precedes it.
LEMMA LedgerRecord ==
  ASSUME TypeOK, InLoop, Ledger, NEW p \in Process, Record(p)
  PROVE  Ledger'
<1> DEFINE a == proc[p].attempt
           new == NewRow(keyOf(p), a, proc[p].success, proc[p].at)
           r0 == [proc[p] EXCEPT !.pc = "receivers", !.next = @ + 1]
<1>1. /\ proc[p] \in ProcessRecord
      /\ proc[p].pc = "record"
      /\ proc[p].next <= Len(Receivers)
      /\ a \in Nat
  BY DEF TypeOK, InLoop, Record, ProcessRecord
<1>2. PICK k \in Key : k = keyOf(p)
  BY <1>1, KeyType
<1>3. /\ rows' = rows \cup {new}
      /\ a \notin attemptsOf(k)
      /\ proc' = [proc EXCEPT ![p] = r0]
  BY <1>2 DEF Record
<1>4. /\ new.key = k
      /\ new.attempt = a
  BY <1>2 DEF NewRow
<1>5. /\ a >= 1
      /\ \A n \in 1..(a - 1) :
           \E r \in rowsOf(k) : r.attempt = n /\ r.status = "failed"
  BY <1>1, <1>2 DEF Ledger, AttemptFollowsFailures
<1>6. PICK n \in Nat : attemptsOf(k) = 1..n
  BY <1>2 DEF Ledger, Numbered
<1>7. a = n + 1
  <2>1. \A m \in 1..(a - 1) : m \in attemptsOf(k)
    BY <1>5 DEF attemptsOf
  <2>2. ~(a <= n)
    BY <1>1, <1>3, <1>5, <1>6
  <2>3. CASE a > n + 1
    <3>1. n + 1 \in 1..(a - 1)
      BY <1>1, <2>3
    <3> QED
      BY <1>6, <2>1, <3>1
  <2> QED
    BY <1>1, <2>2, <2>3
<1>8. /\ r0.pc = "receivers"
      /\ proc'[p] = r0
      /\ \A q \in Process : q # p => proc'[q] = proc[q]
  BY <1>1, <1>3 DEF TypeOK, ProcessRecord
<1>9. \A r \in rows : r \in Row
  BY DEF TypeOK
<1> HIDE DEF a, new, r0
<1>10. \A x : rowsOf(x) \subseteq rowsOf(x)'
  BY <1>3 DEF rowsOf
<1>11. attemptsOf(k)' = 1..a
  <2>1. attemptsOf(k)' = attemptsOf(k) \cup {a}
    <3>1. rowsOf(k)' = rowsOf(k) \cup {new}
      BY <1>3, <1>4 DEF rowsOf
    <3> QED
      BY <1>4, <3>1 DEF attemptsOf
  <2> QED
    BY <1>6, <1>7, <2>1
<1>12. \A x : x # k => attemptsOf(x)' = attemptsOf(x)
  <2> SUFFICES ASSUME NEW x, x # k PROVE attemptsOf(x)' = attemptsOf(x)
    OBVIOUS
  <2>1. rowsOf(x)' = rowsOf(x)
    BY <1>3, <1>4 DEF rowsOf
  <2> QED
    BY <2>1 DEF attemptsOf
<1>13. Numbered'
  BY <1>1, <1>11, <1>12 DEF Ledger, Numbered
<1>14. AttemptsAccounted'
  <2>1. \A r \in rows : r.key = k => r.attempt \in 1..n
    BY <1>6 DEF attemptsOf, rowsOf
  <2>2. \A r \in rows : r.key = k => r.status # "delivered"
    <3> SUFFICES ASSUME NEW r \in rows, r.key = k PROVE r.status # "delivered"
      OBVIOUS
    <3>1. r.attempt \in 1..(a - 1)
      BY <1>7, <2>1
    <3>2. PICK t \in rowsOf(k) : t.attempt = r.attempt /\ t.status = "failed"
      BY <1>5, <3>1
    <3>3. t \in rows /\ t.key = k
      BY <3>2 DEF rowsOf
    <3>4. t = r
      BY <3>2, <3>3 DEF Ledger, AttemptsAccounted
    <3> QED
      BY <3>2, <3>4
  <2>3. \A r, s \in rows' : r.key = s.key /\ r.attempt = s.attempt => r = s
    BY <1>3, <1>4, <1>7, <2>1 DEF Ledger, AttemptsAccounted
  <2>4. \A r \in rows' : \A m \in 1..r.attempt : m \in attemptsOf(r.key)'
    <3> SUFFICES ASSUME NEW r \in rows', NEW m \in 1..r.attempt
                 PROVE  m \in attemptsOf(r.key)'
      OBVIOUS
    <3>1. CASE r = new
      BY <1>4, <1>11, <3>1
    <3>2. CASE r # new
      <4>1. r \in rows /\ m \in attemptsOf(r.key)
        BY <1>3, <3>2 DEF Ledger, AttemptsAccounted
      <4>2. PICK t \in rowsOf(r.key) : t.attempt = m
        BY <4>1 DEF attemptsOf
      <4>3. t \in rowsOf(r.key)'
        BY <1>3, <4>2 DEF rowsOf
      <4> QED
        BY <4>2, <4>3 DEF attemptsOf
    <3> QED
      BY <3>1, <3>2
  <2>5. \A r, s \in rows' :
          r.key = s.key /\ r.status = "delivered" => s.attempt <= r.attempt
    BY <1>1, <1>3, <1>4, <1>7, <2>1, <2>2 DEF Ledger, AttemptsAccounted
  <2> QED
    BY <2>3, <2>4, <2>5 DEF AttemptsAccounted
<1>15. AttemptFollowsFailures'
  <2> SUFFICES ASSUME NEW q \in Process, proc'[q].pc \in Busy
               PROVE  /\ proc'[q].attempt >= 1
                      /\ \A m \in 1..(proc'[q].attempt - 1) :
                           \E r \in rowsOf(keyOf(q))' :
                             r.attempt = m /\ r.status = "failed"
    BY DEF AttemptFollowsFailures, Busy
  <2>1. q # p
    BY <1>8 DEF Busy
  <2>2. proc'[q] = proc[q] /\ keyOf(q)' = keyOf(q)
    BY <1>8, <2>1 DEF keyOf, receiverOf
  <2>3. rowsOf(keyOf(q)) \subseteq rowsOf(keyOf(q))'
    BY <1>3, <2>2 DEF rowsOf
  <2>4. /\ proc[q].attempt >= 1
        /\ \A m \in 1..(proc[q].attempt - 1) :
             \E r \in rowsOf(keyOf(q)) : r.attempt = m /\ r.status = "failed"
    BY <2>2 DEF Ledger, AttemptFollowsFailures, Busy
  <2> QED
    BY <2>2, <2>3, <2>4
<1> QED
  BY <1>13, <1>14, <1>15 DEF Ledger

\* Every step keeps the ledger.
LEMMA LedgerNext ==
  ASSUME TypeOK, InLoop, Ledger, [Next]_vars
  PROVE  Ledger'
<1> USE DEF Become
<1>1. CASE UNCHANGED vars
  <2>1. UNCHANGED rows /\ proc' = proc
    BY <1>1 DEF vars
  <2>2. \A q \in Process : keyOf(q)' = keyOf(q)
    BY <2>1 DEF keyOf, receiverOf
  <2> QED
    BY <2>1, <2>2, LedgerQuiet
<1>2. ASSUME NEW p \in Process, NEW r,
             UNCHANGED rows, proc' = [proc EXCEPT ![p] = r], r.pc \notin Busy
      PROVE  Ledger'
  BY <1>2, LedgerQuietProc
<1>3. ASSUME NEW p \in Process, BeginCycle(p) PROVE Ledger'
  <2>1. [IdleProcess EXCEPT !.pc = "evaluate"].pc \notin Busy
    BY DEF IdleProcess, Busy
  <2> QED
    BY <1>2, <1>3, <2>1 DEF BeginCycle
<1>4. ASSUME NEW p \in Process, NEW i \in Incident, NEW c \in Candidates,
             ApplyCandidate(p, i, c)
      PROVE  Ledger'
  <2>1. PICK queue : proc' = [proc EXCEPT ![p] = [proc[p] EXCEPT !.queue = queue]]
    BY <1>4 DEF ApplyCandidate
  <2>2. [proc[p] EXCEPT !.queue = queue].pc \notin Busy
    BY <1>4 DEF ApplyCandidate, TypeOK, ProcessRecord, Busy
  <2> QED
    BY <1>2, <1>4, <2>1, <2>2 DEF ApplyCandidate
<1>5. ASSUME NEW p \in Process, EndEvaluate(p) PROVE Ledger'
  <2>1. [proc[p] EXCEPT !.pc = "deliver"].pc \notin Busy
    BY DEF TypeOK, ProcessRecord, Busy
  <2> QED
    BY <1>2, <1>5, <2>1 DEF EndEvaluate
<1>6. ASSUME NEW p \in Process, NextTransition(p) PROVE Ledger'
  <2>1. UNCHANGED rows
    BY <1>6 DEF NextTransition
  <2>2. proc[p] \in ProcessRecord /\ proc[p].pc = "deliver"
    BY <1>6 DEF NextTransition, TypeOK
  <2> DEFINE t == Head(proc[p].queue)
             rest == [proc[p] EXCEPT !.queue = Tail(@)]
             entered == enter(rest, p, t.incident, incidents[t.incident],
                              EventFromTransition(t.action))
  <2>3. /\ IdleProcess.pc \notin Busy
        /\ rest.pc \notin Busy
        /\ entered.pc \notin Busy
    BY <2>2 DEF IdleProcess, ProcessRecord, Busy, enter
  <2>4. \/ proc' = [proc EXCEPT ![p] = IdleProcess]
        \/ proc' = [proc EXCEPT ![p] = rest]
        \/ proc' = [proc EXCEPT ![p] = entered]
    BY <1>6 DEF NextTransition
  <2> HIDE DEF rest, entered
  <2> QED
    BY <1>2, <2>1, <2>3, <2>4
<1>7. ASSUME NEW p \in Process, NEW i \in Incident, SendCommand(p, i)
      PROVE  Ledger'
  <2>1. enter(IdleProcess, p, i, incidents[i],
              EventFromIncident(incidents[i])).pc \notin Busy
    BY DEF enter, IdleProcess, Busy
  <2> QED
    BY <1>2, <1>7, <2>1 DEF SendCommand
<1>8. ASSUME NEW p \in Process, NextReceiver(p) PROVE Ledger'
  BY <1>8, LedgerNextReceiver
<1>9. ASSUME NEW p \in Process, Deliver(p) PROVE Ledger'
  <2>1. proc[p] \in ProcessRecord /\ proc[p].pc = "send" /\ UNCHANGED rows
    BY <1>9 DEF Deliver, TypeOK
  <2>2. PICK success :
          proc' = [proc EXCEPT ![p] =
                     [proc[p] EXCEPT !.pc = "record", !.success = success,
                                     !.at = now]]
    BY <1>9 DEF Deliver
  <2> DEFINE r == [proc[p] EXCEPT !.pc = "record", !.success = success,
                                  !.at = now]
  <2>3. /\ r.attempt = proc[p].attempt
        /\ r.incident = proc[p].incident
        /\ r.snapshot = proc[p].snapshot
        /\ r.event = proc[p].event
        /\ r.next = proc[p].next
    BY <2>1 DEF ProcessRecord
  <2>4. proc[p].pc \in Busy
    BY <2>1 DEF Busy
  <2>5. proc' = [proc EXCEPT ![p] = r]
    BY <2>2
  <2> HIDE DEF r
  <2> QED
    BY <2>1, <2>3, <2>4, <2>5, LedgerQuietProc
<1>10. ASSUME NEW p \in Process, Record(p) PROVE Ledger'
  BY <1>10, LedgerRecord
<1>11. ASSUME NEW p \in Process, Fail(p) \/ Restart(p) PROVE Ledger'
  <2>1. IdleProcess.pc \notin Busy
    BY DEF IdleProcess, Busy
  <2> QED
    BY <1>2, <1>11, <2>1 DEF Fail, Restart
<1>12. ASSUME NEW p \in Process, ContextDone(p) PROVE Ledger'
  <2> DEFINE r == [proc[p] EXCEPT !.ctx = FALSE]
  <2>1. proc[p] \in ProcessRecord /\ UNCHANGED rows
    BY <1>12 DEF ContextDone, TypeOK
  <2>2. /\ r.pc = proc[p].pc
        /\ r.attempt = proc[p].attempt
        /\ r.incident = proc[p].incident
        /\ r.snapshot = proc[p].snapshot
        /\ r.event = proc[p].event
        /\ r.next = proc[p].next
    BY <2>1 DEF ProcessRecord
  <2>3. proc' = [proc EXCEPT ![p] = r]
    BY <1>12 DEF ContextDone
  <2> HIDE DEF r
  <2> QED
    BY <2>1, <2>2, <2>3, LedgerQuietProc
<1>13. ASSUME NEW p \in Process, Crash(p) PROVE Ledger'
  <2>1. [IdleProcess EXCEPT !.pc = "crashed"].pc \notin Busy
    BY DEF IdleProcess, Busy
  <2> QED
    BY <1>2, <1>13, <2>1 DEF Crash
<1> QED
  BY <1>1, <1>3, <1>4, <1>5, <1>6, <1>7, <1>8, <1>9, <1>10, <1>11, <1>12, <1>13
  DEF Next, DeliveryStep

\* The invariant holds at the start.
LEMMA LedgerInit == Init => TypeOK /\ InLoop /\ Ledger /\ AlertedBacked
<1> SUFFICES ASSUME Init PROVE TypeOK /\ InLoop /\ Ledger /\ AlertedBacked
  OBVIOUS
<1>1. /\ NoIncident \in IncidentRecord
      /\ NoTime \in Time
  BY DEF NoIncident, IncidentRecord, Status, Severity, Time, NoTime
<1>2. \A p \in Process : proc[p] = IdleProcess /\ proc[p].pc = "idle"
  BY DEF Init, IdleProcess
<1>3. TypeOK
  BY <1>1, IdleType DEF Init, TypeOK
<1>4. InLoop /\ AttemptFollowsFailures
  BY <1>2 DEF InLoop, AttemptFollowsFailures
<1>5. \A k : rowsOf(k) = {} /\ attemptsOf(k) = {}
  BY DEF Init, rowsOf, attemptsOf
<1>6. Numbered
  <2>1. 1..0 = {}
    OBVIOUS
  <2> QED
    BY <1>5, <2>1 DEF Numbered
<1>7. AttemptsAccounted /\ AlertedBacked
  BY DEF Init, AttemptsAccounted, AlertedBacked
<1> QED
  BY <1>3, <1>4, <1>6, <1>7 DEF Ledger

\* Every step keeps last_alerted backed by a row.
LEMMA AlertedNext ==
  ASSUME TypeOK, InLoop, AlertedBacked, [Next]_vars
  PROVE  AlertedBacked'
<1>1. CASE UNCHANGED <<rows, alerted>>
  BY <1>1 DEF AlertedBacked
<1>2. ASSUME NEW p \in Process, Record(p) PROVE AlertedBacked'
  <2> DEFINE new == NewRow(keyOf(p), proc[p].attempt, proc[p].success,
                           proc[p].at)
             delivered(i) ==
               {r \in rows : r.key.incident = i /\ r.status = "delivered"}
             after(i) ==
               {r \in rows' : r.key.incident = i /\ r.status = "delivered"}
  <2>1. /\ rows' = rows \cup {new}
        /\ proc[p].incident \in Incident
    BY <1>2 DEF Record, TypeOK, ProcessRecord
  <2>2. /\ new.key.incident = proc[p].incident
        /\ new.at = proc[p].at
        /\ new.status = IF proc[p].success THEN "delivered" ELSE "failed"
    BY DEF NewRow, keyOf, deliveryKey
  <2>3. alerted' = IF proc[p].success
                   THEN [alerted EXCEPT ![proc[p].incident] = proc[p].at]
                   ELSE alerted
    BY <1>2 DEF Record
  <2> HIDE DEF new
  <2> SUFFICES ASSUME NEW i \in Incident
               PROVE  IF after(i) = {} THEN alerted'[i] = NoTime
                      ELSE alerted'[i] \in {r.at : r \in after(i)}
    BY DEF AlertedBacked
  <2>4. IF delivered(i) = {} THEN alerted[i] = NoTime
        ELSE alerted[i] \in {r.at : r \in delivered(i)}
    BY DEF AlertedBacked
  <2>5. CASE proc[p].success /\ i = proc[p].incident
    <3>1. new \in after(i)
      BY <2>1, <2>2, <2>5
    <3>2. alerted'[i] = new.at
      BY <2>1, <2>2, <2>3, <2>5 DEF TypeOK
    <3> QED
      BY <3>1, <3>2
  <2>6. CASE ~(proc[p].success /\ i = proc[p].incident)
    <3>1. after(i) = delivered(i)
      BY <2>1, <2>2, <2>6
    <3>2. alerted'[i] = alerted[i]
      BY <2>3, <2>6 DEF TypeOK
    <3> QED
      BY <2>4, <3>1, <3>2
  <2> QED
    BY <2>5, <2>6
<1> QED
  BY <1>1, <1>2
  DEF Next, DeliveryStep, vars, BeginCycle, ApplyCandidate, EndEvaluate,
      NextTransition, SendCommand, NextReceiver, Deliver, Fail, ContextDone,
      Crash, Restart

\* The whole invariant, from which the theorems below are read off.
THEOREM Inductive == Spec => [](TypeOK /\ InLoop /\ Ledger /\ AlertedBacked)
<1>1. Init => TypeOK /\ InLoop /\ Ledger /\ AlertedBacked
  BY LedgerInit
<1>2. (TypeOK /\ InLoop /\ Ledger /\ AlertedBacked) /\ [Next]_vars
        => (TypeOK /\ InLoop /\ Ledger /\ AlertedBacked)'
  BY TypeNext, LedgerNext, AlertedNext DEF Ledger
<1> QED
  BY <1>1, <1>2, PTL DEF Spec

\* The tables and processes keep their types.
THEOREM DeliveryTypeCorrect == Spec => []TypeOK
BY Inductive, PTL

\* Attempts are numbered without gaps, once each, and end with a delivery.
THEOREM AttemptsCorrect == Spec => []AttemptsAccounted
<1>1. Ledger => AttemptsAccounted
  BY DEF Ledger
<1> QED
  BY <1>1, Inductive, PTL

\* No receiver has two recorded deliveries of one lifecycle event.
THEOREM DeliveryUnique == Spec => []DeliveredOnce
<1>1. TypeOK /\ Ledger => DeliveredOnce
  <2> SUFFICES ASSUME TypeOK, Ledger, NEW r \in rows, NEW s \in rows,
                      r.key = s.key, r.status = "delivered",
                      s.status = "delivered"
               PROVE  r = s
    BY DEF DeliveredOnce
  <2>1. r.attempt <= s.attempt /\ s.attempt <= r.attempt
    BY DEF Ledger, AttemptsAccounted
  <2>2. r.attempt \in Nat /\ s.attempt \in Nat
    BY DEF TypeOK, Row
  <2>3. r.attempt = s.attempt
    BY <2>1, <2>2
  <2> QED
    BY <2>3 DEF Ledger, AttemptsAccounted
<1> QED
  BY <1>1, Inductive, PTL

\* last_alerted is the time of a recorded delivery, whenever there is one.
THEOREM AlertedCorrect == Spec => []AlertedBacked
BY Inductive, PTL

(***************************************************************************)
(* What a process has left to do (delivery.go 37-118).  DeliveryEnds needs *)
(* fairness, which stays with TLC; that no step leads back is proved: a    *)
(* round takes a transition off the queue, passes on to a later receiver,  *)
(* or takes the attempt at one receiver further.                           *)
(***************************************************************************)
Delivering == {"deliver", "receivers", "send", "record"}

\* Steps left with the receiver whose turn it is.
stepsLeft(pc) == CASE pc = "receivers" -> 3
                   [] pc = "send"      -> 2
                   [] pc = "record"    -> 1
                   [] OTHER            -> 0

\* r is what has become of process q: ended, or still delivering with less of
\* the queue, of the receivers or of an attempt before it.
ended(r) == r.pc \in {"idle", "crashed"}
nearer(q, r) ==
  /\ r.pc \in Delivering
  /\ \/ Len(r.queue) < Len(q.queue)
     \/ /\ r.queue = q.queue
        /\ \/ q.next < r.next /\ r.next <= Len(Receivers) + 1
           \/ r.next = q.next /\ stepsLeft(r.pc) < stepsLeft(q.pc)

getsOn(p) ==
  \/ proc'[p] = proc[p]
  \/ ended(proc'[p])
  \/ proc[p].ctx /\ proc'[p] = [proc[p] EXCEPT !.ctx = FALSE]
  \/ nearer(proc[p], proc'[p])

\* A delivery that moves gets nearer to its end, or loses its context, which
\* happens once: no answer, refusal or error sends a cycle or command back to a
\* transition or receiver it has left.
DeliveryGetsOn ==
  [][\A p \in Process : proc[p].pc \in Delivering => getsOn(p)]_vars

\* One step of a process that delivers, by itself.
LEMMA OwnStepGetsOn ==
  ASSUME TypeOK, InLoop, NEW p \in Process, proc[p].pc \in Delivering,
         \/ DeliveryStep(p) \/ Fail(p) \/ ContextDone(p) \/ Crash(p)
  PROVE  \/ ended(proc'[p])
         \/ proc[p].ctx /\ proc'[p] = [proc[p] EXCEPT !.ctx = FALSE]
         \/ nearer(proc[p], proc'[p])
<1> USE DEF Delivering
<1>1. proc \in [Process -> ProcessRecord] /\ proc[p] \in ProcessRecord
  BY DEF TypeOK
<1>2. /\ proc[p].queue \in Seq(Transition) /\ proc[p].next \in Nat
      /\ Len(Receivers) \in Nat
  BY <1>1, DeliveryAssumption DEF ProcessRecord
<1>3. CASE EndEvaluate(p)
  BY <1>3 DEF EndEvaluate
<1>4. CASE NextTransition(p)
  <2>1. CASE proc[p].queue = <<>>
    BY <1>1, <1>4, <2>1 DEF NextTransition, Become, IdleProcess, ended
  <2>2. CASE proc[p].queue # <<>>
    <3> DEFINE t == Head(proc[p].queue)
               rest == [proc[p] EXCEPT !.queue = Tail(@)]
    <3>1. Len(Tail(proc[p].queue)) < Len(proc[p].queue)
      BY <1>2, <2>2, HeadTailProperties
    <3>2. \/ proc'[p] = rest /\ proc[p].pc = "deliver"
          \/ proc'[p] = enter(rest, p, t.incident, incidents[t.incident],
                              EventFromTransition(t.action))
      BY <1>1, <1>4, <2>2 DEF NextTransition, Become
    <3>3. /\ proc'[p].pc \in {"deliver", "receivers"}
          /\ proc'[p].queue = Tail(proc[p].queue)
      BY <1>1, <3>2 DEF enter, ProcessRecord
    <3> QED
      BY <3>1, <3>3 DEF nearer
  <2> QED
    BY <2>1, <2>2
<1>5. CASE NextReceiver(p)
  <2>1. proc[p].pc = "receivers"
    BY <1>5 DEF NextReceiver
  <2>2. CASE proc[p].next > Len(Receivers)
    <3>1. proc'[p] = [proc[p] EXCEPT !.pc = "deliver"]
      BY <1>1, <1>5, <2>2 DEF NextReceiver
    <3>2. /\ proc'[p].pc = "deliver" /\ proc'[p].queue = proc[p].queue
          /\ proc'[p].next = proc[p].next
      BY <1>1, <3>1 DEF ProcessRecord
    <3> QED
      BY <2>1, <3>2 DEF nearer, stepsLeft
  <2>3. CASE ~(proc[p].next > Len(Receivers))
    <3>1. \/ proc'[p] = [proc[p] EXCEPT !.next = @ + 1]
          \/ proc'[p] = [proc[p] EXCEPT !.pc = "send",
                                        !.attempt = nextAttempt(keyOf(p))]
      BY <1>1, <1>5, <2>3 DEF NextReceiver
    <3>2. CASE proc'[p] = [proc[p] EXCEPT !.next = @ + 1]
      <4>1. /\ proc'[p].pc = "receivers" /\ proc'[p].queue = proc[p].queue
            /\ proc'[p].next = proc[p].next + 1
        BY <1>1, <2>1, <3>2 DEF ProcessRecord
      <4> QED
        BY <1>2, <2>3, <4>1 DEF nearer
    <3>3. CASE proc'[p] = [proc[p] EXCEPT !.pc = "send",
                                          !.attempt = nextAttempt(keyOf(p))]
      <4>1. /\ proc'[p].pc = "send" /\ proc'[p].queue = proc[p].queue
            /\ proc'[p].next = proc[p].next
        BY <1>1, <3>3 DEF ProcessRecord
      <4> QED
        BY <2>1, <4>1 DEF nearer, stepsLeft
    <3> QED
      BY <3>1, <3>2, <3>3
  <2> QED
    BY <2>2, <2>3
<1>6. CASE Deliver(p)
  <2>1. PICK success \in BOOLEAN :
          proc' = [proc EXCEPT ![p].pc = "record", ![p].success = success,
                               ![p].at = now]
    BY <1>6 DEF Deliver
  <2>2. /\ proc'[p].pc = "record" /\ proc'[p].queue = proc[p].queue
        /\ proc'[p].next = proc[p].next
    BY <1>1, <2>1 DEF ProcessRecord
  <2>3. proc[p].pc = "send"
    BY <1>6 DEF Deliver
  <2> QED
    BY <2>2, <2>3 DEF nearer, stepsLeft
<1>7. CASE Record(p)
  <2>1. /\ proc[p].pc = "record"
        /\ proc' = [proc EXCEPT ![p].pc = "receivers", ![p].next = @ + 1]
    BY <1>7 DEF Record
  <2>2. /\ proc'[p].pc = "receivers" /\ proc'[p].queue = proc[p].queue
        /\ proc'[p].next = proc[p].next + 1
    BY <1>1, <2>1 DEF ProcessRecord
  <2>3. proc[p].next <= Len(Receivers)
    BY <2>1 DEF InLoop
  <2> QED
    BY <1>2, <2>2, <2>3 DEF nearer
<1>8. CASE Fail(p) \/ Crash(p)
  BY <1>1, <1>8 DEF Fail, Crash, Become, IdleProcess, ended
<1>9. CASE ContextDone(p)
  <2>1. proc[p].ctx
    BY <1>9, Zenon DEF ContextDone
  <2>2. proc'[p] = [proc[p] EXCEPT !.ctx = FALSE]
    BY <1>1, <1>9 DEF ContextDone
  <2> QED
    BY <2>1, <2>2, Zenon
<1> QED
  BY <1>3, <1>4, <1>5, <1>6, <1>7, <1>8, <1>9 DEF DeliveryStep

\* Every step of a delivery leads on, for any queue, receivers and answers:
\* what is left of a cycle after its evaluation is bounded by its transitions
\* and receivers (delivery.go 37-118).
THEOREM DeliveriesGetOn == Spec => DeliveryGetsOn
<1>1. ASSUME TypeOK, InLoop, [Next]_vars, NEW p \in Process,
             proc[p].pc \in Delivering
      PROVE  getsOn(p)
  <2>1. proc \in [Process -> ProcessRecord]
    BY <1>1 DEF TypeOK
  <2>2. CASE UNCHANGED vars
    BY <2>2 DEF vars, getsOn
  <2>3. ASSUME NEW q \in Process,
               \/ BeginCycle(q)
               \/ \E i \in Incident : \/ \E c \in Candidates : ApplyCandidate(q, i, c)
                                      \/ SendCommand(q, i)
               \/ Restart(q)
        PROVE  getsOn(p)
    <3>1. proc[q].pc \in {"idle", "evaluate", "crashed"}
      BY <2>3 DEF BeginCycle, ApplyCandidate, SendCommand, Restart
    <3>2. q # p
      BY <1>1, <3>1 DEF Delivering
    <3>3. proc'[p] = proc[p]
      BY <2>1, <2>3, <3>2
         DEF BeginCycle, ApplyCandidate, SendCommand, Restart, Become
    <3> QED
      BY <3>3 DEF getsOn
  <2>4. ASSUME NEW q \in Process,
               DeliveryStep(q) \/ Fail(q) \/ ContextDone(q) \/ Crash(q)
        PROVE  getsOn(p)
    <3>1. CASE q = p
      BY <1>1, <2>4, <3>1, OwnStepGetsOn DEF getsOn
    <3>2. CASE q # p
      <4>1. proc'[p] = proc[p]
        BY <2>1, <2>4, <3>2
           DEF DeliveryStep, EndEvaluate, NextTransition, NextReceiver,
               Deliver, Record, Fail, ContextDone, Crash, Become
      <4> QED
        BY <4>1 DEF getsOn
    <3> QED
      BY <3>1, <3>2
  <2> QED
    BY <1>1, <2>2, <2>3, <2>4 DEF Next
<1>2. TypeOK /\ InLoop /\ [Next]_vars =>
        [\A p \in Process : proc[p].pc \in Delivering => getsOn(p)]_vars
  BY <1>1
<1> QED
  BY <1>2, Inductive, PTL DEF Spec, DeliveryGetsOn
=============================================================================
