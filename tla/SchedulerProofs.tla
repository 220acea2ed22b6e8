--------------------------- MODULE SchedulerProofs ---------------------------
(***************************************************************************)
(* Proofs about the scheduler: cycles do not overlap, no attempt and no    *)
(* failure is lost although Stop writes the status under a finishing       *)
(* cycle, the agent claims no success that is not stored, and nothing runs *)
(* once Stop has returned nil.                                             *)
(***************************************************************************)
EXTENDS Scheduler, TLAPS

(***************************************************************************)
(* The types.                                                              *)
(***************************************************************************)
\* The first status, and a goroutine outside RunOnce.
LEMMA InitialRecords == NewStatus \in StatusRecord /\ IdleThread \in ThreadRecord
<1>1. NewStatus \in StatusRecord
  BY DEF NewStatus, StatusRecord
<1> QED
  BY <1>1 DEF IdleThread, ThreadRecord, PC

\* A finished cycle leaves a status (cycleStatus, scheduler.go 355-374).
LEMMA CycleStatusType ==
  ASSUME NEW s \in StatusRecord, NEW id \in Nat, NEW err \in BOOLEAN
  PROVE  cycleStatus(s, id, err) \in StatusRecord
<1> USE DEF StatusRecord
<1>1. CASE err
  BY <1>1, s.failedCount + 1 \in Nat, s.consecutive + 1 \in Nat DEF cycleStatus
<1>2. CASE ~err
  BY <1>2 DEF cycleStatus
<1> QED
  BY <1>1, <1>2

\* Nothing has been done yet.
LEMMA InitType == Init => TypeOK
<1> SUFFICES ASSUME Init PROVE TypeOK
  OBVIOUS
<1>1. hist \in [began : Nat, failed : Nat, inARow : Nat, refused : BOOLEAN]
  BY DEF Init
<1>2. thread \in [Thread -> ThreadRecord]
  BY InitialRecords, Zenon DEF Init
<1> QED
  BY <1>1, <1>2, InitialRecords DEF Init, TypeOK

\* Entering RunOnce keeps the types of the threads and of the number of calls.
LEMMA EnterType ==
  ASSUME TypeOK, NEW t \in Thread, enterRunOnce(t)
  PROVE  thread' \in [Thread -> ThreadRecord] /\ calls' \in Nat
<1>1. calls + 1 \in Nat
  BY DEF TypeOK
<1>2. [IdleThread EXCEPT !.pc = "tryLock", !.id = calls + 1] \in ThreadRecord
  BY <1>1, InitialRecords DEF ThreadRecord, PC
<1> QED
  BY <1>1, <1>2, Zenon DEF TypeOK, enterRunOnce

\* Every step keeps the types.
LEMMA TypeStep == TypeOK /\ [Next]_vars => TypeOK'
<1> SUFFICES ASSUME TypeOK, [Next]_vars PROVE TypeOK'
  OBVIOUS
<1> USE DEF TypeOK
<1>1. ASSUME NEW t \in Thread, RunOnceStep(t) PROVE TypeOK'
  <2> USE DEF ThreadRecord, PC
  <2>1. CASE TryLock(t)
    <3>1. CASE cycleMu = "none"
      BY <2>1, <3>1 DEF TryLock, goto
    <3>2. CASE cycleMu # "none"
      <4>1. hist' \in [began : Nat, failed : Nat, inARow : Nat, refused : BOOLEAN]
        BY <2>1, <3>2 DEF TryLock
      <4>2. thread' \in [Thread -> ThreadRecord]
        BY <2>1, <3>2 DEF TryLock
      <4> QED
        BY <2>1, <3>2, <4>1, <4>2 DEF TryLock
    <3> QED
      BY <3>1, <3>2
  <2>2. CASE markAttempt(t)
    <3>1. status.cycleCount + 1 \in Nat /\ hist.began + 1 \in Nat
      BY DEF StatusRecord
    <3>2. status' \in StatusRecord
      BY <2>2, <3>1 DEF markAttempt, StatusRecord
    <3>3. hist' \in [began : Nat, failed : Nat, inARow : Nat, refused : BOOLEAN]
      BY <2>2, <3>1 DEF markAttempt
    <3> QED
      BY <2>2, <3>2, <3>3 DEF markAttempt, goto
  <2>3. CASE Collect(t)
    BY <2>3 DEF Collect, fail
  <2>4. CASE EvaluateRules(t)
    BY <2>4 DEF EvaluateRules, fail, goto
  <2>5. CASE DeliverTransitions(t)
    BY <2>5 DEF DeliverTransitions, fail, goto
  <2>6. CASE FinalCheck(t)
    BY <2>6 DEF FinalCheck, fail, goto
  <2>7. CASE copyStatus(t)
    <3>1. [[thread[t] EXCEPT !.pc = "save"] EXCEPT !.base = status] \in ThreadRecord
      OBVIOUS
    <3>2. thread' = [thread EXCEPT ![t] =
                       [[thread[t] EXCEPT !.pc = "save"] EXCEPT !.base = status]]
      BY <2>7 DEF copyStatus
    <3> QED
      BY <2>7, <3>1, <3>2 DEF copyStatus
  <2>8. CASE SaveSchedulerStatus(t)
    <3> DEFINE wanted(err) == cycleStatus(thread[t].base, thread[t].id, err)
    <3>1. \A err \in BOOLEAN : wanted(err) \in StatusRecord
      BY CycleStatusType
    <3>2. saved' \in StatusRecord
      BY <2>8, <3>1 DEF SaveSchedulerStatus
    <3> HIDE DEF wanted
    <3>3. CASE thread' = [thread EXCEPT ![t].pc = "write",
                                        ![t].next = wanted(thread[t].err)]
      BY <2>8, <3>1, <3>2, <3>3 DEF SaveSchedulerStatus
    <3>4. CASE thread' = [thread EXCEPT ![t].pc = "write", ![t].err = TRUE,
                                        ![t].next = wanted(TRUE)]
      BY <2>8, <3>1, <3>2, <3>4 DEF SaveSchedulerStatus
    <3> QED
      BY <2>8, <3>3, <3>4 DEF SaveSchedulerStatus, wanted
  <2>9. CASE writeStatus(t)
    <3>1. hist.failed + 1 \in Nat /\ hist.inARow + 1 \in Nat
      OBVIOUS
    <3>2. hist' \in [began : Nat, failed : Nat, inARow : Nat, refused : BOOLEAN]
      BY <2>9, <3>1 DEF writeStatus
    <3>3. thread[t].next \in StatusRecord
      OBVIOUS
    <3> QED
      BY <2>9, <3>2, <3>3 DEF writeStatus, goto
  <2>10. CASE ReturnFromRunOnce(t)
    <3>1. thread' \in [Thread -> ThreadRecord]
      BY <2>10, InitialRecords, Zenon DEF ReturnFromRunOnce
    <3> QED
      BY <2>10, <3>1 DEF ReturnFromRunOnce
  <2> QED
    BY <1>1, <2>1, <2>2, <2>3, <2>4, <2>5, <2>6, <2>7, <2>8, <2>9, <2>10
       DEF RunOnceStep
<1>2. ASSUME NEW t \in Thread, CallRunOnce(t) PROVE TypeOK'
  BY <1>2, EnterType DEF CallRunOnce
<1>3. CASE Start
  <2>1. "main" \in Thread
    BY DEF Thread
  <2>2. status' \in StatusRecord
    BY <1>3 DEF Start, StatusRecord
  <2> QED
    BY <1>3, <2>1, <2>2, EnterType DEF Start
<1>4. CASE LoopTick
  <2>1. "loop" \in Thread
    BY DEF Thread
  <2> QED
    BY <1>4, <2>1, EnterType DEF LoopTick
<1>5. CASE LoopExit
  BY <1>5 DEF LoopExit
<1>6. CASE ParentCanceled
  BY <1>6 DEF ParentCanceled
<1>7. CASE Stop
  BY <1>7 DEF Stop, StatusRecord
<1>8. CASE StopReturns
  BY <1>8 DEF StopReturns
<1>9. CASE UNCHANGED vars
  BY <1>9 DEF vars
<1> QED
  BY <1>1, <1>2, <1>3, <1>4, <1>5, <1>6, <1>7, <1>8, <1>9 DEF Next

\* The scheduler's state has its types, for any callers and any number of cycles
\* (scheduler.go 61-132).
THEOREM SchedulerTypes == Spec => []TypeOK
<1>1. TypeOK /\ [Next]_vars => TypeOK'
  BY TypeStep
<1> QED
  BY InitType, <1>1, PTL DEF Spec
-----------------------------------------------------------------------------
(***************************************************************************)
(* The loop goroutine, Start and Stop.                                     *)
(***************************************************************************)
\* Start is over once the loop exists; the loop is in RunOnce only when it is
\* running; Stop returns nil only when it is done.
LoopInv ==
  /\ loopState # "unborn" => thread["main"].pc = "idle"
  /\ loopState # "running" => thread["loop"].pc = "idle"
  /\ stop # "none" => canceled /\ loopState # "unborn"
  /\ stop = "ok" => loopState = "done"

\* The loop does not exist yet.
LEMMA LoopInitInv == Init => LoopInv
BY DEF Init, LoopInv, IdleThread, Thread

\* Every step keeps the order of Start, the loop and Stop.
LEMMA LoopInvStep == TypeOK /\ LoopInv /\ [Next]_vars => LoopInv'
<1> SUFFICES ASSUME TypeOK, LoopInv, [Next]_vars PROVE LoopInv'
  OBVIOUS
<1>0. /\ {"main", "loop"} \subseteq Thread
      /\ \A t \in Caller : t # "main" /\ t # "loop"
  BY SchedulerAssumption DEF SchedulerAssumption, Thread
<1>1. ASSUME NEW t \in Thread, RunOnceStep(t) PROVE LoopInv'
  <2>1. /\ \A u \in Thread : u # t => thread'[u] = thread[u]
        /\ UNCHANGED <<canceled, stop>>
        /\ thread[t].pc # "idle"
    BY <1>1 DEF TypeOK, RunOnceStep, TryLock, markAttempt, Collect,
         EvaluateRules, DeliverTransitions, FinalCheck, copyStatus,
         SaveSchedulerStatus, writeStatus, ReturnFromRunOnce, goto, fail
  <2>2. CASE ReturnFromRunOnce(t)
    <3>1. thread'[t].pc = "idle"
      BY <2>2 DEF ReturnFromRunOnce, TypeOK, IdleThread
    <3>2. loopState' = IF t = "main" \/ t = "loop" THEN "select" ELSE loopState
      BY <2>2, <1>0 DEF ReturnFromRunOnce
    <3> QED
      BY <1>0, <2>1, <3>1, <3>2 DEF LoopInv
  <2>3. CASE ~ReturnFromRunOnce(t)
    <3>1. UNCHANGED loopState
      BY <1>1, <2>3
         DEF RunOnceStep, TryLock, markAttempt, Collect, EvaluateRules,
             DeliverTransitions, FinalCheck, copyStatus, SaveSchedulerStatus,
             writeStatus
    <3> QED
      BY <1>0, <2>1, <3>1 DEF LoopInv
  <2> QED
    BY <2>2, <2>3
<1>2. ASSUME NEW t \in Thread, CallRunOnce(t) PROVE LoopInv'
  BY <1>0, <1>2 DEF CallRunOnce, enterRunOnce, LoopInv, TypeOK
<1>3. CASE Start
  BY <1>0, <1>3 DEF Start, enterRunOnce, LoopInv, TypeOK
<1>4. CASE LoopTick
  BY <1>0, <1>4 DEF LoopTick, enterRunOnce, LoopInv, TypeOK
<1>5. CASE LoopExit \/ ParentCanceled \/ Stop \/ StopReturns \/ UNCHANGED vars
  BY <1>5 DEF LoopExit, ParentCanceled, Stop, StopReturns, vars, LoopInv
<1> QED
  BY <1>1, <1>2, <1>3, <1>4, <1>5 DEF Next
-----------------------------------------------------------------------------
(***************************************************************************)
(* The cycle mutex, and the counters under it.                             *)
(***************************************************************************)
FinishPC == {"copy", "save", "write", "return"}

\* A goroutine that has been let in holds cycleMu until it returns; one that was
\* refused goes through finishCycle without it.
LetInHolds ==
  \A t \in Thread :
    /\ thread[t].pc \in StagePC \cup {"mark"} => cycleMu = t
    /\ thread[t].pc \in FinishPC /\ ~hist.refused => cycleMu = t

\* While nobody was refused, a status on its way through finishCycle is the
\* present one but for what the cycle itself changes, and but for the two flags
\* that Start and Stop may have moved meanwhile.
BaseIsCurrent ==
  ~hist.refused => \A t \in Thread :
    /\ thread[t].pc = "save" =>
         /\ thread[t].base.cycleCount = status.cycleCount
         /\ thread[t].base.failedCount = status.failedCount
         /\ thread[t].base.consecutive = status.consecutive
         /\ thread[t].base.lastSuccess = status.lastSuccess
    /\ thread[t].pc = "write" =>
         /\ thread[t].next.cycleCount = status.cycleCount
         /\ thread[t].next.failedCount =
              IF thread[t].err THEN status.failedCount + 1 ELSE status.failedCount
         /\ thread[t].next.consecutive =
              IF thread[t].err THEN status.consecutive + 1 ELSE 0
         /\ thread[t].next.lastSuccess = saved.lastSuccess

SchedulerInv ==
  TypeOK /\ LetInHolds /\ BaseIsCurrent /\ CountersExact /\ SuccessIsStored

\* A goroutine is not the value that stands for nobody.
LEMMA ThreadNotNone == \A t \in Thread : t # "none"
BY SchedulerAssumption DEF SchedulerAssumption, Thread

\* Nobody has been let in yet.
LEMMA SchedulerInitInv == Init => SchedulerInv
<1> SUFFICES ASSUME Init PROVE SchedulerInv
  OBVIOUS
<1>1. \A t \in Thread : thread[t].pc = "idle"
  BY DEF Init, IdleThread
<1>2. LetInHolds /\ BaseIsCurrent
  BY <1>1 DEF LetInHolds, BaseIsCurrent, StagePC, FinishPC
<1>3. CountersExact /\ SuccessIsStored
  BY DEF Init, CountersExact, SuccessIsStored, NewStatus
<1> QED
  BY InitType, <1>2, <1>3 DEF SchedulerInv

\* A call that enters RunOnce holds nothing yet.
LEMMA EnterStep ==
  ASSUME SchedulerInv, TypeOK', NEW t \in Thread, enterRunOnce(t),
         thread[t].pc = "idle",
         UNCHANGED <<saved, cycleMu, hist>>,
         status' = status \/ status' = [status EXCEPT !.running = TRUE]
  PROVE  SchedulerInv'
<1>1. /\ thread'[t].pc = "tryLock"
      /\ \A u \in Thread \ {t} : thread'[u] = thread[u]
  BY DEF enterRunOnce, IdleThread, SchedulerInv, TypeOK
<1>2. /\ status'.cycleCount = status.cycleCount
      /\ status'.failedCount = status.failedCount
      /\ status'.consecutive = status.consecutive
      /\ status'.lastSuccess = status.lastSuccess
  BY DEF SchedulerInv, TypeOK, StatusRecord
<1>3. LetInHolds'
  BY <1>1 DEF SchedulerInv, LetInHolds, StagePC, FinishPC
<1>4. BaseIsCurrent'
  BY <1>1, <1>2 DEF SchedulerInv, BaseIsCurrent
<1>5. CountersExact'
  BY <1>2 DEF SchedulerInv, CountersExact
<1>6. SuccessIsStored'
  BY <1>1, <1>2 DEF SchedulerInv, SuccessIsStored
<1> QED
  BY <1>3, <1>4, <1>5, <1>6 DEF SchedulerInv

\* One step of RunOnce.
LEMMA RunOnceKeeps ==
  ASSUME SchedulerInv, TypeOK', NEW t \in Thread, RunOnceStep(t)
  PROVE  SchedulerInv'
<1> USE DEF SchedulerInv
<1>0. \A u \in Thread : u # t => thread'[u] = thread[u]
  BY DEF TypeOK, RunOnceStep, TryLock, markAttempt, Collect, EvaluateRules,
         DeliverTransitions, FinalCheck, copyStatus, SaveSchedulerStatus,
         writeStatus, ReturnFromRunOnce, goto, fail
<1>1. CASE TryLock(t)
  <2>1. /\ UNCHANGED <<status, saved>>
        /\ thread[t].pc = "tryLock" /\ thread'[t].pc \in {"mark", "copy"}
        /\ thread'[t].pc = "mark" => cycleMu' = t /\ cycleMu = "none"
        /\ cycleMu' # t => UNCHANGED cycleMu
        /\ thread'[t].pc = "copy" => hist'.refused /\ UNCHANGED cycleMu
        /\ hist' = hist \/ hist'.refused
    <3>1. CASE cycleMu = "none"
      BY <1>1, <3>1 DEF TryLock, goto, TypeOK, ThreadRecord
    <3>2. CASE cycleMu # "none"
      <4>1. hist'.refused
        BY <1>1, <3>2 DEF TryLock, TypeOK
      <4> QED
        BY <1>1, <3>2, <4>1 DEF TryLock, TypeOK, ThreadRecord
    <3> QED
      BY <3>1, <3>2
  <2>2. LetInHolds'
    BY <1>0, <2>1, ThreadNotNone DEF LetInHolds, StagePC, FinishPC
  <2>3. BaseIsCurrent'
    BY <1>0, <2>1 DEF BaseIsCurrent
  <2>4. CountersExact' /\ SuccessIsStored'
    BY <1>0, <2>1 DEF CountersExact, SuccessIsStored
  <2> QED
    BY <2>2, <2>3, <2>4
<1>2. CASE markAttempt(t)
  <2>1. /\ UNCHANGED <<saved, cycleMu>> /\ cycleMu = t
        /\ thread[t].pc = "mark" /\ thread'[t].pc = "collect"
        /\ hist'.began = hist.began + 1 /\ hist'.failed = hist.failed
        /\ hist'.inARow = hist.inARow /\ hist'.refused = hist.refused
        /\ status'.cycleCount = status.cycleCount + 1
        /\ status'.failedCount = status.failedCount
        /\ status'.consecutive = status.consecutive
        /\ status'.lastSuccess = status.lastSuccess
    BY <1>2 DEF markAttempt, goto, TypeOK, StatusRecord, LetInHolds
  <2>2. LetInHolds'
    BY <1>0, <2>1 DEF LetInHolds, StagePC, FinishPC
  <2>3. BaseIsCurrent'
    BY <1>0, <2>1 DEF BaseIsCurrent, LetInHolds, FinishPC
  <2>4. CountersExact' /\ SuccessIsStored'
    BY <1>0, <2>1 DEF CountersExact, SuccessIsStored
  <2> QED
    BY <2>2, <2>3, <2>4
<1>3. CASE Collect(t) \/ EvaluateRules(t) \/ DeliverTransitions(t) \/ FinalCheck(t)
  <2>1. /\ UNCHANGED <<status, saved, cycleMu, hist>>
        /\ thread[t].pc \in StagePC /\ thread'[t].pc \in StagePC \cup {"copy"}
    <3> USE DEF goto, fail, StagePC, TypeOK, ThreadRecord
    <3>1. CASE Collect(t)
      BY <3>1 DEF Collect
    <3>2. CASE EvaluateRules(t)
      BY <3>2 DEF EvaluateRules
    <3>3. CASE DeliverTransitions(t)
      BY <3>3 DEF DeliverTransitions
    <3>4. CASE FinalCheck(t)
      BY <3>4 DEF FinalCheck
    <3> QED
      BY <1>3, <3>1, <3>2, <3>3, <3>4
  <2>2. LetInHolds'
    BY <1>0, <2>1 DEF LetInHolds, StagePC, FinishPC
  <2>3. BaseIsCurrent'
    BY <1>0, <2>1 DEF BaseIsCurrent, StagePC
  <2>4. CountersExact' /\ SuccessIsStored'
    BY <1>0, <2>1 DEF CountersExact, SuccessIsStored, StagePC
  <2> QED
    BY <2>2, <2>3, <2>4
<1>4. CASE copyStatus(t)
  <2>1. /\ UNCHANGED <<status, saved, cycleMu, hist>>
        /\ thread[t].pc = "copy" /\ thread'[t].pc = "save"
        /\ thread'[t].base = status
    BY <1>4 DEF copyStatus, TypeOK, ThreadRecord
  <2>2. LetInHolds'
    BY <1>0, <2>1 DEF LetInHolds, StagePC, FinishPC
  <2>3. BaseIsCurrent'
    BY <1>0, <2>1 DEF BaseIsCurrent
  <2>4. CountersExact' /\ SuccessIsStored'
    BY <1>0, <2>1 DEF CountersExact, SuccessIsStored
  <2> QED
    BY <2>2, <2>3, <2>4
<1>5. CASE SaveSchedulerStatus(t)
  <2> DEFINE base == thread[t].base
  <2>1. /\ UNCHANGED <<status, cycleMu, hist>>
        /\ thread[t].pc = "save" /\ thread'[t].pc = "write"
        /\ base \in StatusRecord
    <3>1. base \in StatusRecord
      BY DEF TypeOK, ThreadRecord
    <3> QED
      <4>1. PICK next, err : thread' = [thread EXCEPT ![t].pc = "write",
                                           ![t].err = err, ![t].next = next]
                             \/ thread' = [thread EXCEPT ![t].pc = "write",
                                           ![t].next = next]
        BY <1>5, Zenon DEF SaveSchedulerStatus
      <4>2. thread'[t].pc = "write"
        BY <4>1 DEF TypeOK, ThreadRecord
      <4> QED
        BY <1>5, <3>1, <4>2 DEF SaveSchedulerStatus
  <2>2. LetInHolds'
    BY <1>0, <2>1 DEF LetInHolds, StagePC, FinishPC
  <2>3. /\ thread'[t].next = cycleStatus(base, thread[t].id, thread'[t].err)
        /\ \/ saved' = thread'[t].next
           \/ saved' = saved /\ thread'[t].err
    <3> DEFINE wanted(err) == cycleStatus(base, thread[t].id, err)
    <3>1. CASE /\ saved' = wanted(thread[t].err)
               /\ thread' = [thread EXCEPT ![t].pc = "write",
                                           ![t].next = wanted(thread[t].err)]
      <4>1. /\ thread'[t].err = thread[t].err
            /\ thread'[t].next = wanted(thread[t].err)
        BY <3>1 DEF TypeOK, ThreadRecord
      <4> QED
        BY <3>1, <4>1
    <3>2. CASE /\ saved' = saved
               /\ thread' = [thread EXCEPT ![t].pc = "write", ![t].err = TRUE,
                                           ![t].next = wanted(TRUE)]
      <4>1. thread'[t].err = TRUE /\ thread'[t].next = wanted(TRUE)
        BY <3>2 DEF TypeOK, ThreadRecord
      <4> QED
        BY <3>2, <4>1
    <3> QED
      BY <1>5, <3>1, <3>2 DEF SaveSchedulerStatus
  <2>4. thread'[t].err \in BOOLEAN
    BY DEF TypeOK, ThreadRecord
  <2>5. /\ thread'[t].next.cycleCount = base.cycleCount
        /\ thread'[t].next.failedCount =
             IF thread'[t].err THEN base.failedCount + 1 ELSE base.failedCount
        /\ thread'[t].next.consecutive =
             IF thread'[t].err THEN base.consecutive + 1 ELSE 0
        /\ thread'[t].err => thread'[t].next.lastSuccess = base.lastSuccess
    BY <2>1, <2>3, <2>4 DEF cycleStatus, StatusRecord
  <2>6. ASSUME ~hist.refused
        PROVE  /\ \A u \in Thread : u # t => thread[u].pc \notin FinishPC
               /\ status.lastSuccess = saved.lastSuccess
               /\ base.lastSuccess = status.lastSuccess
    BY <2>1, <2>6 DEF LetInHolds, SuccessIsStored, BaseIsCurrent, FinishPC
  <2>7. BaseIsCurrent'
    <3> SUFFICES ASSUME ~hist.refused PROVE BaseIsCurrent'
      BY <2>1 DEF BaseIsCurrent
    <3>1. \A u \in Thread : u # t => thread'[u].pc \notin FinishPC
      BY <1>0, <2>6
    <3>2. thread'[t].next.lastSuccess = saved'.lastSuccess
      BY <2>3, <2>5, <2>6
    <3> QED
      BY <2>1, <2>5, <3>1, <3>2 DEF BaseIsCurrent, FinishPC
  <2>8. CountersExact' /\ SuccessIsStored'
    BY <2>1 DEF CountersExact, SuccessIsStored
  <2> QED
    BY <2>2, <2>7, <2>8
<1>6. CASE writeStatus(t)
  <2>1. /\ UNCHANGED <<saved, cycleMu>> /\ status' = thread[t].next
        /\ thread[t].pc = "write" /\ thread'[t].pc = "return"
        /\ hist'.began = hist.began /\ hist'.refused = hist.refused
    BY <1>6 DEF writeStatus, goto, TypeOK
  <2>2. LetInHolds'
    BY <1>0, <2>1 DEF LetInHolds, StagePC, FinishPC
  <2>3. BaseIsCurrent'
    BY <1>0, <2>1 DEF BaseIsCurrent, LetInHolds, FinishPC
  <2>4. CountersExact'
    <3>1. CASE thread[t].err
      <4>1. hist'.failed = hist.failed + 1 /\ hist'.inARow = hist.inARow + 1
        BY <1>6, <3>1 DEF writeStatus, TypeOK
      <4> QED
        BY <2>1, <3>1, <4>1 DEF CountersExact, BaseIsCurrent
    <3>2. CASE ~thread[t].err
      <4>1. hist'.failed = hist.failed /\ hist'.inARow = 0
        BY <1>6, <3>2 DEF writeStatus, TypeOK
      <4> QED
        BY <2>1, <3>2, <4>1 DEF CountersExact, BaseIsCurrent
    <3> QED
      BY <3>1, <3>2
  <2>5. SuccessIsStored'
    BY <1>0, <2>1 DEF SuccessIsStored, BaseIsCurrent
  <2> QED
    BY <2>2, <2>3, <2>4, <2>5
<1>7. CASE ReturnFromRunOnce(t)
  <2>1. /\ UNCHANGED <<status, saved, hist>>
        /\ thread[t].pc = "return" /\ thread'[t].pc = "idle"
        /\ cycleMu' = cycleMu \/ cycleMu = t
    BY <1>7 DEF ReturnFromRunOnce, TypeOK, IdleThread
  <2>2. LetInHolds'
    BY <1>0, <2>1 DEF LetInHolds, StagePC, FinishPC
  <2>3. BaseIsCurrent'
    BY <1>0, <2>1 DEF BaseIsCurrent
  <2>4. CountersExact' /\ SuccessIsStored'
    BY <1>0, <2>1 DEF CountersExact, SuccessIsStored
  <2> QED
    BY <2>2, <2>3, <2>4
<1> QED
  BY <1>1, <1>2, <1>3, <1>4, <1>5, <1>6, <1>7 DEF RunOnceStep

\* Start and Stop move the two flags under the mutex only for a moment; the loop
\* and other callers enter with nothing in hand.
LEMMA SchedulerInvStep ==
  SchedulerInv /\ LoopInv /\ [Next]_vars => SchedulerInv'
<1> SUFFICES ASSUME SchedulerInv, LoopInv, [Next]_vars PROVE SchedulerInv'
  OBVIOUS
<1> USE DEF SchedulerInv
<1>0. TypeOK'
  BY TypeStep
<1>1. ASSUME NEW t \in Thread, RunOnceStep(t) PROVE SchedulerInv'
  BY <1>0, <1>1, RunOnceKeeps
<1>2. ASSUME NEW t \in Thread, CallRunOnce(t) PROVE SchedulerInv'
  BY <1>0, <1>2, EnterStep DEF CallRunOnce
<1>3. CASE Start
  <2>1. CASE RunOnStart
    BY <1>0, <1>3, <2>1, EnterStep DEF Start, Thread
  <2>2. CASE ~RunOnStart
    <3>1. /\ status'.cycleCount = status.cycleCount
          /\ status'.failedCount = status.failedCount
          /\ status'.consecutive = status.consecutive
          /\ status'.lastSuccess = status.lastSuccess
      BY <1>3 DEF Start, TypeOK, StatusRecord
    <3> QED
      BY <1>0, <1>3, <2>2, <3>1
         DEF Start, LetInHolds, BaseIsCurrent, CountersExact, SuccessIsStored
  <2> QED
    BY <2>1, <2>2
<1>4. CASE LoopTick
  BY <1>0, <1>4, EnterStep DEF LoopTick, LoopInv, Thread
<1>5. CASE Stop
  <2>1. /\ status'.cycleCount = status.cycleCount
        /\ status'.failedCount = status.failedCount
        /\ status'.consecutive = status.consecutive
        /\ status'.lastSuccess = status.lastSuccess
    BY <1>5 DEF Stop, TypeOK, StatusRecord
  <2> QED
    BY <1>0, <1>5, <2>1
       DEF Stop, LetInHolds, BaseIsCurrent, CountersExact, SuccessIsStored
<1>6. CASE LoopExit \/ ParentCanceled \/ StopReturns \/ UNCHANGED vars
  BY <1>0, <1>6 DEF LoopExit, ParentCanceled, StopReturns, vars,
                    LetInHolds, BaseIsCurrent, CountersExact, SuccessIsStored
<1> QED
  BY <1>1, <1>2, <1>3, <1>4, <1>5, <1>6 DEF Next

\* Both together are kept.
LEMMA BothKept == Spec => [](SchedulerInv /\ LoopInv)
<1>1. Init => SchedulerInv /\ LoopInv
  BY SchedulerInitInv, LoopInitInv
<1>2. SchedulerInv /\ LoopInv /\ [Next]_vars => (SchedulerInv /\ LoopInv)'
  BY SchedulerInvStep, LoopInvStep DEF SchedulerInv
<1> QED
  BY <1>1, <1>2, PTL DEF Spec

\* Two calls of RunOnce are never both in their stages, however many callers
\* there are (scheduler.go 192-205).
THEOREM CyclesDoNotOverlap == Spec => []NoOverlap
<1>1. SchedulerInv => NoOverlap
  BY DEF SchedulerInv, LetInHolds, NoOverlap, inCycle
<1> QED
  BY <1>1, BothKept, PTL

\* No attempt and no failure is lost or counted twice although finishCycle
\* writes back a whole status that it copied before it saved it, unless a call
\* was refused (scheduler.go 324-374).
THEOREM NoCountLost == Spec => []CountersExact
<1>1. SchedulerInv => CountersExact
  BY DEF SchedulerInv
<1> QED
  BY <1>1, BothKept, PTL

\* The success the agent claims is the one the store holds, unless a call was
\* refused (scheduler.go 324-353).
THEOREM StoredSuccess == Spec => []SuccessIsStored
<1>1. SchedulerInv => SuccessIsStored
  BY DEF SchedulerInv
<1> QED
  BY <1>1, BothKept, PTL

\* After Stop has returned nil the scheduler's goroutines change nothing any
\* more (scheduler.go 168-190).
THEOREM StopIsQuiet == Spec => QuietAfterStop
<1> DEFINE quiet == stop = "ok" /\ othersIdle /\ othersIdle' =>
                      UNCHANGED <<status, saved, thread, cycleMu>>
<1>1. SchedulerInv /\ LoopInv /\ [Next]_vars => [quiet]_vars
  <2> SUFFICES ASSUME TypeOK, LoopInv, [Next]_vars, stop = "ok", othersIdle,
                      othersIdle'
               PROVE  UNCHANGED <<status, saved, thread, cycleMu>>
    BY DEF SchedulerInv
  <2>1. loopState = "done" /\ \A t \in Thread : thread[t].pc = "idle"
    BY DEF LoopInv, othersIdle, Thread
  <2>2. ASSUME NEW t \in Thread, RunOnceStep(t) PROVE FALSE
    BY <2>1, <2>2
       DEF RunOnceStep, TryLock, markAttempt, Collect, EvaluateRules,
           DeliverTransitions, FinalCheck, copyStatus, SaveSchedulerStatus,
           writeStatus, ReturnFromRunOnce
  <2>3. ASSUME NEW t \in Thread, CallRunOnce(t) PROVE FALSE
    <3>1. thread'[t].pc = "tryLock"
      BY <2>3 DEF CallRunOnce, enterRunOnce, IdleThread, TypeOK
    <3> QED
      BY <2>3, <3>1 DEF othersIdle, CallRunOnce
  <2>4. ~(Start \/ LoopTick \/ Stop)
    BY <2>1 DEF Start, LoopTick, Stop
  <2>5. CASE LoopExit \/ ParentCanceled \/ StopReturns \/ UNCHANGED vars
    BY <2>5 DEF LoopExit, ParentCanceled, StopReturns, vars
  <2> QED
    BY <2>2, <2>3, <2>4, <2>5 DEF Next
<1> QED
  BY <1>1, BothKept, PTL DEF Spec, QuietAfterStop
=============================================================================
