--------------------------- MODULE AgentRunProofs ---------------------------
(***************************************************************************)
(* Proofs about RunInfrastructure: its run is a run of the scheduler with  *)
(* whatever is proved of that, readiness is told only after the first      *)
(* cycle, nothing follows STOPPING, and the store is closed last.          *)
(***************************************************************************)
EXTENDS AgentRun, TLAPS

\* The scheduler's proofs.  Its definitions have two names here: the ones that
\* AgentRun uses, and the ones that those proofs are about.
SP == INSTANCE SchedulerProofs

(***************************************************************************)
(* The run as a run of the scheduler.                                      *)
(***************************************************************************)
\* The parts start and stop the scheduler by its own operations.
LEMMA SameScheduler ==
  /\ Sch!Init <=> SP!Init
  /\ [Sch!Next]_(Sch!vars) <=> [SP!Next]_(SP!vars)
  /\ Sch!TypeOK <=> SP!TypeOK
  /\ Sch!Thread = SP!Thread
<1> USE DEF Sch!Thread, SP!Thread, Sch!IdleThread, SP!IdleThread,
            Sch!NewStatus, SP!NewStatus
<1>1. Sch!Init <=> SP!Init
  BY Zenon DEF Sch!Init, SP!Init
<1>2. \A t : Sch!RunOnceStep(t) <=> SP!RunOnceStep(t)
  BY Zenon DEF Sch!RunOnceStep, SP!RunOnceStep, Sch!TryLock, SP!TryLock,
    Sch!markAttempt, SP!markAttempt, Sch!Collect, SP!Collect,
    Sch!EvaluateRules, SP!EvaluateRules, Sch!DeliverTransitions,
    SP!DeliverTransitions, Sch!FinalCheck, SP!FinalCheck, Sch!copyStatus,
    SP!copyStatus, Sch!SaveSchedulerStatus, SP!SaveSchedulerStatus,
    Sch!writeStatus, SP!writeStatus, Sch!ReturnFromRunOnce,
    SP!ReturnFromRunOnce, Sch!cycleStatus, SP!cycleStatus, Sch!goto, SP!goto,
    Sch!fail, SP!fail
<1>3. Sch!Next <=> SP!Next
  BY <1>2, Zenon DEF Sch!Next, SP!Next, Sch!CallRunOnce, SP!CallRunOnce,
    Sch!Start, SP!Start, Sch!LoopTick, SP!LoopTick, Sch!LoopExit, SP!LoopExit,
    Sch!ParentCanceled, SP!ParentCanceled, Sch!Stop, SP!Stop,
    Sch!StopReturns, SP!StopReturns, Sch!enterRunOnce, SP!enterRunOnce
<1>4. Sch!vars = SP!vars /\ Sch!vars' = SP!vars'
  BY Zenon DEF Sch!vars, SP!vars
<1>5. Sch!TypeOK <=> SP!TypeOK
  BY Zenon DEF Sch!TypeOK, SP!TypeOK, Sch!StatusRecord, SP!StatusRecord,
    Sch!ThreadRecord, SP!ThreadRecord, Sch!PC, SP!PC
<1> QED
  BY <1>1, <1>3, <1>4, <1>5

\* The scheduler's assumption is among the agent's.
LEMMA SchedulerMayAssume == SP!SchedulerAssumption
BY AgentRunAssumption DEF AgentRunAssumption, SP!SchedulerAssumption

\* Every step of the agent is one of the scheduler, or leaves it alone.
LEMMA StepIsSchedulers == [Next]_vars => [Sch!Next]_(Sch!vars)
<1> SUFFICES ASSUME [Next]_vars PROVE [Sch!Next]_(Sch!vars)
  OBVIOUS
<1>1. CASE UNCHANGED scheduler
  BY <1>1 DEF scheduler, Sch!vars
<1>2. CASE Sch!Start \/ Sch!Stop \/ Sch!StopReturns \/ Sch!LoopTick
           \/ Sch!LoopExit \/ Sch!ParentCanceled
           \/ \E t \in Sch!Thread : Sch!RunOnceStep(t)
  BY <1>2 DEF Sch!Next
<1>3. UNCHANGED scheduler \/ Sch!Start \/ Sch!Stop \/ Sch!StopReturns
        \/ Sch!LoopTick \/ Sch!LoopExit \/ Sch!ParentCanceled
        \/ \E t \in Sch!Thread : Sch!RunOnceStep(t)
  BY Zenon
     DEF Next, vars, MainStep, Begin, StartAPI, StartScheduler, StartReturns,
         SetReady, NotifyReady, StartWatchdog, Wait, waitForWatchdog,
         SetNotReady, StopScheduler, StopSchedulerReturns, NotifyStopping,
         ShutdownAPI, closeStore, ServeFails, recordServeError, RequestBegins,
         RequestEnds, WatchdogTick, WatchdogWrite, WatchdogExit, SchedulerStep,
         SchedulerTick, SchedulerExit, Signal
<1> QED
  BY <1>1, <1>2, <1>3

\* RunInfrastructure uses the scheduler as Scheduler describes it: one Start, one
\* Stop, one parent context; so what is proved of the scheduler holds in the
\* agent (lifecycle.go 73-169).
THEOREM AgentRunsScheduler == Spec => Sch!Spec
<1>1. Init => Sch!Init
  BY DEF Init
<1> QED
  BY <1>1, StepIsSchedulers, PTL DEF Spec, Sch!Spec

\* What the proofs about the scheduler say of each step here.
LEMMA SchedulerFacts == Spec => [](SP!TypeOK /\ SP!LoopInv)
<1>1. Init => SP!TypeOK /\ SP!LoopInv
  BY SchedulerMayAssume, SameScheduler, SP!InitType, SP!LoopInitInv DEF Init
<1>2. SP!TypeOK /\ SP!LoopInv /\ [Next]_vars => (SP!TypeOK /\ SP!LoopInv)'
  BY SchedulerMayAssume, SameScheduler, StepIsSchedulers, SP!TypeStep,
     SP!LoopInvStep
<1> QED
  BY <1>1, <1>2, PTL DEF Spec

(***************************************************************************)
(* The types.                                                              *)
(***************************************************************************)
partTypes ==
  /\ main \in MainPC
  /\ api \in [state : APIState, ready : BOOLEAN, serveErr : BOOLEAN]
  /\ request \in {"none", "active"}
  /\ watchdog \in {"none", "select", "write", "done"}
  /\ sent \in {"", "READY", "WATCHDOG", "STOPPING"}
  /\ store \in {"open", "closed"}
  /\ late \subseteq {"watchdog", "scheduler", "api"}

\* Every step keeps the types of the parts.
LEMMA PartTypesStep == partTypes /\ [Next]_vars => partTypes'
<1> SUFFICES ASSUME partTypes, [Next]_vars PROVE partTypes'
  OBVIOUS
<1>7. CASE UNCHANGED parts
  BY <1>7 DEF parts, partTypes
<1> USE AgentRunAssumption
        DEF AgentRunAssumption, partTypes, MainPC, APIState
<1>1. CASE Begin \/ StartAPI \/ StartScheduler \/ StartReturns \/ SetReady
  BY <1>1 DEF Begin, StartAPI, StartScheduler, StartReturns, SetReady
<1>2. CASE NotifyReady \/ StartWatchdog \/ Wait \/ waitForWatchdog \/ SetNotReady
  BY <1>2 DEF NotifyReady, StartWatchdog, Wait, waitForWatchdog, SetNotReady
<1>3. CASE StopScheduler \/ StopSchedulerReturns \/ NotifyStopping
  BY <1>3 DEF StopScheduler, StopSchedulerReturns, NotifyStopping
<1>4. CASE ShutdownAPI \/ closeStore
  BY <1>4 DEF ShutdownAPI, closeStore
<1>5. CASE ServeFails \/ recordServeError
  <2>1. UNCHANGED <<main, request, watchdog, sent, store, late>>
    BY <1>5 DEF ServeFails, recordServeError
  <2>2. api' \in [state : APIState, ready : BOOLEAN, serveErr : BOOLEAN]
    <3>1. CASE ServeFails
      BY <3>1 DEF ServeFails
    <3>2. CASE recordServeError
      BY <3>2 DEF recordServeError
    <3> QED
      BY <1>5, <3>1, <3>2
  <2> QED
    BY <2>1, <2>2
<1>8. CASE RequestBegins \/ RequestEnds
  BY <1>8 DEF RequestBegins, RequestEnds
<1>6. CASE WatchdogTick \/ WatchdogWrite \/ WatchdogExit
  BY <1>6 DEF WatchdogTick, WatchdogWrite, WatchdogExit
<1> QED
  BY <1>1, <1>2, <1>3, <1>4, <1>5, <1>6, <1>7, <1>8, Zenon
     DEF Next, MainStep, SchedulerStep, SchedulerTick, SchedulerExit, Signal,
         vars
-----------------------------------------------------------------------------
(***************************************************************************)
(* Where the main goroutine is, and what it has seen to.                   *)
(***************************************************************************)
neverStarted == loopState = "unborn" /\ thread["main"].pc = "idle"
begunOrFailed == hist.began + hist.failed >= 1

\* Start has returned: its cycle, if it was to run one, began or was refused.
started == loopState # "unborn" /\ (RunOnStart => begunOrFailed)

BeforeReady == {"begin", "startAPI", "startScheduler", "inStart", "setReady",
                "abort"}
Running == {"setReady", "notifyReady", "startWatchdog", "wait", "waitWatchdog",
            "setNotReady", "stopScheduler"}

\* Nobody else calls RunOnce, and a cycle on start leaves a trace in hist.
CycleOnStart ==
  /\ \A t \in Caller : thread[t].pc = "idle"
  /\ LET th == thread["main"]
     IN /\ th.pc \in Sch!StagePC => hist.began >= 1
        /\ th.pc \in {"copy", "save", "write"} => hist.began >= 1 \/ th.err
        /\ th.pc = "return" => begunOrFailed
  /\ RunOnStart /\ loopState # "unborn" => begunOrFailed

MainKnows ==
  /\ main \in {"begin", "startAPI", "startScheduler"} =>
       neverStarted /\ stop = "none"
  /\ main = "abort" => neverStarted
  /\ main = "inStart" => stop = "none"
  /\ main \in Running => started /\ stop = "none"
  /\ main \in {"inStop", "notifyStopping", "shutdownAPI"} => started
  /\ main \in {"notifyStopping", "shutdownAPI"} =>
       stop = "ok" \/ "scheduler" \in late
  /\ main \in {"closeStore", "returned"} =>
       stop = "ok" \/ "scheduler" \in late \/ neverStarted

ReadinessFollows ==
  /\ main \in BeforeReady => sent = "" /\ ~api.ready /\ watchdog = "none"
  /\ api.ready \/ sent # "" \/ watchdog # "none" => started

RequestsFollow ==
  /\ main \in {"begin", "startAPI"} => api.state = "off" /\ request = "none"
  /\ main \in {"closeStore", "returned"} =>
       api.state # "serving" /\ (request = "active" => "api" \in late)
  /\ store = "closed" => main = "returned"

WatchdogFollows ==
  /\ sent = "STOPPING" => main \in {"shutdownAPI", "closeStore", "returned"}
  /\ \/ sent = "STOPPING"
     \/ main \in {"setNotReady", "stopScheduler", "inStop", "notifyStopping",
                  "shutdownAPI"}
     => watchdog \in {"none", "done"} \/ "watchdog" \in late

AgentInv ==
  /\ SP!TypeOK /\ SP!LoopInv /\ partTypes
  /\ CycleOnStart /\ MainKnows /\ ReadinessFollows /\ RequestsFollow
  /\ WatchdogFollows

\* The run begins with nothing started.
LEMMA AgentInitInv == Init /\ SP!TypeOK /\ SP!LoopInv => AgentInv
<1> SUFFICES ASSUME Init, SP!TypeOK, SP!LoopInv PROVE AgentInv
  OBVIOUS
<1>1. /\ \A t \in Sch!Thread : thread[t].pc = "idle"
      /\ loopState = "unborn" /\ stop = "none"
      /\ Caller \cup {"main"} \subseteq Sch!Thread
  BY DEF Init, Sch!Init, Sch!IdleThread, Sch!Thread
<1>2. partTypes
  BY DEF Init, partTypes, MainPC, APIState
<1>3. CycleOnStart
  BY <1>1 DEF CycleOnStart, Sch!StagePC
<1>4. MainKnows /\ ReadinessFollows /\ RequestsFollow /\ WatchdogFollows
  BY <1>1 DEF Init, MainKnows, Running, ReadinessFollows, RequestsFollow,
              WatchdogFollows, neverStarted
<1> QED
  BY <1>2, <1>3, <1>4 DEF AgentInv

\* What one step of a RunOnce call may do to what the agent looks at.
LEMMA RunOnceEffect ==
  ASSUME SP!TypeOK, SP!LoopInv, CycleOnStart, NEW t \in Sch!Thread,
         Sch!RunOnceStep(t)
  PROVE  /\ thread[t].pc # "idle"
         /\ \A u \in Sch!Thread : u # t => thread'[u] = thread[u]
         /\ UNCHANGED <<canceled, stop>>
         /\ hist'.began >= hist.began /\ hist'.failed >= hist.failed
         /\ loopState' = loopState \/ loopState' = "select"
         /\ loopState' # loopState => t # "main" \/ thread[t].pc = "return"
         /\ CycleOnStart'
<1> USE DEF Sch!Thread
<1>0. /\ thread \in [Sch!Thread -> SP!ThreadRecord]
      /\ hist \in [began : Nat, failed : Nat, inARow : Nat, refused : BOOLEAN]
  BY DEF SP!TypeOK, SP!Thread
<1>1. CASE Sch!TryLock(t)
  <2>1. CASE cycleMu = "none"
    BY <1>0, <1>1, <2>1 DEF Sch!TryLock, Sch!goto, SP!ThreadRecord, CycleOnStart,
                            Sch!StagePC, begunOrFailed
  <2>2. CASE cycleMu # "none"
    <3>1. thread'[t].pc = "copy" /\ thread'[t].err
      BY <1>0, <1>1, <2>2 DEF Sch!TryLock, SP!ThreadRecord
    <3>2. hist'.began = hist.began /\ hist'.failed = hist.failed
      BY <1>0, <1>1, <2>2 DEF Sch!TryLock
    <3> QED
      BY <1>0, <1>1, <2>2, <3>1, <3>2
         DEF Sch!TryLock, CycleOnStart, Sch!StagePC, begunOrFailed
  <2> QED
    BY <2>1, <2>2
<1>2. CASE Sch!markAttempt(t)
  <2>1. hist'.began = hist.began + 1 /\ hist'.failed = hist.failed
    BY <1>0, <1>2 DEF Sch!markAttempt
  <2>2. thread[t].pc = "mark" /\ thread'[t].pc = "collect"
    BY <1>0, <1>2 DEF Sch!markAttempt, Sch!goto, SP!ThreadRecord
  <2> QED
    BY <1>0, <1>2, <2>1, <2>2
       DEF Sch!markAttempt, Sch!goto, CycleOnStart, Sch!StagePC, begunOrFailed
<1>3. CASE \/ Sch!Collect(t) \/ Sch!EvaluateRules(t) \/ Sch!DeliverTransitions(t)
           \/ Sch!FinalCheck(t)
  <2>1. /\ thread[t].pc \in Sch!StagePC
        /\ thread'[t].pc \in Sch!StagePC \cup {"copy"}
        /\ \A u \in Sch!Thread : u # t => thread'[u] = thread[u]
        /\ UNCHANGED <<loopState, canceled, stop, hist>>
    <3> USE <1>0 DEF Sch!goto, Sch!fail, Sch!StagePC, SP!ThreadRecord
    <3>1. CASE Sch!Collect(t)
      BY <3>1 DEF Sch!Collect
    <3>2. CASE Sch!EvaluateRules(t)
      BY <3>2 DEF Sch!EvaluateRules
    <3>3. CASE Sch!DeliverTransitions(t)
      BY <3>3 DEF Sch!DeliverTransitions
    <3>4. CASE Sch!FinalCheck(t)
      BY <3>4 DEF Sch!FinalCheck
    <3> QED
      BY <1>3, <3>1, <3>2, <3>3, <3>4
  <2> QED
    BY <1>0, <2>1 DEF CycleOnStart, Sch!StagePC, begunOrFailed
<1>4. CASE Sch!copyStatus(t)
  <2>1. /\ thread[t].pc = "copy" /\ thread'[t].pc = "save"
        /\ thread'[t].err = thread[t].err
    BY <1>0, <1>4 DEF Sch!copyStatus, SP!ThreadRecord
  <2> QED
    BY <1>0, <1>4, <2>1
       DEF Sch!copyStatus, CycleOnStart, Sch!StagePC, begunOrFailed
<1>5. CASE Sch!SaveSchedulerStatus(t)
  <2>1. PICK next : \/ thread' = [thread EXCEPT ![t].pc = "write",
                                               ![t].next = next]
                    \/ thread' = [thread EXCEPT ![t].pc = "write",
                                               ![t].err = TRUE,
                                               ![t].next = next]
    BY <1>5, Zenon DEF Sch!SaveSchedulerStatus
  <2>2. /\ thread'[t].pc = "write"
        /\ thread[t].err => thread'[t].err
        /\ \A u \in Sch!Thread : u # t => thread'[u] = thread[u]
    BY <1>0, <2>1 DEF SP!ThreadRecord
  <2> QED
    BY <1>0, <1>5, <2>2
       DEF Sch!SaveSchedulerStatus, CycleOnStart, Sch!StagePC, begunOrFailed
<1>6. CASE Sch!writeStatus(t)
  <2>1. /\ hist'.began = hist.began /\ hist'.failed >= hist.failed
        /\ thread[t].err => hist'.failed = hist.failed + 1
    BY <1>0, <1>6 DEF Sch!writeStatus
  <2>2. thread[t].pc = "write" /\ thread'[t].pc = "return"
    BY <1>0, <1>6 DEF Sch!writeStatus, Sch!goto, SP!ThreadRecord
  <2>3. \A u \in Sch!Thread : u # t => thread'[u] = thread[u]
    BY <1>0, <1>6 DEF Sch!writeStatus, Sch!goto
  <2>4. hist'.failed \in Nat
    BY <1>0, <1>6 DEF Sch!writeStatus
  <2> QED
    BY <1>0, <1>6, <2>1, <2>2, <2>3, <2>4
       DEF Sch!writeStatus, CycleOnStart, Sch!StagePC, begunOrFailed
<1>7. CASE Sch!ReturnFromRunOnce(t)
  <2>1. thread[t].pc = "return" /\ thread'[t].pc = "idle"
    BY <1>0, <1>7 DEF Sch!ReturnFromRunOnce, Sch!IdleThread
  <2>2. /\ UNCHANGED <<canceled, stop, hist>>
        /\ loopState' = loopState \/ loopState' = "select"
        /\ \A u \in Sch!Thread : u # t => thread'[u] = thread[u]
    BY <1>0, <1>7 DEF Sch!ReturnFromRunOnce
  <2>3. RunOnStart /\ loopState' # "unborn" => begunOrFailed'
    <3>1. CASE t = "main"
      BY <2>1, <2>2, <3>1 DEF CycleOnStart, begunOrFailed
    <3>2. CASE t # "main"
      <4>1. t = "loop"
        BY <2>1, <3>2 DEF CycleOnStart
      <4>2. loopState = "running"
        BY <2>1, <4>1 DEF SP!LoopInv
      <4> QED
        BY <2>2, <4>2 DEF CycleOnStart, begunOrFailed
    <3> QED
      BY <3>1, <3>2
  <2> QED
    BY <1>0, <2>1, <2>2, <2>3 DEF CycleOnStart, Sch!StagePC, begunOrFailed
<1> QED
  BY <1>1, <1>2, <1>3, <1>4, <1>5, <1>6, <1>7 DEF Sch!RunOnceStep

\* The steps of the parts that leave the scheduler alone.
LEMMA PartsKeep ==
  ASSUME AgentInv, UNCHANGED scheduler,
         \/ MainStep \/ ServeFails \/ recordServeError \/ RequestBegins
         \/ RequestEnds \/ WatchdogTick \/ WatchdogWrite \/ WatchdogExit
         \/ UNCHANGED parts
  PROVE  /\ MainKnows' /\ ReadinessFollows' /\ RequestsFollow'
         /\ WatchdogFollows'
<1>0. /\ neverStarted' = neverStarted /\ started' = started
      /\ UNCHANGED <<stop, loopState, canceled, thread>>
      /\ started => ~neverStarted
  BY DEF scheduler, neverStarted, started, begunOrFailed
<1> HIDE DEF neverStarted, started
<1> USE <1>0, AgentRunAssumption
        DEF AgentRunAssumption, AgentInv, MainKnows, ReadinessFollows,
            RequestsFollow, WatchdogFollows, Running, BeforeReady, partTypes,
            MainPC, APIState
<1>1. CASE Begin
  BY <1>1 DEF Begin
<1>2. CASE StartAPI
  BY <1>2 DEF StartAPI
<1>3. CASE StartScheduler
  BY <1>3 DEF StartScheduler
<1>4. CASE StartReturns
  BY <1>4 DEF StartReturns, CycleOnStart, started
<1>5. CASE SetReady \/ NotifyReady
  BY <1>5 DEF SetReady, NotifyReady
<1>6. CASE StartWatchdog \/ Wait
  BY <1>6 DEF StartWatchdog, Wait
<1>7. CASE waitForWatchdog \/ SetNotReady
  BY <1>7 DEF waitForWatchdog, SetNotReady
<1>8. CASE StopScheduler \/ StopSchedulerReturns
  BY <1>8 DEF StopScheduler, StopSchedulerReturns, Sch!Stop, Sch!StopReturns
<1>9. CASE NotifyStopping
  BY <1>9 DEF NotifyStopping
<1>10. CASE ShutdownAPI
  BY <1>10 DEF ShutdownAPI
<1>11. CASE closeStore
  BY <1>11 DEF closeStore
<1>12. CASE ServeFails \/ recordServeError
  BY <1>12 DEF ServeFails, recordServeError
<1>13. CASE RequestBegins
  <2>1. UNCHANGED <<main, api, watchdog, sent, store, late>>
    BY <1>13 DEF RequestBegins
  <2>2. RequestsFollow'
    BY <1>13, <2>1 DEF RequestBegins
  <2> HIDE DEF RequestsFollow, AgentInv, partTypes
  <2> QED
    BY <2>1, <2>2 DEF AgentInv
<1>16. CASE RequestEnds
  <2>1. UNCHANGED <<main, api, watchdog, sent, store, late>>
    BY <1>16 DEF RequestEnds
  <2>2. RequestsFollow'
    BY <1>16, <2>1 DEF RequestEnds
  <2> HIDE DEF RequestsFollow, AgentInv, partTypes
  <2> QED
    BY <2>1, <2>2 DEF AgentInv
<1>14. CASE WatchdogTick \/ WatchdogWrite \/ WatchdogExit
  <2>1. UNCHANGED <<main, api, request, store, late>>
    BY <1>14 DEF WatchdogTick, WatchdogWrite, WatchdogExit
  <2>2. /\ watchdog # "none" /\ watchdog # "done"
        /\ watchdog' # "none" /\ sent' \in {sent, "WATCHDOG"}
        /\ sent' # sent => watchdog = "write"
    BY <1>14 DEF WatchdogTick, WatchdogWrite, WatchdogExit
  <2>3. MainKnows' /\ RequestsFollow'
    <3> HIDE DEF partTypes
    <3> QED
      BY <2>1
  <2>4. ReadinessFollows' /\ WatchdogFollows'
    BY <2>1, <2>2
  <2> QED
    BY <2>3, <2>4
<1>15. CASE UNCHANGED parts
  <2>1. UNCHANGED <<main, api, request, watchdog, sent, store, late>>
    BY <1>15 DEF parts
  <2> HIDE DEF partTypes
  <2>2. MainKnows' /\ RequestsFollow'
    BY <2>1
  <2>3. ReadinessFollows' /\ WatchdogFollows'
    BY <2>1
  <2> QED
    BY <2>2, <2>3
<1> QED
  BY <1>1, <1>2, <1>3, <1>4, <1>5, <1>6, <1>7, <1>8, <1>9, <1>10, <1>11,
     <1>12, <1>13, <1>14, <1>15, <1>16, Zenon DEF MainStep

\* The parts as RunOnce and the ticker see them: nothing they know is taken back.
LEMMA KnowledgeKept ==
  ASSUME AgentInv, UNCHANGED parts, stop' = stop,
         loopState # "unborn" => loopState' # "unborn",
         begunOrFailed => begunOrFailed',
         neverStarted => neverStarted'
  PROVE  /\ MainKnows' /\ ReadinessFollows' /\ RequestsFollow'
         /\ WatchdogFollows'
<1>1. started => started'
  BY DEF started
<1>2. UNCHANGED <<main, api, request, watchdog, sent, store, late>>
  BY DEF parts
<1> HIDE DEF started, neverStarted
<1>3. MainKnows'
  BY <1>1, <1>2 DEF AgentInv, MainKnows
<1>4. ReadinessFollows' /\ RequestsFollow' /\ WatchdogFollows'
  BY <1>1, <1>2 DEF AgentInv, ReadinessFollows, RequestsFollow, WatchdogFollows
<1> QED
  BY <1>3, <1>4

\* The steps of the scheduler, its own and those the main goroutine makes.
LEMMA SchedulerKeeps ==
  ASSUME AgentInv, [Next]_vars, SP!TypeOK', SP!LoopInv', partTypes',
         \/ StartScheduler \/ StopScheduler \/ StopSchedulerReturns
         \/ \E t \in Sch!Thread : SchedulerStep(t)
         \/ SchedulerTick \/ SchedulerExit \/ Signal
  PROVE  AgentInv'
<1>0. /\ {"main", "loop"} \cup Caller \subseteq Sch!Thread
      /\ "main" \notin Caller /\ "loop" \notin Caller
      /\ thread \in [Sch!Thread -> SP!ThreadRecord]
      /\ hist \in [began : Nat, failed : Nat, inARow : Nat, refused : BOOLEAN]
  BY AgentRunAssumption
     DEF AgentRunAssumption, AgentInv, SP!TypeOK, SP!Thread, Sch!Thread
<1>1. CASE StartScheduler
  <2>1. CASE canceled
    <3>1. UNCHANGED scheduler /\ CycleOnStart'
      BY <1>1, <2>1 DEF StartScheduler, AgentInv, CycleOnStart, scheduler,
                        begunOrFailed
    <3> QED
      BY <1>1, <3>1, PartsKeep DEF AgentInv, MainStep
  <2>2. CASE ~canceled
    <3>1. /\ main = "startScheduler" /\ main' = "inStart"
          /\ UNCHANGED <<api, request, watchdog, sent, store, late, stop, hist>>
          /\ \/ /\ RunOnStart /\ loopState' = loopState
                /\ thread'["main"].pc = "tryLock"
             \/ ~RunOnStart /\ UNCHANGED thread
          /\ \A t \in Caller : thread'[t] = thread[t]
      BY <1>0, <1>1, <2>2
         DEF StartScheduler, Sch!Start, Sch!enterRunOnce, Sch!IdleThread
    <3>2. CycleOnStart'
      BY <1>0, <3>1 DEF AgentInv, CycleOnStart, MainKnows, neverStarted,
                        Sch!StagePC, begunOrFailed
    <3>3. MainKnows' /\ ReadinessFollows' /\ RequestsFollow' /\ WatchdogFollows'
      BY <3>1 DEF AgentInv, MainKnows, ReadinessFollows, RequestsFollow,
                  WatchdogFollows, Running, BeforeReady
    <3> QED
      BY <3>2, <3>3 DEF AgentInv
  <2> QED
    BY <2>1, <2>2
<1>2. CASE StopScheduler
  <2>1. /\ main = "stopScheduler" /\ main' = "inStop"
        /\ UNCHANGED <<api, request, watchdog, sent, store, late, loopState,
                       thread, hist>>
    BY <1>2 DEF StopScheduler, Sch!Stop
  <2>2. CycleOnStart' /\ started' = started
    BY <2>1 DEF AgentInv, CycleOnStart, begunOrFailed, started
  <2>3. MainKnows' /\ ReadinessFollows' /\ RequestsFollow' /\ WatchdogFollows'
    BY <2>1, <2>2 DEF AgentInv, MainKnows, ReadinessFollows, RequestsFollow,
                      WatchdogFollows, Running, BeforeReady
  <2> QED
    BY <2>2, <2>3 DEF AgentInv
<1>3. CASE StopSchedulerReturns
  <2>1. /\ main = "inStop" /\ main' = "notifyStopping"
        /\ UNCHANGED <<api, request, watchdog, sent, store, loopState, thread,
                       hist>>
        /\ stop' = "ok" \/ "scheduler" \in late'
        /\ late \subseteq late'
    BY <1>3 DEF StopSchedulerReturns, Sch!StopReturns
  <2>2. CycleOnStart' /\ started' = started
    BY <2>1 DEF AgentInv, CycleOnStart, begunOrFailed, started
  <2>3. MainKnows' /\ ReadinessFollows' /\ RequestsFollow' /\ WatchdogFollows'
    BY <2>1, <2>2 DEF AgentInv, MainKnows, ReadinessFollows, RequestsFollow,
                      WatchdogFollows, Running, BeforeReady
  <2> QED
    BY <2>2, <2>3 DEF AgentInv
<1>4. ASSUME NEW t \in Sch!Thread, SchedulerStep(t) PROVE AgentInv'
  <2>1. /\ thread[t].pc # "idle"
        /\ \A u \in Sch!Thread : u # t => thread'[u] = thread[u]
        /\ UNCHANGED <<canceled, stop>>
        /\ hist'.began >= hist.began /\ hist'.failed >= hist.failed
        /\ loopState' = loopState \/ loopState' = "select"
        /\ loopState' # loopState => t # "main" \/ thread[t].pc = "return"
        /\ CycleOnStart'
    BY <1>4, RunOnceEffect DEF SchedulerStep, AgentInv
  <2>2. neverStarted => FALSE
    BY <1>0, <2>1 DEF neverStarted, AgentInv, SP!LoopInv, CycleOnStart,
                      Sch!Thread
  <2>3. hist'.began \in Nat /\ hist'.failed \in Nat
    BY DEF SP!TypeOK
  <2>4. begunOrFailed => begunOrFailed'
    BY <1>0, <2>1, <2>3 DEF begunOrFailed
  <2> QED
    BY <1>4, <2>1, <2>2, <2>4, KnowledgeKept DEF SchedulerStep, AgentInv
<1>5. CASE SchedulerTick
  <2>1. /\ UNCHANGED parts /\ UNCHANGED <<stop, hist>>
        /\ loopState = "select" /\ loopState' = "running"
        /\ thread'["main"] = thread["main"]
        /\ \A t \in Caller : thread'[t] = thread[t]
    BY <1>0, <1>5 DEF SchedulerTick, Sch!LoopTick, Sch!enterRunOnce
  <2>2. CycleOnStart'
    BY <2>1 DEF AgentInv, CycleOnStart, begunOrFailed
  <2>3. (begunOrFailed => begunOrFailed') /\ ~neverStarted
    BY <2>1 DEF begunOrFailed, neverStarted
  <2> QED
    BY <2>1, <2>2, <2>3, KnowledgeKept DEF AgentInv
<1>6. CASE SchedulerExit
  <2>1. /\ UNCHANGED parts /\ UNCHANGED <<stop, hist, thread>>
        /\ loopState = "select" /\ loopState' = "done"
    BY <1>6 DEF SchedulerExit, Sch!LoopExit
  <2>2. CycleOnStart'
    BY <2>1 DEF AgentInv, CycleOnStart, begunOrFailed
  <2>3. (begunOrFailed => begunOrFailed') /\ ~neverStarted
    BY <2>1 DEF begunOrFailed, neverStarted
  <2> QED
    BY <2>1, <2>2, <2>3, KnowledgeKept DEF AgentInv
<1>7. CASE Signal
  <2>1. UNCHANGED parts /\ UNCHANGED <<stop, hist, thread, loopState>>
    BY <1>7 DEF Signal, Sch!ParentCanceled
  <2>2. CycleOnStart'
    BY <2>1 DEF AgentInv, CycleOnStart, begunOrFailed
  <2>3. (begunOrFailed => begunOrFailed') /\ (neverStarted => neverStarted')
    BY <2>1 DEF begunOrFailed, neverStarted
  <2> QED
    BY <2>1, <2>2, <2>3, KnowledgeKept DEF AgentInv
<1> QED
  BY <1>1, <1>2, <1>3, <1>4, <1>5, <1>6, <1>7

\* Every step keeps what the main goroutine has seen to.
LEMMA AgentInvStep ==
  AgentInv /\ [Next]_vars /\ SP!TypeOK' /\ SP!LoopInv' => AgentInv'
<1> SUFFICES ASSUME AgentInv, [Next]_vars, SP!TypeOK', SP!LoopInv'
             PROVE  AgentInv'
  OBVIOUS
<1>1. partTypes'
  BY PartTypesStep DEF AgentInv
<1>2. CASE \/ StartScheduler \/ StopScheduler \/ StopSchedulerReturns
           \/ \E t \in Sch!Thread : SchedulerStep(t)
           \/ SchedulerTick \/ SchedulerExit \/ Signal
  BY <1>1, <1>2, SchedulerKeeps
<1>3. CASE UNCHANGED vars \/ MainStep \/ ServeFails \/ recordServeError
           \/ RequestBegins \/ RequestEnds \/ WatchdogTick \/ WatchdogWrite
           \/ WatchdogExit
  <2> SUFFICES ASSUME ~(StartScheduler \/ StopScheduler \/ StopSchedulerReturns)
               PROVE  AgentInv'
    BY <1>2
  <2>1. UNCHANGED scheduler
    BY <1>3, Zenon
       DEF vars, MainStep, Begin, StartAPI, StartReturns, SetReady, NotifyReady,
           StartWatchdog, Wait, waitForWatchdog, SetNotReady, NotifyStopping,
           ShutdownAPI, closeStore, ServeFails, recordServeError,
           RequestBegins, RequestEnds, WatchdogTick, WatchdogWrite, WatchdogExit
  <2>2. UNCHANGED vars => UNCHANGED parts
    BY DEF vars
  <2>3. MainKnows' /\ ReadinessFollows' /\ RequestsFollow' /\ WatchdogFollows'
    BY <1>3, <2>1, <2>2, PartsKeep
  <2>4. CycleOnStart'
    BY <2>1 DEF scheduler, AgentInv, CycleOnStart, begunOrFailed
  <2> QED
    BY <1>1, <2>3, <2>4 DEF AgentInv
<1> QED
  BY <1>2, <1>3 DEF Next

\* It is so in every state.
LEMMA AgentKnows == Spec => []AgentInv
<1>1. Init /\ SP!TypeOK /\ SP!LoopInv => AgentInv
  BY AgentInitInv
<1>2. AgentInv /\ [Next]_vars /\ (SP!TypeOK /\ SP!LoopInv)' => AgentInv'
  BY AgentInvStep
<1> QED
  BY <1>1, <1>2, SchedulerFacts, PTL DEF Spec

\* The types of the scheduler's state and of the parts' (lifecycle.go 73-169).
THEOREM AgentTypes == Spec => []TypeOK
<1>1. AgentInv => TypeOK
  BY SameScheduler DEF AgentInv, partTypes, TypeOK
<1> QED
  BY <1>1, AgentKnows, PTL

\* The store is closed under a cycle or a request only if Stop or Shutdown gave
\* up waiting, on every path through the start and the end of the run
\* (lifecycle.go 73-169).
THEOREM ClosedLast == Spec => []StoreClosedLast
<1>1. AgentInv => StoreClosedLast
  <2> SUFFICES ASSUME AgentInv, store = "closed" PROVE StoreClosedLast
    BY DEF StoreClosedLast
  <2>1. main = "returned"
    BY DEF AgentInv, RequestsFollow
  <2>2. request = "active" => "api" \in late
    BY <2>1 DEF AgentInv, RequestsFollow
  <2>3. CASE "scheduler" \in late
    BY <2>2, <2>3 DEF StoreClosedLast
  <2>4. CASE stop = "ok" \/ neverStarted
    <3>1. loopState \in {"unborn", "done"}
      BY <2>4 DEF AgentInv, SP!LoopInv, neverStarted
    <3>2. \A t \in Sch!Thread : thread[t].pc = "idle"
      BY <2>4, <3>1 DEF AgentInv, SP!LoopInv, neverStarted, CycleOnStart,
                        Sch!Thread
    <3> QED
      BY <2>2, <3>1, <3>2 DEF StoreClosedLast, cycleUnderWay
  <2> QED
    BY <2>1, <2>3, <2>4 DEF AgentInv, MainKnows
<1> QED
  BY <1>1, AgentKnows, PTL

\* Neither the API nor systemd is told ready before the scheduler runs and its
\* cycle on start is over (lifecycle.go 104-125).
THEOREM ReadyAfterStart == Spec => []ReadyAfterFirstCycle
<1>1. AgentInv => ReadyAfterFirstCycle
  BY DEF AgentInv, ReadinessFollows, ReadyAfterFirstCycle, started,
         begunOrFailed, SP!LoopInv
<1> QED
  BY <1>1, AgentKnows, PTL

\* After STOPPING nothing is sent, unless the watchdog was given up on
\* (lifecycle.go 143-160).
THEOREM NothingAfterStopping == Spec => StoppingIsLast
<1> DEFINE last == sent = "STOPPING" /\ sent' # "STOPPING" => "watchdog" \in late
<1>1. AgentInv /\ [Next]_vars => [last]_vars
  <2> SUFFICES ASSUME AgentInv, [Next]_vars, sent = "STOPPING",
                      sent' # "STOPPING"
               PROVE  "watchdog" \in late
    OBVIOUS
  <2>1. sent' # sent => WatchdogWrite \/ NotifyReady \/ NotifyStopping
    BY Zenon
       DEF Next, vars, parts, MainStep, Begin, StartAPI, StartScheduler,
           StartReturns, SetReady, NotifyReady, StartWatchdog, Wait,
           waitForWatchdog, SetNotReady, StopScheduler, StopSchedulerReturns,
           NotifyStopping, ShutdownAPI, closeStore, ServeFails,
           recordServeError, RequestBegins, RequestEnds, WatchdogTick,
           WatchdogWrite, WatchdogExit, SchedulerStep, SchedulerTick,
           SchedulerExit, Signal
  <2>2. ~NotifyReady /\ ~NotifyStopping
    BY DEF NotifyReady, NotifyStopping, AgentInv, WatchdogFollows
  <2>3. watchdog = "write"
    BY <2>1, <2>2 DEF WatchdogWrite
  <2> QED
    BY <2>3 DEF AgentInv, WatchdogFollows
<1> QED
  BY <1>1, AgentKnows, PTL DEF Spec, StoppingIsLast
=============================================================================
