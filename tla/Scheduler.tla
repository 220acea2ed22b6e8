----------------------------- MODULE Scheduler -----------------------------
(***************************************************************************)
(* The monitoring scheduler (internal/agent/scheduler.go): its status      *)
(* record, the cycle mutex, and the goroutines that touch them.            *)
(*                                                                         *)
(* A goroutine inside RunOnce is a thread with a program counter.  "main"  *)
(* is the goroutine of RunInfrastructure, which calls Start (with the      *)
(* run-on-start cycle inside) and Stop; "loop" is the ticker loop; Caller  *)
(* are further callers of the exported RunOnce.  The status mutex mu is    *)
(* held only inside single steps; cycleMu is the variable cycleMu.         *)
(*                                                                         *)
(* finishCycle is three steps: copy the status, save the new one in the    *)
(* store, write it back.  A time stamp is the number of the cycle that set *)
(* it, 0 for nil.  An error is only an error: its class and summary, and   *)
(* the duration of a cycle, are left out.  hist is history: the cycles     *)
(* begun, the failed finishes in total and in a row, and whether a call    *)
(* was refused because another one was in its cycle.                       *)
(***************************************************************************)
EXTENDS Integers, FiniteSets

CONSTANTS
  Caller,      \* other callers of RunOnce
  RunOnStart,  \* agent.scheduler.run_on_start
  MaxCycles    \* bound on the calls of RunOnce

ASSUME SchedulerAssumption ==
  /\ Caller \cap {"main", "loop", "none"} = {}
  /\ RunOnStart \in BOOLEAN
  /\ MaxCycles \in Nat

Thread == Caller \cup {"main", "loop"}

VARIABLES
  status,     \* s.status
  saved,      \* what the status store holds
  cycleMu,    \* holder of cycleMu, or "none"
  thread,     \* the RunOnce calls in progress
  loopState,  \* the loop goroutine: "unborn", "select", "running", "done"
  canceled,   \* runCtx is done
  stop,       \* Stop: "none", "waiting", "ok", "timeout"
  calls,      \* number of RunOnce calls so far
  hist        \* history, see above

vars == <<status, saved, cycleMu, thread, loopState, canceled, stop, calls, hist>>

StatusRecord == [running      : BOOLEAN,
                 cycleActive  : BOOLEAN,
                 lastAttempt  : Nat,
                 lastSuccess  : Nat,
                 cycleCount   : Nat,
                 failedCount  : Nat,
                 consecutive  : Nat]

NewStatus == [running |-> FALSE, cycleActive |-> FALSE, lastAttempt |-> 0,
              lastSuccess |-> 0, cycleCount |-> 0, failedCount |-> 0,
              consecutive |-> 0]

PC == {"idle", "tryLock", "mark", "collect", "evaluate", "notify", "check",
       "copy", "save", "write", "return"}

\* The stages of a cycle, between markAttempt and finishCycle.
StagePC == {"collect", "evaluate", "notify", "check"}

\* id numbers the call; err is whether RunOnce's err is set, soft whether there
\* is a collectorErr, which is reported after notification, base the status finishCycle copied, next the
\* status it is about to write.
ThreadRecord == [pc : PC, id : Nat, err : BOOLEAN, soft : BOOLEAN,
                 base : StatusRecord, next : StatusRecord]
IdleThread == [pc |-> "idle", id |-> 0, err |-> FALSE, soft |-> FALSE,
               base |-> NewStatus, next |-> NewStatus]

Init ==
  /\ status = NewStatus
  /\ saved = NewStatus
  /\ cycleMu = "none"
  /\ thread = [t \in Thread |-> IdleThread]
  /\ loopState = "unborn"
  /\ canceled = FALSE
  /\ stop = "none"
  /\ calls = 0
  /\ hist = [began |-> 0, failed |-> 0, inARow |-> 0, refused |-> FALSE]

goto(t, pc) == thread' = [thread EXCEPT ![t].pc = pc]

(***************************************************************************)
(* RunOnce.                                                                *)
(***************************************************************************)
enterRunOnce(t) ==
  /\ calls < MaxCycles
  /\ calls' = calls + 1
  /\ thread' = [thread EXCEPT ![t] = [IdleThread EXCEPT !.pc = "tryLock",
                                                        !.id = calls + 1]]

\* cycleMu.TryLock; on failure finishCycle runs with the overlap error.
TryLock(t) ==
  /\ thread[t].pc = "tryLock"
  /\ IF cycleMu = "none"
     THEN /\ cycleMu' = t
          /\ goto(t, "mark")
          /\ UNCHANGED hist
     ELSE /\ thread' = [thread EXCEPT ![t].pc = "copy", ![t].err = TRUE]
          /\ hist' = [hist EXCEPT !.refused = TRUE]
          /\ UNCHANGED cycleMu
  /\ UNCHANGED <<status, saved, loopState, canceled, stop, calls>>

markAttempt(t) ==
  /\ thread[t].pc = "mark"
  /\ status' = [status EXCEPT !.lastAttempt = thread[t].id,
                              !.cycleActive = TRUE,
                              !.cycleCount = @ + 1]
  /\ hist' = [hist EXCEPT !.began = @ + 1]
  /\ goto(t, "collect")
  /\ UNCHANGED <<saved, cycleMu, loopState, canceled, stop, calls>>

\* A stage fails, exceeds the cycle timeout, or panics: no further stage runs.
fail(t) == thread' = [thread EXCEPT ![t].pc = "copy", ![t].err = TRUE]

\* Collect; an error of a single collector does not stop the cycle (soft).
\* The context is checked again before the evaluation.
Collect(t) ==
  /\ thread[t].pc = "collect"
  /\ \/ fail(t)
     \/ /\ ~canceled
        /\ \E soft \in BOOLEAN :
             thread' = [thread EXCEPT ![t].pc = "evaluate", ![t].soft = soft]
  /\ UNCHANGED <<status, saved, cycleMu, loopState, canceled, stop, calls, hist>>

EvaluateRules(t) ==
  /\ thread[t].pc = "evaluate"
  /\ \/ fail(t)
     \/ goto(t, "notify")
     \/ goto(t, "check")    \* no transitions
  /\ UNCHANGED <<status, saved, cycleMu, loopState, canceled, stop, calls, hist>>

DeliverTransitions(t) ==
  /\ thread[t].pc = "notify"
  /\ fail(t) \/ goto(t, "check")
  /\ UNCHANGED <<status, saved, cycleMu, loopState, canceled, stop, calls, hist>>

\* The collector error held back, then the last look at the context.
FinalCheck(t) ==
  /\ thread[t].pc = "check"
  /\ fail(t) \/ (~thread[t].soft /\ ~canceled /\ goto(t, "copy"))
  /\ UNCHANGED <<status, saved, cycleMu, loopState, canceled, stop, calls, hist>>

\* finishCycle, first step: the copy under mu.
copyStatus(t) ==
  /\ thread[t].pc = "copy"
  /\ thread' = [thread EXCEPT ![t].pc = "save", ![t].base = status]
  /\ UNCHANGED <<status, saved, cycleMu, loopState, canceled, stop, calls, hist>>

\* Mutated form of cycleStatus: a success leaves the failures in a row alone.
cycleStatusNoReset(s, id, err) ==
  IF err
  THEN [s EXCEPT !.cycleActive = FALSE,
                 !.failedCount = @ + 1,
                 !.consecutive = @ + 1]
  ELSE [s EXCEPT !.cycleActive = FALSE, !.lastSuccess = id]

cycleStatus(s, id, err) ==
  IF err
  THEN [s EXCEPT !.cycleActive = FALSE,
                 !.failedCount = @ + 1,
                 !.consecutive = @ + 1]
  ELSE [s EXCEPT !.cycleActive = FALSE,
                 !.lastSuccess = id,
                 !.consecutive = 0]

\* Mutated form: a failed save is ignored.
SaveSchedulerStatusIgnoresError(t) ==
  /\ thread[t].pc = "save"
  /\ LET wanted == cycleStatus(thread[t].base, thread[t].id, thread[t].err)
     IN /\ thread' = [thread EXCEPT ![t].pc = "write", ![t].next = wanted]
        /\ saved' \in {saved, wanted}
  /\ UNCHANGED <<status, cycleMu, loopState, canceled, stop, calls, hist>>

\* Second step: SaveSchedulerStatus, outside mu.  A failed save of a good
\* cycle turns the cycle into a failed one.
SaveSchedulerStatus(t) ==
  /\ thread[t].pc = "save"
  /\ LET th == thread[t]
         wanted == cycleStatus(th.base, th.id, th.err)
     IN \/ /\ saved' = wanted
           /\ thread' = [thread EXCEPT ![t].pc = "write", ![t].next = wanted]
        \/ /\ thread' = [thread EXCEPT
                ![t].pc = "write",
                ![t].err = TRUE,
                ![t].next = cycleStatus(th.base, th.id, TRUE)]
           /\ UNCHANGED saved
  /\ UNCHANGED <<status, cycleMu, loopState, canceled, stop, calls, hist>>

\* Third step: the whole status is overwritten, under mu.
writeStatus(t) ==
  /\ thread[t].pc = "write"
  /\ status' = thread[t].next
  /\ hist' = IF thread[t].err
             THEN [hist EXCEPT !.failed = @ + 1, !.inARow = @ + 1]
             ELSE [hist EXCEPT !.inARow = 0]
  /\ goto(t, "return")
  /\ UNCHANGED <<saved, cycleMu, loopState, canceled, stop, calls>>

\* Mutated form: the unlock is deferred before TryLock is known to hold.
ReturnFromRunOnceUnlocks(t) ==
  /\ thread[t].pc = "return"
  /\ cycleMu' = "none"
  /\ thread' = [thread EXCEPT ![t] = IdleThread]
  /\ loopState' = IF t \in {"main", "loop"} THEN "select" ELSE loopState
  /\ UNCHANGED <<status, saved, canceled, stop, calls, hist>>

\* The deferred cycleMu.Unlock and the return to the caller.
ReturnFromRunOnce(t) ==
  /\ thread[t].pc = "return"
  /\ cycleMu' = IF cycleMu = t THEN "none" ELSE cycleMu
  /\ thread' = [thread EXCEPT ![t] = IdleThread]
  /\ loopState' = CASE t = "main" -> "select"  \* Start spawns the loop
                    [] t = "loop" -> "select"
                    [] OTHER      -> loopState
  /\ UNCHANGED <<status, saved, canceled, stop, calls, hist>>

(***************************************************************************)
(* Start, the loop, Stop.  RunInfrastructure calls Start once, then Stop.  *)
(***************************************************************************)
Start ==
  /\ loopState = "unborn"
  /\ thread["main"].pc = "idle"
  /\ ~canceled
  /\ ~status.running
  /\ status' = [status EXCEPT !.running = TRUE]
  /\ IF RunOnStart
     THEN /\ enterRunOnce("main")
          /\ loopState' = "unborn"
     ELSE /\ loopState' = "select"
          /\ UNCHANGED <<thread, calls>>
  /\ UNCHANGED <<saved, cycleMu, canceled, stop, hist>>

\* The ticker fires and the select takes it, even with the context done.
LoopTick ==
  /\ loopState = "select"
  /\ enterRunOnce("loop")
  /\ loopState' = "running"
  /\ UNCHANGED <<status, saved, cycleMu, canceled, stop, hist>>

\* Mutated form: the loop waits for Stop only, not for the parent context.
LoopExitOnStop ==
  /\ loopState = "select"
  /\ stop # "none"
  /\ loopState' = "done"
  /\ UNCHANGED <<status, saved, cycleMu, thread, canceled, stop, calls, hist>>

LoopExit ==
  /\ loopState = "select"
  /\ canceled
  /\ loopState' = "done"
  /\ UNCHANGED <<status, saved, cycleMu, thread, canceled, stop, calls, hist>>

\* The parent context ends (a signal).
ParentCanceled ==
  /\ ~canceled
  /\ canceled' = TRUE
  /\ UNCHANGED <<status, saved, cycleMu, thread, loopState, stop, calls, hist>>

\* Stop up to its select.  main is not inside Start any more.
Stop ==
  /\ stop = "none"
  /\ loopState # "unborn"
  /\ status' = [status EXCEPT !.running = FALSE, !.cycleActive = FALSE]
  /\ canceled' = TRUE
  /\ stop' = "waiting"
  /\ UNCHANGED <<saved, cycleMu, thread, loopState, calls, hist>>

\* Mutated form: Stop does not wait for the loop.
StopReturnsAtOnce ==
  /\ stop = "waiting"
  /\ stop' \in {"ok", "timeout"}
  /\ UNCHANGED <<status, saved, cycleMu, thread, loopState, canceled, calls, hist>>

StopReturns ==
  /\ stop = "waiting"
  /\ \/ loopState = "done" /\ stop' = "ok"
     \/ stop' = "timeout"
  /\ UNCHANGED <<status, saved, cycleMu, thread, loopState, canceled, calls, hist>>

CallRunOnce(t) ==
  /\ t \in Caller
  /\ thread[t].pc = "idle"
  /\ enterRunOnce(t)
  /\ UNCHANGED <<status, saved, cycleMu, loopState, canceled, stop, hist>>

RunOnceStep(t) ==
  \/ TryLock(t) \/ markAttempt(t)
  \/ Collect(t) \/ EvaluateRules(t) \/ DeliverTransitions(t) \/ FinalCheck(t)
  \/ copyStatus(t) \/ SaveSchedulerStatus(t) \/ writeStatus(t)
  \/ ReturnFromRunOnce(t)

Next ==
  \/ \E t \in Thread : RunOnceStep(t) \/ CallRunOnce(t)
  \/ Start \/ LoopTick \/ LoopExit \/ ParentCanceled \/ Stop \/ StopReturns

Spec == Init /\ [][Next]_vars

(***************************************************************************)
(* Every step of a RunOnce call is eventually taken: the stages run under  *)
(* the cycle's deadline and the store returns.  A select with both cases   *)
(* ready picks at random, so the exit case is not passed over forever.     *)
(* Nothing makes signals, ticks or calls happen.                           *)
(***************************************************************************)
Fairness ==
  /\ \A t \in Thread : WF_vars(RunOnceStep(t))
  /\ SF_vars(LoopExit)
  /\ WF_vars(StopReturns)

FairSpec == Spec /\ Fairness

-----------------------------------------------------------------------------
\* The type of the scheduler's state.
TypeOK ==
  /\ status \in StatusRecord
  /\ saved \in StatusRecord
  /\ cycleMu \in Thread \cup {"none"}
  /\ thread \in [Thread -> ThreadRecord]
  /\ loopState \in {"unborn", "select", "running", "done"}
  /\ canceled \in BOOLEAN
  /\ stop \in {"none", "waiting", "ok", "timeout"}
  /\ calls \in Nat
  /\ hist \in [began : Nat, failed : Nat, inARow : Nat, refused : BOOLEAN]

inCycle(t) == thread[t].pc \in StagePC
othersIdle == \A t \in Caller : thread[t].pc = "idle"

\* TestSchedulerNoOverlappingCycles: two calls of RunOnce are never both in
\* their stages, so collectors, rules and notifications of two cycles of one
\* agent do not interleave.
NoOverlap ==
  \A t, u \in Thread : inCycle(t) /\ inCycle(u) => t = u

\* docs/scheduler.md, "Safe fields include ... cycle counts, consecutive
\* failures": although Stop writes the status while a cycle is finishing, no
\* attempt and no failure is lost or counted twice.  A refused call is the
\* exception: it finishes outside cycleMu and may overwrite the other's counts.
CountersExact ==
  ~hist.refused =>
    /\ status.cycleCount = hist.began
    /\ status.failedCount = hist.failed
    /\ status.consecutive = hist.inARow

\* docs/scheduler.md, "scheduler-status persistence failure marks the cycle as
\* failed and does not update the last successful cycle time": the agent never
\* claims a success that the store does not hold (refused calls excepted).
SuccessIsStored ==
  /\ ~hist.refused
  /\ \A t \in Thread : thread[t].pc # "write"
  => status.lastSuccess = saved.lastSuccess

\* After Stop returned nil nothing of the scheduler runs any more: unless
\* someone else calls RunOnce, the status and the stored status stay as they
\* are, so the store can be closed.
QuietAfterStop ==
  [][stop = "ok" /\ othersIdle /\ othersIdle' =>
       UNCHANGED <<status, saved, thread, cycleMu>>]_vars

\* Once the context is done, the loop ends, whatever stage it is in.
CancelEndsLoop == (canceled /\ loopState # "unborn") ~> (loopState = "done")
=============================================================================
