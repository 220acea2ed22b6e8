------------------------------ MODULE AgentRun ------------------------------
(***************************************************************************)
(* RunInfrastructure (internal/agent/lifecycle.go): the main goroutine of  *)
(* "pooly-agent run" and the parts it starts and stops in order: the API   *)
(* server (internal/api/server.go), the scheduler (module Scheduler), the  *)
(* systemd notifier and watchdog (internal/systemdnotify) and the store.   *)
(*                                                                         *)
(* Each part has goroutines of its own: the serve loop and the requests of *)
(* the API, the scheduler's loop, the watchdog.  The context that a signal *)
(* ends is the parent of the scheduler's and the watchdog's, so one        *)
(* variable, canceled, stands for all three: Stop cancels only after it.   *)
(***************************************************************************)
EXTENDS Integers

CONSTANTS
  Caller, RunOnStart, MaxCycles,  \* see Scheduler
  APIEnabled,                     \* api.enabled
  WatchdogEnabled                 \* systemd.watchdog and WATCHDOG_USEC

ASSUME AgentRunAssumption ==
  /\ Caller \cap {"main", "loop", "none"} = {}
  /\ RunOnStart \in BOOLEAN
  /\ MaxCycles \in Nat
  /\ APIEnabled \in BOOLEAN
  /\ WatchdogEnabled \in BOOLEAN

VARIABLES
  status, saved, cycleMu, thread, loopState, canceled, stop, calls, hist,
  main,      \* where RunInfrastructure is
  api,       \* the API server
  request,   \* a request that reads the store: "none", "active"
  watchdog,  \* the watchdog goroutine: "none", "select", "write", "done"
  sent,      \* the last message systemd received, "" for none
  store,     \* "open", "closed"
  late       \* the waits that ended by timeout

Sch == INSTANCE Scheduler

scheduler == <<status, saved, cycleMu, thread, loopState, canceled, stop, calls,
               hist>>
parts == <<main, api, request, watchdog, sent, store, late>>
vars == <<scheduler, parts>>

MainPC == {"begin", "startAPI", "startScheduler", "inStart", "setReady",
           "notifyReady", "startWatchdog", "wait", "waitWatchdog",
           "setNotReady", "stopScheduler", "inStop", "notifyStopping",
           "shutdownAPI", "closeStore", "returned", "abort"}

APIState == {"off", "serving", "erring", "failed", "closed"}

Init ==
  /\ Sch!Init
  /\ main = "begin"
  /\ api = [state |-> "off", ready |-> FALSE, serveErr |-> FALSE]
  /\ request = "none"
  /\ watchdog = "none"
  /\ sent = ""
  /\ store = "open"
  /\ late = {}

(***************************************************************************)
(* The main goroutine, startup.                                            *)
(***************************************************************************)
\* A context that is already done ends the run, before anything is started.
Begin ==
  /\ main = "begin"
  /\ main' = IF canceled THEN "returned" ELSE "startAPI"
  /\ UNCHANGED <<scheduler, api, request, watchdog, sent, store, late>>

StartAPI ==
  /\ main = "startAPI"
  /\ \/ /\ ~APIEnabled
        /\ main' = "startScheduler"
        /\ UNCHANGED api
     \/ /\ APIEnabled                      \* ctx done, or listen failed
        /\ main' = "closeStore"
        /\ UNCHANGED api
     \/ /\ APIEnabled
        /\ ~canceled
        /\ main' = "startScheduler"
        /\ api' = [api EXCEPT !.state = "serving", !.serveErr = FALSE]
  /\ UNCHANGED <<scheduler, request, watchdog, sent, store, late>>

\* Scheduler.Start up to its run-on-start cycle, or its error.
StartScheduler ==
  /\ main = "startScheduler"
  /\ IF canceled
     THEN main' = "abort" /\ UNCHANGED scheduler
     ELSE main' = "inStart" /\ Sch!Start
  /\ UNCHANGED <<api, request, watchdog, sent, store, late>>

\* Mutated form: the cycle on start runs in the background.
StartReturnsAtOnce ==
  /\ main = "inStart"
  /\ main' = "setReady"
  /\ UNCHANGED <<scheduler, api, request, watchdog, sent, store, late>>

StartReturns ==
  /\ main = "inStart"
  /\ loopState # "unborn"
  /\ main' = "setReady"
  /\ UNCHANGED <<scheduler, api, request, watchdog, sent, store, late>>

SetReady ==
  /\ main = "setReady"
  /\ main' = "notifyReady"
  /\ api' = [api EXCEPT !.ready = APIEnabled]
  /\ UNCHANGED <<scheduler, request, watchdog, sent, store, late>>

\* Send refuses a context that is done; an error is only logged.
NotifyReady ==
  /\ main = "notifyReady"
  /\ main' = "startWatchdog"
  /\ \/ sent' = sent
     \/ ~canceled /\ sent' = "READY"
  /\ UNCHANGED <<scheduler, api, request, watchdog, store, late>>

StartWatchdog ==
  /\ main = "startWatchdog"
  /\ main' = "wait"
  /\ watchdog' = IF WatchdogEnabled THEN "select" ELSE "none"
  /\ UNCHANGED <<scheduler, api, request, sent, store, late>>

(***************************************************************************)
(* The main goroutine, shutdown.                                           *)
(***************************************************************************)
Wait ==
  /\ main = "wait"
  /\ canceled
  /\ main' = "waitWatchdog"
  /\ UNCHANGED <<scheduler, api, request, watchdog, sent, store, late>>

\* Mutated forms: the watchdog is cancelled but not waited for; it is waited
\* for without a timeout.
skipWatchdog ==
  /\ main = "waitWatchdog"
  /\ main' = "setNotReady"
  /\ UNCHANGED <<scheduler, api, request, watchdog, sent, store, late>>

waitForWatchdogForever ==
  /\ main = "waitWatchdog"
  /\ watchdog \in {"none", "done"}
  /\ main' = "setNotReady"
  /\ UNCHANGED <<scheduler, api, request, watchdog, sent, store, late>>

waitForWatchdog ==
  /\ main = "waitWatchdog"
  /\ main' = "setNotReady"
  /\ \/ watchdog \in {"none", "done"} /\ UNCHANGED late
     \/ watchdog \notin {"none", "done"} /\ late' = late \cup {"watchdog"}
  /\ UNCHANGED <<scheduler, api, request, watchdog, sent, store>>

SetNotReady ==
  /\ main = "setNotReady"
  /\ main' = "stopScheduler"
  /\ api' = [api EXCEPT !.ready = FALSE]
  /\ UNCHANGED <<scheduler, request, watchdog, sent, store, late>>

\* Mutated form: the scheduler is left to its context.
SkipStopScheduler ==
  /\ main = "stopScheduler"
  /\ main' = "notifyStopping"
  /\ UNCHANGED <<scheduler, api, request, watchdog, sent, store, late>>

StopScheduler ==
  /\ main = "stopScheduler"
  /\ main' = "inStop"
  /\ Sch!Stop
  /\ UNCHANGED <<api, request, watchdog, sent, store, late>>

StopSchedulerReturns ==
  /\ main = "inStop"
  /\ main' = "notifyStopping"
  /\ Sch!StopReturns
  /\ late' = IF stop' = "timeout" THEN late \cup {"scheduler"} ELSE late
  /\ UNCHANGED <<api, request, watchdog, sent, store>>

\* The background context is never done.
NotifyStopping ==
  /\ main = "notifyStopping"
  /\ main' = "shutdownAPI"
  /\ sent' \in {sent, "STOPPING"}
  /\ UNCHANGED <<scheduler, api, request, watchdog, store, late>>

\* Mutated form: the listener is closed, requests are not waited for.
CloseAPI ==
  /\ main \in {"shutdownAPI", "abort"}
  /\ main' = "closeStore"
  /\ api' = [api EXCEPT !.ready = FALSE,
                        !.state = IF @ = "serving" THEN "closed" ELSE @]
  /\ UNCHANGED <<scheduler, request, watchdog, sent, store, late>>

\* Shutdown, also on the error path: no new requests, and a wait for those
\* under way.
ShutdownAPI ==
  /\ main \in {"shutdownAPI", "abort"}
  /\ main' = "closeStore"
  /\ api' = [api EXCEPT !.ready = FALSE,
                        !.state = IF @ = "serving" THEN "closed" ELSE @]
  /\ \/ request = "none" /\ UNCHANGED late
     \/ request = "active" /\ late' = late \cup {"api"}
  /\ UNCHANGED <<scheduler, request, watchdog, sent, store>>

closeStore ==
  /\ main = "closeStore"
  /\ main' = "returned"
  /\ store' = "closed"
  /\ UNCHANGED <<scheduler, api, request, watchdog, sent, late>>

(***************************************************************************)
(* The other goroutines.                                                   *)
(***************************************************************************)
\* Serve returns an error: recordServeError lowers the flag, then keeps the
\* error.
ServeFails ==
  /\ api.state = "serving"
  /\ api' = [api EXCEPT !.state = "erring", !.ready = FALSE]
  /\ UNCHANGED <<scheduler, main, request, watchdog, sent, store, late>>

recordServeError ==
  /\ api.state = "erring"
  /\ api' = [api EXCEPT !.state = "failed", !.serveErr = TRUE]
  /\ UNCHANGED <<scheduler, main, request, watchdog, sent, store, late>>

RequestBegins ==
  /\ api.state = "serving"
  /\ request = "none"
  /\ request' = "active"
  /\ UNCHANGED <<scheduler, main, api, watchdog, sent, store, late>>

RequestEnds ==
  /\ request = "active"
  /\ request' = "none"
  /\ UNCHANGED <<scheduler, main, api, watchdog, sent, store, late>>

\* The ticker fires.  Send checks the context, dials, and writes later.
WatchdogTick ==
  /\ watchdog = "select"
  /\ ~canceled
  /\ watchdog' = "write"
  /\ UNCHANGED <<scheduler, main, api, request, sent, store, late>>

WatchdogWrite ==
  /\ watchdog = "write"
  /\ watchdog' = "select"
  /\ sent' \in {sent, "WATCHDOG"}
  /\ UNCHANGED <<scheduler, main, api, request, store, late>>

WatchdogExit ==
  /\ watchdog = "select"
  /\ canceled
  /\ watchdog' = "done"
  /\ UNCHANGED <<scheduler, main, api, request, sent, store, late>>

\* The scheduler's own steps.  A closed store refuses the status.
SchedulerStep(t) ==
  /\ Sch!RunOnceStep(t)
  /\ store = "closed" => saved' = saved
  /\ UNCHANGED parts

SchedulerTick == Sch!LoopTick /\ UNCHANGED parts
SchedulerExit == Sch!LoopExit /\ UNCHANGED parts

\* SIGINT or SIGTERM.
Signal == Sch!ParentCanceled /\ UNCHANGED parts

MainStep ==
  \/ Begin \/ StartAPI \/ StartScheduler \/ StartReturns \/ SetReady
  \/ NotifyReady \/ StartWatchdog \/ Wait \/ waitForWatchdog \/ SetNotReady
  \/ StopScheduler \/ StopSchedulerReturns \/ NotifyStopping \/ ShutdownAPI
  \/ closeStore

Next ==
  \/ MainStep
  \/ ServeFails \/ recordServeError \/ RequestBegins \/ RequestEnds
  \/ WatchdogTick \/ WatchdogWrite \/ WatchdogExit
  \/ \E t \in Sch!Thread : SchedulerStep(t)
  \/ SchedulerTick \/ SchedulerExit \/ Signal

Spec == Init /\ [][Next]_vars

(***************************************************************************)
(* Every wait of the main goroutine has a timeout, and the cycle it waits  *)
(* for inside Start runs under its deadline.                               *)
(***************************************************************************)
Fairness ==
  /\ WF_vars(MainStep)
  /\ \A t \in Sch!Thread : WF_vars(SchedulerStep(t))

FairSpec == Spec /\ Fairness

-----------------------------------------------------------------------------
\* The type of the parts.
TypeOK ==
  /\ Sch!TypeOK
  /\ main \in MainPC
  /\ api \in [state : APIState, ready : BOOLEAN, serveErr : BOOLEAN]
  /\ request \in {"none", "active"}
  /\ watchdog \in {"none", "select", "write", "done"}
  /\ sent \in {"", "READY", "WATCHDOG", "STOPPING"}
  /\ store \in {"open", "closed"}
  /\ late \subseteq {"watchdog", "scheduler", "api"}

cycleUnderWay == \E t \in Sch!Thread : thread[t].pc # "idle"

\* docs/run-lifecycle.md, "6. close storage": the store is closed under a cycle
\* or a request only if Stop or Shutdown gave up waiting for it.
StoreClosedLast ==
  store = "closed" =>
    /\ cycleUnderWay \/ loopState \in {"select", "running"}
         => "scheduler" \in late
    /\ request = "active" => "api" \in late

\* docs/scheduler.md, "startup waits for that first cycle to complete or fail
\* before readiness": neither the API nor systemd is told ready while the
\* run-on-start cycle is under way, or before the scheduler runs.
ReadyAfterFirstCycle ==
  api.ready \/ sent # "" =>
    /\ loopState # "unborn"
    /\ thread["main"].pc = "idle"
    /\ RunOnStart => hist.began + hist.failed >= 1

\* docs/systemd-readiness.md, "Watchdog notifications stop during shutdown":
\* after STOPPING=1 nothing is sent, unless the watchdog was given up on.
StoppingIsLast ==
  [][sent = "STOPPING" /\ sent' # "STOPPING" => "watchdog" \in late]_vars

\* After a signal RunInfrastructure returns, whatever part of the start it was
\* in and whoever does not answer.
SignalEndsRun == canceled ~> (main = "returned")

\* docs/security-hardening.md, "unexpected API `Serve` errors mark readiness
\* false": a server whose error is recorded is not ready.  SetReady(true) does
\* not look at the error of a server that failed while the scheduler started.
ServeErrorNotReady == api.serveErr => ~api.ready
=============================================================================
