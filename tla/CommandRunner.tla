--------------------------- MODULE CommandRunner ---------------------------
(***************************************************************************)
(* One call of command.Run (command/runner.go): the caller, the goroutines *)
(* that copy the two output streams, the child process and a descendant of *)
(* it that may outlive it and hold its pipes.                              *)
(*                                                                         *)
(* Output is counted in chunks; it is the number of chunks that matters to *)
(* limits and pipes.  The child writes what it likes, ends when it likes,  *)
(* or never.                                                               *)
(***************************************************************************)
EXTENDS Integers, FiniteSets

CONSTANTS
  Limit,      \* MaxStdout and MaxStderr
  PipeSize,   \* chunks that fit into a pipe
  MaxOutput   \* bound on the chunks written to a stream

ASSUME CommandAssumption ==
  Limit \in Nat \ {0} /\ PipeSize \in Nat \ {0} /\ MaxOutput \in Nat

VARIABLES
  timed,     \* spec.Timeout > 0
  parent,    \* ctx.Err()
  deadline,  \* timeoutCtx.Err()
  canceled,  \* cancelRun has been called
  child,     \* the process
  heir,      \* a descendant: gone, in the process group, or outside of it
  written,   \* chunks written to each stream
  pipe,      \* chunks in each pipe
  buffer,    \* chunks in each limitedBuffer
  copier,    \* the copyStream goroutines
  caller,    \* where Run is
  waitErr,   \* what Wait has returned
  class      \* the error class of the result

commandCtx == <<timed, parent, deadline>>
commandOut == <<written, pipe, buffer, copier>>
commandVars == <<commandCtx, canceled, child, heir, commandOut, caller,
                 waitErr, class>>

Stream == {"stdout", "stderr"}
ContextErr == {"none", "canceled", "deadline"}

ErrorClass == {"", "validation", "missing_executable", "start_failed",
               "non_zero_exit", "timeout", "canceled", "output_limit"}

CommandInit ==
  /\ timed \in BOOLEAN
  /\ parent = "none"
  /\ deadline = "none"
  /\ canceled = FALSE
  /\ child = "none"
  /\ heir = "gone"
  /\ written = [s \in Stream |-> 0]
  /\ pipe = [s \in Stream |-> 0]
  /\ buffer = [s \in Stream |-> 0]
  /\ copier = [s \in Stream |-> "none"]
  /\ caller = "called"
  /\ waitErr = FALSE
  /\ class = ""

(***************************************************************************)
(* The contexts.  timeoutCtx ends with its parent or by its own timer.     *)
(***************************************************************************)
ParentDone ==
  /\ parent = "none"
  /\ parent' \in {"canceled", "deadline"}
  /\ deadline' = IF deadline = "none" THEN parent' ELSE deadline
  /\ UNCHANGED <<timed, canceled, child, heir, commandOut, caller, waitErr,
                 class>>

TimerFires ==
  /\ timed /\ caller # "called"
  /\ deadline = "none"
  /\ deadline' = "deadline"
  /\ UNCHANGED <<timed, parent, canceled, child, heir, commandOut, caller,
                 waitErr, class>>

classifyContextError(err) == IF err = "deadline" THEN "timeout" ELSE "canceled"

(***************************************************************************)
(* Run, up to the start of the process.                                    *)
(***************************************************************************)
\* A specification that is refused, an ended context, a program that is not
\* there or does not start (a context that ends after it was looked at is a
\* failed start).
refuse ==
  /\ caller = "called"
  /\ caller' = "returned"
  /\ class' \in {"validation", "missing_executable", "start_failed"} \cup
       IF parent = "none" THEN {} ELSE {classifyContextError(parent)}
  /\ UNCHANGED <<commandCtx, canceled, child, heir, commandOut, waitErr>>

Start ==
  /\ caller = "called"
  /\ parent = "none"
  /\ caller' = "wait"
  /\ child' = "running"
  /\ copier' = [s \in Stream |-> "copying"]
  /\ UNCHANGED <<commandCtx, canceled, heir, written, pipe, buffer, waitErr,
                 class>>

(***************************************************************************)
(* The child.                                                              *)
(***************************************************************************)
writers == (IF child = "running" THEN {"child"} ELSE {}) \cup
           (IF heir # "gone" THEN {"heir"} ELSE {})

\* Into pipes that are open on the other side.
ChildWrites(s) ==
  /\ writers # {}
  /\ caller = "wait"
  /\ written[s] < MaxOutput
  /\ pipe[s] < PipeSize
  /\ written' = [written EXCEPT ![s] = @ + 1]
  /\ pipe' = [pipe EXCEPT ![s] = @ + 1]
  /\ UNCHANGED <<commandCtx, canceled, child, heir, buffer, copier, caller,
                 waitErr, class>>

ChildForks ==
  /\ child = "running" /\ heir = "gone"
  /\ heir' \in {"in group", "outside"}
  /\ UNCHANGED <<commandCtx, canceled, child, commandOut, caller, waitErr,
                 class>>

ChildExits ==
  /\ child = "running"
  /\ child' \in {"exited", "failed"}
  /\ UNCHANGED <<commandCtx, canceled, heir, commandOut, caller, waitErr,
                 class>>

HeirExits ==
  /\ heir # "gone"
  /\ heir' = "gone"
  /\ UNCHANGED <<commandCtx, canceled, child, commandOut, caller, waitErr,
                 class>>

\* cmd.Cancel, called by os/exec when runCtx has ended.
terminateCommandProcessGroup ==
  /\ canceled \/ deadline # "none"
  /\ child = "running"
  /\ child' = "killed"
  /\ heir' = IF heir = "in group" THEN "gone" ELSE heir
  /\ UNCHANGED <<commandCtx, canceled, commandOut, caller, waitErr, class>>

(***************************************************************************)
(* copyStream.                                                             *)
(***************************************************************************)
\* Mutated form: the command goes on when the limit is exceeded.
copyStreamGoesOn(s) ==
  /\ copier[s] = "copying"
  /\ \E n \in 1..pipe[s] :
       LET room == Limit - buffer[s]
       IN /\ pipe' = [pipe EXCEPT ![s] = @ - n]
          /\ buffer' = [buffer EXCEPT ![s] = @ + IF n > room THEN room ELSE n]
          /\ copier' = [copier EXCEPT ![s] =
               IF n > room THEN "exceeded" ELSE "copying"]
          /\ canceled' = canceled
  /\ UNCHANGED <<commandCtx, child, heir, written, caller, waitErr, class>>

\* Mutated form: the buffer takes all of the chunk that exceeds the limit.
copyStreamKeepsAll(s) ==
  /\ copier[s] = "copying"
  /\ \E n \in 1..pipe[s] :
       LET room == Limit - buffer[s]
       IN /\ pipe' = [pipe EXCEPT ![s] = @ - n]
          /\ buffer' = [buffer EXCEPT ![s] = @ + n]
          /\ copier' = [copier EXCEPT ![s] =
               IF n > room THEN "exceeded" ELSE "copying"]
          /\ canceled' = (canceled \/ n > room)
  /\ UNCHANGED <<commandCtx, child, heir, written, caller, waitErr, class>>

\* A read of what is there, and limitedBuffer.Write.
copyStream(s) ==
  /\ copier[s] = "copying"
  /\ \E n \in 1..pipe[s] :
       LET room == Limit - buffer[s]
       IN /\ pipe' = [pipe EXCEPT ![s] = @ - n]
          /\ buffer' = [buffer EXCEPT ![s] = @ + IF n > room THEN room ELSE n]
          /\ copier' = [copier EXCEPT ![s] =
               IF n > room THEN "exceeded" ELSE "copying"]
          /\ canceled' = (canceled \/ n > room)
  /\ UNCHANGED <<commandCtx, child, heir, written, caller, waitErr, class>>

endOfStream(s) ==
  /\ copier[s] = "copying"
  /\ pipe[s] = 0 /\ writers = {}
  /\ copier' = [copier EXCEPT ![s] = "done"]
  /\ UNCHANGED <<commandCtx, canceled, child, heir, written, pipe, buffer,
                 caller, waitErr, class>>

(***************************************************************************)
(* Run, from Wait on.                                                      *)
(***************************************************************************)
\* Wait returns when the process has ended, and closes the pipes, whether
\* they have been read or not: a reader that is not through gets os.ErrClosed,
\* which firstCopyError passes over.  A pipe gives no other error.
Wait ==
  /\ caller = "wait"
  /\ child \in {"exited", "failed", "killed"}
  /\ caller' = "classify"
  /\ waitErr' \in BOOLEAN
  /\ child # "exited" => waitErr'
  /\ waitErr' => child # "exited" \/ canceled \/ deadline # "none"
  /\ copier' = [s \in Stream |->
       IF copier[s] = "copying" THEN "closed" ELSE copier[s]]
  /\ UNCHANGED <<commandCtx, canceled, child, heir, written, pipe, buffer,
                 class>>

classifyWaitError ==
  CASE "deadline" \in {deadline, parent} -> "timeout"
    [] "deadline" \notin {deadline, parent} /\ "canceled" \in {deadline, parent} ->
         "canceled"
    [] {deadline, parent} = {"none"} ->
         IF child = "exited" THEN "start_failed" ELSE "non_zero_exit"

\* Mutated form: an exceeded limit counts only when Wait failed.
finishRunTrustsWait ==
  /\ caller = "classify"
  /\ caller' = "returned"
  /\ class' = IF waitErr /\ \E s \in Stream : copier[s] = "exceeded"
                THEN "output_limit"
              ELSE IF waitErr THEN classifyWaitError
              ELSE IF deadline # "none" THEN classifyContextError(deadline)
              ELSE ""
  /\ UNCHANGED <<commandCtx, canceled, child, heir, commandOut, waitErr>>

finishRun ==
  /\ caller = "classify"
  /\ caller' = "returned"
  /\ class' = IF \E s \in Stream : copier[s] = "exceeded" THEN "output_limit"
              ELSE IF waitErr THEN classifyWaitError
              ELSE IF deadline # "none" THEN classifyContextError(deadline)
              ELSE ""
  /\ UNCHANGED <<commandCtx, canceled, child, heir, commandOut, waitErr>>

childSteps ==
  \/ ChildForks
  \/ ChildExits
  \/ HeirExits
  \/ \E s \in Stream : ChildWrites(s)
copierSteps == \E s \in Stream : copyStream(s) \/ endOfStream(s)
runSteps == refuse \/ Start \/ Wait \/ finishRun

CommandNext ==
  \/ ParentDone
  \/ TimerFires
  \/ runSteps
  \/ childSteps
  \/ terminateCommandProcessGroup
  \/ copierSteps

\* Goroutines run, a timer fires, a killed process ends.  The child owes
\* nothing.
CommandFairness ==
  /\ WF_commandVars(runSteps)
  /\ WF_commandVars(TimerFires)
  /\ WF_commandVars(terminateCommandProcessGroup)
  /\ \A s \in Stream : WF_commandVars(copyStream(s) \/ endOfStream(s))

CommandSpec == CommandInit /\ [][CommandNext]_commandVars /\ CommandFairness

(***************************************************************************)
(* Properties.                                                             *)
(***************************************************************************)
CommandTypeOK ==
  /\ timed \in BOOLEAN /\ canceled \in BOOLEAN /\ waitErr \in BOOLEAN
  /\ parent \in ContextErr /\ deadline \in ContextErr
  /\ child \in {"none", "running", "exited", "failed", "killed"}
  /\ heir \in {"gone", "in group", "outside"}
  /\ written \in [Stream -> 0..MaxOutput]
  /\ pipe \in [Stream -> 0..PipeSize]
  /\ buffer \in [Stream -> 0..Limit]
  /\ copier \in [Stream -> {"none", "copying", "done", "exceeded", "closed"}]
  /\ caller \in {"called", "wait", "classify", "returned"}
  /\ class \in ErrorClass

\* "Keep timeout, cancellation, and output-limit classes distinct"
\* (docs/security-hardening.md:35): however the child, the readers, the kill and
\* the contexts race, each class names what happened.  A success is an exit with
\* status zero, with all of the output unless Wait closed a pipe first (runner.go
\* 107); the limit is blamed for more output than the limit, of which that much
\* is kept, and a context for having ended; a child that has started is not told
\* to have failed to start (runner.go 103-150, 162-227).
ResultIsTrue ==
  caller = "returned" =>
    /\ class = "" =>
         /\ child = "exited"
         /\ \A s \in Stream :
              copier[s] = "closed" \/ (copier[s] = "done" /\ buffer[s] = written[s])
    /\ class = "output_limit" =>
         \E s \in Stream : buffer[s] = Limit /\ written[s] > Limit
    /\ class = "timeout" => "deadline" \in {parent, deadline}
    /\ class = "canceled" => "canceled" \in {parent, deadline}
    /\ class \in {"validation", "missing_executable", "start_failed"} =>
         child = "none"
    /\ class = "non_zero_exit" => child \in {"failed", "killed"}

\* A command ends when its time is up, and without a timeout when its output
\* is over the limit: nobody waits for ever for a child that waits for room
\* in a pipe that is not read any more, nor for a descendant that keeps a
\* pipe open (runner.go 66-109, 195-203).
CommandEnds ==
  (/\ caller = "wait"
   /\ timed \/ \E s \in Stream : copier[s] = "exceeded")
    ~> caller = "returned"
=============================================================================
