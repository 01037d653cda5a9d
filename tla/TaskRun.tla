------------------------------ MODULE TaskRun ------------------------------
(***************************************************************************)
(* One task of "cirrus run": Executor.runSingleTask() on the host          *)
(* (internal/executor), the RPC handlers the agent calls                   *)
(* (internal/executor/rpc), the statuses they record (internal/executor/   *)
(* build) and the agent's command loop with its UpdateBatcher              *)
(* (internal/agent/executor).                                              *)
(*                                                                         *)
(* The agent runs in a container, or in one container after another when   *)
(* the task is a Docker Pipe.  An RPC attempt may fail before, while or    *)
(* after the server handles it, and the client retries it.  Agents crash,  *)
(* get signals and outlive a container whose deletion fails.               *)
(***************************************************************************)
EXTENDS Integers, Sequences, FiniteSets, FiniteSetsExt

CONSTANTS
    N,                      \* commands are numbered 1..N
    Shapes,                 \* the tasks considered, see Shape
    MaxFailures,            \* how many RPC attempts may fail
    HeartbeatTimeout,       \* whether --heartbeat-timeout is given
    HandlersOutliveAgent,   \* a request may be handled after its sender died
    DeletionFails           \* the backend may fail to delete a container

VARIABLES
    task,          \* the task being run: a member of Shapes
    hpc,           \* where runSingleTask() is
    status,        \* task.status, what SetStatus() stored
    recorded,      \* command.status of each command, on the host
    cause,         \* context.Cause() of the task's context
    elapsed,       \* task.Timeout has elapsed
    late,          \* the last heartbeat is older than e.heartbeatTimeout
    monitor,       \* the goroutine that watches heartbeats
    runErr,        \* what Instance.Run() returned
    sawFailure,    \* failedAtLeastOnce inside of task.Status()
    verdict,       \* the status that runSingleTask() acted upon
    ret,           \* what runSingleTask() returns
    stage,         \* the pipe stage, named by its first command
    agent,         \* where the agent is
    cur,           \* the command the agent is at
    failed,        \* the agent's failedAtLeastOnce
    timedOut,      \* the agent's timeoutCtx exceeded its deadline
    signalled,     \* the agent's context was cancelled by a signal
    unflushed,     \* ub.unflushedUpdates
    call,          \* updates that the current attempt's handler has to apply
    abandoned,     \* the same for attempts the client has given up on
    failures,      \* RPC attempts that failed
    result,        \* ghost: what really became of each command
    undelivered    \* ghost: failures an agent still had to report when it
                   \* went away

hostVars == <<hpc, status, runErr, sawFailure, verdict, ret>>
ctxVars == <<cause, elapsed, late, monitor>>
agentVars == <<stage, agent, cur, failed, timedOut, signalled>>
rpcVars == <<unflushed, call, abandoned, failures, undelivered>>
vars == <<task, hostVars, ctxVars, agentVars, rpcVars, recorded, result>>

Command == 1..N
Behaviour == {"ON_SUCCESS", "ON_FAILURE", "ALWAYS", "ON_TIMEOUT"}
Update == [name : Command,
           status : {"EXECUTING", "COMPLETED", "FAILED", "SKIPPED"}]
TaskStatus == {"New", "Succeeded", "Failed", "TimedOut", "Skipped"}

(* kind: what Instance is; behaviour: ExecutionBehaviour of each command;  *)
(* images: the commands with an image property, which start a stage of a   *)
(* pipe ({} in a plain container); clone: the first command named "clone", *)
(* or 0; exit: the commands with an exit instruction.                      *)
Shape == [kind : {"container", "prebuilt", "unsupported"},
          behaviour : [Command -> Behaviour],
          images : SUBSET Command,
          clone : 0..N,
          exit : SUBSET Command]

ASSUME TaskRunAssumption ==
    /\ N \in Nat
    /\ MaxFailures \in Nat
    /\ HeartbeatTimeout \in BOOLEAN
    /\ HandlersOutliveAgent \in BOOLEAN
    /\ DeletionFails \in BOOLEAN
    /\ Shapes \subseteq Shape

-----------------------------------------------------------------------------
(* The commands of a task and of a stage                                   *)

(* NewFromProto() removes the first clone instruction. *)
Commands == Command \ {task.clone}

(* PipeStagesFromCommands() cut the list, the clone instruction included,  *)
(* at every command with an image; BoundedCommands() looks the names up in *)
(* the list without it, and a name it does not find leaves the bound where *)
(* it was.                                                                 *)
CommandFrom == stage
CommandTo == Min({i \in task.images : i > stage} \cup {N + 1})
Left == IF CommandFrom \in Commands THEN CommandFrom ELSE 1
Right == IF CommandTo \in Commands THEN CommandTo ELSE N + 1

(* Mutant: the range is closed. *)
InStageClosed(c) == c \in Commands /\ Left <= c /\ c <= Right

InStage(c) == c \in Commands /\ Left <= c /\ c < Right

(* Mutant: the loop is off by one. *)
NextCommandSkipsOne(i) == i + 1

(* The first command of the stage at or after position i. *)
NextCommand(i) == Min({c \in Commands : c >= i /\ InStage(c)} \cup {N + 1})

FailedAtLeastOnce == \E c \in Commands : recorded[c] = "Failure"

(* Mutant: commands that always run are forgotten. *)
ComputedStatusNoAlways(sawFail) ==
    CASE \E c \in Commands :
            /\ recorded[c] = "Undefined"
            /\ \/ task.behaviour[c] = "ON_SUCCESS" /\ ~sawFail
               \/ task.behaviour[c] = "ON_FAILURE" /\ sawFail -> "New"
      [] OTHER -> IF sawFail THEN "Failed" ELSE "Succeeded"

(* The second half of task.Status(), given what FailedAtLeastOnce() said. *)
ComputedStatus(sawFail) ==
    CASE \E c \in Commands :
            /\ recorded[c] = "Undefined"
            /\ \/ task.behaviour[c] = "ON_SUCCESS" /\ ~sawFail
               \/ task.behaviour[c] = "ON_FAILURE" /\ sawFail
               \/ task.behaviour[c] = "ALWAYS" -> "New"
      [] OTHER -> IF sawFail THEN "Failed" ELSE "Succeeded"

Init ==
    /\ task \in Shapes
    /\ hpc = "starting"
    /\ status = "New" /\ verdict = "New"
    /\ recorded = [c \in Command |-> "Undefined"]
    /\ cause = "none" /\ elapsed = FALSE /\ late = FALSE /\ monitor = "off"
    /\ runErr = "none" /\ sawFailure = FALSE /\ ret = "nil"
    /\ stage = 1 /\ agent = "off" /\ cur = 1
    /\ failed = FALSE /\ timedOut = FALSE /\ signalled = FALSE
    /\ unflushed = <<>> /\ call = <<>> /\ abandoned = {} /\ failures = 0
    /\ undelivered = {}
    /\ result = [c \in Command |-> "none"]

-----------------------------------------------------------------------------
(* The host: from the first line of runSingleTask() to Instance.Run()      *)

(* The task needs another CPU, OS or kind of container than the host has. *)
SkipTask ==
    /\ hpc = "starting"
    /\ status' = "Skipped" /\ verdict' = "Skipped"
    /\ hpc' = "returned"
    /\ UNCHANGED <<task, runErr, sawFailure, ret, ctxVars, agentVars, rpcVars,
                   recorded, result>>

StartFails ==
    /\ hpc = "starting"
    /\ ret' = "err"
    /\ hpc' = "returned"
    /\ UNCHANGED <<task, status, runErr, sawFailure, verdict, ctxVars, agentVars,
                   rpcVars, recorded, result>>

Start ==
    /\ hpc = "starting"
    /\ hpc' = "running"
    /\ monitor' = IF HeartbeatTimeout THEN "watching" ELSE "off"
    /\ UNCHANGED <<task, status, runErr, sawFailure, verdict, ret, cause, elapsed,
                   late, agentVars, rpcVars, recorded, result>>

(* UnsupportedInstance.Run() *)
RunUnsupported ==
    /\ hpc = "running" /\ task.kind = "unsupported"
    /\ runErr' = "unsupported"
    /\ hpc' = "ran"
    /\ UNCHANGED <<task, status, sawFailure, verdict, ret, ctxVars, agentVars,
                   rpcVars, recorded, result>>

(* PrebuiltInstance.Run() found, pulled or built the image. *)
RunPrebuilt ==
    /\ hpc = "running" /\ task.kind = "prebuilt"
    /\ hpc' = "ran"
    /\ UNCHANGED <<task, status, runErr, sawFailure, verdict, ret, ctxVars,
                   agentVars, rpcVars, recorded, result>>

(* RunContainerizedAgent() up to ContainerStart(). *)
StartContainer ==
    /\ hpc = "running" /\ task.kind = "container"
    /\ agent = "off" /\ cause = "none"
    /\ agent' = "starting"
    /\ UNCHANGED <<task, hostVars, ctxVars, stage, cur, failed, timedOut,
                   signalled, rpcVars, recorded, result>>

(* ContainerWait() tells that the container exited, with whatever code:    *)
(* the pipe proceeds to its next stage.                                    *)
NextStage ==
    /\ hpc = "running" /\ agent = "exited"
    /\ CommandTo <= N
    /\ stage' = CommandTo
    /\ agent' = "off"
    /\ UNCHANGED <<task, hostVars, ctxVars, cur, failed, timedOut, signalled,
                   rpcVars, recorded, result>>

(* The container of the only, or of the last, stage exited. *)
RunSucceeds ==
    /\ hpc = "running" /\ agent = "exited"
    /\ CommandTo = N + 1
    /\ hpc' = "ran"
    /\ UNCHANGED <<task, status, runErr, sawFailure, verdict, ret, ctxVars,
                   agentVars, rpcVars, recorded, result>>

FailuresIn(updates) ==
    {c \in Command : \E i \in 1..Len(updates) :
        updates[i] = [name |-> c, status |-> "FAILED"]}

(* What becomes of the requests of an agent that is gone, and of what it   *)
(* had still to report.                                                    *)
LoseRequests ==
    /\ undelivered' = undelivered \cup FailuresIn(unflushed)
    /\ call' = <<>>
    /\ IF HandlersOutliveAgent
         THEN abandoned' = (abandoned \cup {call}) \ {<<>>}
         ELSE abandoned' = {}

(* Instance.Run() fails: no daemon, image or volume, an additional         *)
(* container failed, or the context is done.  The container is deleted     *)
(* before Run() returns, unless that fails as well.                        *)
RunFails ==
    /\ hpc = "running" /\ task.kind # "unsupported"
    /\ runErr' = "failed"
    /\ hpc' = "ran"
    /\ \/ /\ agent' = IF agent = "off" THEN "off" ELSE "exited"
          /\ LoseRequests
       \/ /\ DeletionFails
          /\ agent \notin {"off", "exited"}
          /\ UNCHANGED <<agent, call, abandoned, undelivered>>
    /\ UNCHANGED <<task, status, sawFailure, verdict, ret, ctxVars, stage, cur,
                   failed, timedOut, signalled, unflushed, failures, recorded,
                   result>>
-----------------------------------------------------------------------------
(* The host: after Instance.Run()                                          *)

(* The switch over the error of Run(); its first two cases look at the     *)
(* context, not at the error.  Every way out cancels the context.          *)
HandleRunError ==
    /\ hpc = "ran"
    /\ LET expired == cause \in {"noHeartbeats", "deadline"}
       IN \/ /\ runErr = "none"
             /\ hpc' = "status"
             /\ UNCHANGED <<status, ret>>
          \/ /\ runErr # "none" /\ expired
             /\ status' = "TimedOut" /\ hpc' = "status"
             /\ UNCHANGED ret
          \/ /\ runErr = "unsupported" /\ ~expired
             /\ status' = "Skipped" /\ hpc' = "status"
             /\ UNCHANGED ret
          \/ /\ runErr = "failed" /\ ~expired
             /\ ret' = "err" /\ hpc' = "closing"
             /\ UNCHANGED status
    /\ cause' = IF cause = "none" THEN "cancelled" ELSE cause
    /\ UNCHANGED <<task, runErr, sawFailure, verdict, elapsed, late, monitor,
                   agentVars, rpcVars, recorded, result>>

(* Mutant: a task that did not run is let pass. *)
ConcludeNewIsFine(st) ==
    /\ verdict' = st
    /\ ret' = IF st \in {"Succeeded", "Skipped", "New"} THEN "nil" ELSE "err"
    /\ hpc' = "closing"

(* The switch over task.Status(), whose result is st. *)
Conclude(st) ==
    /\ verdict' = st
    /\ ret' = IF st \in {"Succeeded", "Skipped"} THEN "nil" ELSE "err"
    /\ hpc' = "closing"

(* task.Status() when SetStatus() was called. *)
ExplicitStatus ==
    /\ hpc = "status" /\ status # "New"
    /\ Conclude(status)
    /\ UNCHANGED <<task, status, runErr, sawFailure, ctxVars, agentVars, rpcVars,
                   recorded, result>>

(* task.Status() otherwise: one pass over the commands, which takes their  *)
(* mutexes one by one, looks for a failure, ...                            *)
ScanFailures ==
    /\ hpc = "status" /\ status = "New"
    /\ sawFailure' = FailedAtLeastOnce
    /\ hpc' = "scanning"
    /\ UNCHANGED <<task, status, runErr, verdict, ret, ctxVars, agentVars, rpcVars,
                   recorded, result>>

(* ... and another one for commands that have yet to run. *)
ScanCommands ==
    /\ hpc = "scanning"
    /\ LET st == ComputedStatus(sawFailure)
       IN IF task.kind = "prebuilt" /\ st = "New"
            THEN Conclude("Succeeded") /\ status' = "Succeeded"
            ELSE Conclude(st) /\ UNCHANGED status
    /\ UNCHANGED <<task, runErr, sawFailure, ctxVars, agentVars, rpcVars,
                   recorded, result>>

(* The deferred Instance.Close(): its error only counts when there is no   *)
(* other.                                                                  *)
CloseInstance ==
    /\ hpc = "closing"
    /\ ret' \in {ret, "err"}
    /\ hpc' = "stopping"
    /\ UNCHANGED <<task, status, runErr, sawFailure, verdict, ctxVars, agentVars,
                   rpcVars, recorded, result>>

(* The deferred rpc.Stop(): GracefulStop() waits for the handlers,         *)
(* StreamLogs() of a running command included.  The stream of a background *)
(* script may keep it waiting as long as the agent lives, see Fairness.    *)
Stop ==
    /\ hpc = "stopping"
    /\ call = <<>> /\ abandoned = {} /\ agent # "step"
    /\ hpc' = "returned"
    /\ UNCHANGED <<task, status, runErr, sawFailure, verdict, ret, ctxVars,
                   agentVars, rpcVars, recorded, result>>

(* The RPC server accepts requests until GracefulStop() is called. *)
Serving == hpc \notin {"stopping", "returned"}

-----------------------------------------------------------------------------
(* The task's context and the heartbeat monitor                            *)

(* Mutant: the task's context has no timeout. *)
DeadlineIgnored ==
    /\ hpc \notin {"starting", "returned"} /\ ~elapsed
    /\ elapsed' = TRUE
    /\ UNCHANGED <<task, hostVars, cause, late, monitor, agentVars, rpcVars, recorded,
                   result>>

Deadline ==
    /\ hpc \notin {"starting", "returned"} /\ ~elapsed
    /\ elapsed' = TRUE
    /\ cause' = IF cause = "none" THEN "deadline" ELSE cause
    /\ UNCHANGED <<task, hostVars, late, monitor, agentVars, rpcVars, recorded,
                   result>>

(* The user interrupts "cirrus run". *)
Interrupt ==
    /\ hpc = "running" /\ cause = "none"
    /\ cause' = "cancelled"
    /\ UNCHANGED <<task, hostVars, elapsed, late, monitor, agentVars, rpcVars,
                   recorded, result>>

HeartbeatsLate ==
    /\ monitor = "watching" /\ hpc = "running" /\ ~late
    /\ late' = TRUE
    /\ UNCHANGED <<task, hostVars, cause, elapsed, monitor, agentVars, rpcVars,
                   recorded, result>>

(* The Heartbeat() handler. *)
Heartbeat ==
    /\ Serving /\ late
    /\ agent \notin {"off", "exited"}
    /\ late' = FALSE
    /\ UNCHANGED <<task, hostVars, cause, elapsed, monitor, agentVars, rpcVars,
                   recorded, result>>

(* An iteration of the monitor's loop: the break in its select statement   *)
(* leaves the select and not the loop.                                     *)
MonitorLoop ==
    /\ monitor = "watching"
    /\ cause' = IF late /\ cause = "none" THEN "noHeartbeats" ELSE cause
    /\ UNCHANGED <<task, hostVars, elapsed, late, monitor, agentVars, rpcVars,
                   recorded, result>>

-----------------------------------------------------------------------------
(* The agent                                                               *)

Alive == agent \notin {"off", "exited"}

Exits ==
    /\ agent' = "exited"
    /\ LoseRequests

(* Mutant: the agent is not told of earlier failures. *)
InitialCommandsForgetful ==
    /\ agent = "starting" /\ Serving
    /\ failed' = FALSE
    /\ cur' = NextCommand(Left)
    /\ timedOut' = FALSE /\ signalled' = FALSE
    /\ unflushed' = <<>>
    /\ agent' = "loop"
    /\ UNCHANGED <<task, hostVars, ctxVars, stage, call, abandoned, failures,
                   undelivered, recorded, result>>

(* RunBuild() up to its loop: InitialCommands() is retried until it        *)
(* succeeds.                                                               *)
InitialCommands ==
    /\ agent = "starting" /\ Serving
    /\ failed' = FailedAtLeastOnce
    /\ cur' = NextCommand(Left)
    /\ timedOut' = FALSE /\ signalled' = FALSE
    /\ unflushed' = <<>>
    /\ agent' = "loop"
    /\ UNCHANGED <<task, hostVars, ctxVars, stage, call, abandoned, failures,
                   undelivered, recorded, result>>

(* RunBuild() returns before its loop: a Vault value that cannot be        *)
(* unboxed, a working directory that cannot be entered, a signal.          *)
SetupFails ==
    /\ agent = "starting"
    /\ Exits
    /\ UNCHANGED <<task, hostVars, ctxVars, stage, cur, failed, timedOut,
                   signalled, unflushed, failures, recorded, result>>

ShouldRun(c) ==
    \/ task.behaviour[c] = "ON_SUCCESS" /\ ~failed
    \/ task.behaviour[c] = "ON_FAILURE" /\ failed
    \/ task.behaviour[c] = "ALWAYS"
    \/ task.behaviour[c] = "ON_TIMEOUT" /\ timedOut

Queue(c, st) == Append(unflushed, [name |-> c, status |-> st])

SkipCommand ==
    /\ agent = "loop" /\ cur <= N /\ ~ShouldRun(cur)
    /\ unflushed' = Queue(cur, "SKIPPED")
    /\ result' = [result EXCEPT ![cur] = "SKIPPED"]
    /\ cur' = NextCommand(cur + 1)
    /\ UNCHANGED <<task, hostVars, ctxVars, stage, agent, failed, timedOut,
                   signalled, call, abandoned, failures, undelivered, recorded>>

(* The RPC of Flush(): a server that is gone, or a cancelled context,      *)
(* leaves nothing to handle.                                               *)
Send(updates) ==
    call' = IF Serving /\ ~signalled THEN updates ELSE <<>>

ReportExecuting ==
    /\ agent = "loop" /\ cur <= N /\ ShouldRun(cur)
    /\ unflushed' = Queue(cur, "EXECUTING")
    /\ Send(unflushed')
    /\ agent' = "reporting"
    /\ UNCHANGED <<task, hostVars, ctxVars, stage, cur, failed, timedOut,
                   signalled, abandoned, failures, undelivered, recorded,
                   result>>

(* The Flush() after the loop. *)
FinalFlush ==
    /\ agent = "loop" /\ cur = N + 1 /\ unflushed # <<>>
    /\ Send(unflushed)
    /\ agent' = "reporting"
    /\ UNCHANGED <<task, hostVars, ctxVars, stage, cur, failed, timedOut,
                   signalled, unflushed, abandoned, failures, undelivered,
                   recorded, result>>

(* Where RunBuild() goes after a Flush(): performStep(), or the end. *)
AfterFlush ==
    agent' = IF cur <= N THEN "step" ELSE "finishing"

FlushSucceeds ==
    /\ agent = "reporting" /\ call = <<>> /\ Serving /\ ~signalled
    /\ unflushed' = <<>>
    /\ AfterFlush
    /\ UNCHANGED <<task, hostVars, ctxVars, stage, cur, failed, timedOut,
                   signalled, call, abandoned, failures, undelivered, recorded,
                   result>>

(* An attempt is lost, or its handler is still busy while the client has   *)
(* given up on it.                                                         *)
Abandon ==
    \/ abandoned' = (abandoned \cup {call}) \ {<<>>}
    \/ call # <<>> /\ UNCHANGED abandoned

(* The interceptor of the client retries an attempt. *)
RetryAttempt ==
    /\ agent = "reporting" /\ Serving /\ ~signalled
    /\ failures < MaxFailures
    /\ failures' = failures + 1
    /\ Abandon
    /\ call' = unflushed
    /\ UNCHANGED <<task, hostVars, ctxVars, agentVars, unflushed, undelivered,
                   recorded, result>>

(* Mutant: the batch is dropped whatever the answer is. *)
FlushFailsDrops ==
    /\ agent = "reporting"
    /\ \/ failures < MaxFailures /\ failures' = failures + 1
       \/ (signalled \/ ~Serving) /\ UNCHANGED failures
    /\ Abandon
    /\ call' = <<>>
    /\ AfterFlush
    /\ unflushed' = <<>>
    /\ UNCHANGED <<task, hostVars, ctxVars, stage, cur, failed, timedOut,
                   signalled, undelivered, recorded, result>>

(* ReportCommandUpdates() returned an error: the updates stay unflushed.   *)
FlushFails ==
    /\ agent = "reporting"
    /\ \/ failures < MaxFailures /\ failures' = failures + 1
       \/ (signalled \/ ~Serving) /\ UNCHANGED failures
    /\ Abandon
    /\ call' = <<>>
    /\ AfterFlush
    /\ UNCHANGED <<task, hostVars, ctxVars, stage, cur, failed, timedOut,
                   signalled, unflushed, undelivered, recorded, result>>

(* performStep() returned a result, which is queued. *)
Step(st) ==
    /\ agent = "step" /\ cur \notin task.exit
    /\ result' = [result EXCEPT ![cur] = st]
    /\ unflushed' = Queue(cur, st)
    /\ failed' = (failed \/ st = "FAILED")
    /\ cur' = NextCommand(cur + 1)
    /\ agent' = "loop"
    /\ UNCHANGED <<task, hostVars, ctxVars, stage, timedOut, signalled, call,
                   abandoned, failures, undelivered, recorded>>

StepCompletes == Step("COMPLETED")
StepFails == Step("FAILED")

(* An exit instruction: RunBuild() returns at once. *)
StepExits ==
    /\ agent = "step" /\ cur \in task.exit
    /\ Exits
    /\ UNCHANGED <<task, hostVars, ctxVars, stage, cur, failed, timedOut,
                   signalled, unflushed, failures, recorded, result>>

(* The end of RunBuild(): ReportAgentFinished() carries ub.History(), and   *)
(* its handler does nothing.  It may fail, twice.                          *)
AgentFinishes ==
    /\ \/ agent = "finishing"
       \/ agent = "loop" /\ cur = N + 1 /\ unflushed = <<>>
    /\ Exits
    /\ UNCHANGED <<task, hostVars, ctxVars, stage, cur, failed, timedOut,
                   signalled, unflushed, failures, recorded, result>>

(* The agent's timeoutCtx has the same duration as the host's context and  *)
(* was created later.                                                      *)
AgentDeadline ==
    /\ agent \in {"loop", "reporting", "step"}
    /\ elapsed /\ ~timedOut /\ ~signalled
    /\ timedOut' = TRUE
    /\ UNCHANGED <<task, hostVars, ctxVars, stage, agent, cur, failed, signalled,
                   rpcVars, recorded, result>>

(* SIGINT or SIGTERM *)
Signal ==
    /\ agent \in {"loop", "reporting", "step"} /\ ~signalled
    /\ signalled' = TRUE
    /\ UNCHANGED <<task, hostVars, ctxVars, stage, agent, cur, failed, timedOut,
                   rpcVars, recorded, result>>

(* The agent is killed or panics. *)
Crash ==
    /\ Alive
    /\ Exits
    /\ UNCHANGED <<task, hostVars, ctxVars, stage, cur, failed, timedOut,
                   signalled, unflushed, failures, recorded, result>>

-----------------------------------------------------------------------------
(* The handler of ReportCommandUpdates(), one update at a time             *)

(* Mutant: a command that started counts as done. *)
RecordEager(u) ==
    recorded' = [recorded EXCEPT ![u.name] =
                    IF u.status = "FAILED" THEN "Failure" ELSE "Success"]

Record(u) ==
    recorded' =
      CASE u.status \in {"COMPLETED", "SKIPPED"} ->
             [recorded EXCEPT ![u.name] = "Success"]
        [] u.status = "FAILED" -> [recorded EXCEPT ![u.name] = "Failure"]
        [] OTHER -> recorded

HandleUpdate ==
    /\ hpc # "returned"
    /\ \/ /\ call # <<>>
          /\ Record(Head(call))
          /\ call' = Tail(call)
          /\ UNCHANGED abandoned
       \/ \E a \in abandoned :
             /\ Record(Head(a))
             /\ abandoned' = ((abandoned \ {a}) \cup {Tail(a)}) \ {<<>>}
             /\ UNCHANGED call
    /\ UNCHANGED <<task, hostVars, ctxVars, agentVars, unflushed, failures,
                   undelivered, result>>

Host == SkipTask \/ StartFails \/ Start \/ RunUnsupported \/ RunPrebuilt
        \/ StartContainer \/ NextStage \/ RunSucceeds \/ RunFails
        \/ HandleRunError \/ ExplicitStatus \/ ScanFailures \/ ScanCommands
        \/ CloseInstance \/ Stop
Environment == Deadline \/ Interrupt \/ HeartbeatsLate \/ Heartbeat
               \/ AgentDeadline \/ Signal \/ Crash
Agent == InitialCommands \/ SetupFails \/ SkipCommand \/ ReportExecuting
         \/ FinalFlush \/ FlushSucceeds \/ RetryAttempt \/ FlushFails
         \/ StepCompletes \/ StepFails \/ StepExits \/ AgentFinishes

(* Nothing is left to do once the task and its agent are gone. *)
Terminated ==
    /\ hpc = "returned" /\ ~Alive
    /\ UNCHANGED vars

Next == Host \/ MonitorLoop \/ Environment \/ Agent \/ HandleUpdate \/ Terminated

Spec == Init /\ [][Next]_vars

(* Time passes, instances notice that their context is done, processes     *)
(* take their steps and scripts die with their context.  A script, or an   *)
(* image build, may otherwise take forever, and the agent of a container   *)
(* that was not deleted may keep a log stream open until it has finished.  *)
Fairness ==
    /\ WF_vars(SkipTask \/ StartFails \/ Start)
    /\ WF_vars(RunUnsupported) /\ WF_vars(StartContainer)
    /\ WF_vars(NextStage \/ RunSucceeds)
    /\ WF_vars(cause # "none" /\ RunFails)
    /\ WF_vars(HandleRunError)
    /\ WF_vars(ExplicitStatus \/ ScanFailures \/ ScanCommands)
    /\ WF_vars(CloseInstance)
    /\ WF_vars(agent \in {"off", "starting", "exited"} /\ Stop)
    /\ WF_vars(Deadline) /\ WF_vars(AgentDeadline)
    /\ WF_vars(HandleUpdate)
    /\ WF_vars(FlushSucceeds \/ FlushFails)
    /\ WF_vars(SkipCommand \/ ReportExecuting \/ FinalFlush \/ AgentFinishes)
    /\ WF_vars(StepExits)
    /\ WF_vars((timedOut \/ signalled) /\ StepFails)

FairSpec == Spec /\ Fairness

-----------------------------------------------------------------------------
(* Properties                                                              *)

UpdateSeq == Seq(Update)

TypeOK ==
    /\ task \in Shapes
    /\ hpc \in {"starting", "running", "ran", "status", "scanning", "closing",
               "stopping", "returned"}
    /\ status \in TaskStatus /\ verdict \in TaskStatus
    /\ recorded \in [Command -> {"Undefined", "Success", "Failure"}]
    /\ cause \in {"none", "deadline", "noHeartbeats", "cancelled"}
    /\ elapsed \in BOOLEAN /\ late \in BOOLEAN
    /\ monitor \in {"off", "watching"}
    /\ runErr \in {"none", "failed", "unsupported"}
    /\ sawFailure \in BOOLEAN /\ ret \in {"nil", "err"}
    /\ stage \in 1..(N + 1)
    /\ agent \in {"off", "starting", "loop", "reporting", "step", "finishing",
                 "exited"}
    /\ cur \in 1..(N + 1)
    /\ failed \in BOOLEAN /\ timedOut \in BOOLEAN /\ signalled \in BOOLEAN
    /\ unflushed \in UpdateSeq /\ call \in UpdateSeq
    /\ abandoned \subseteq UpdateSeq
    /\ failures \in 0..MaxFailures
    /\ result \in [Command -> {"none", "COMPLETED", "FAILED", "SKIPPED"}]
    /\ undelivered \subseteq Command

(* Whatever attempts were lost, repeated or handled after a later one, the *)
(* status the host recorded for a command is what became of it.            *)
RecordedIsTrue ==
    \A c \in Command :
        /\ recorded[c] = "Failure" => result[c] = "FAILED"
        /\ recorded[c] = "Success" => result[c] \in {"COMPLETED", "SKIPPED"}

SameStage(c, d) == ~\E i \in task.images : c < i /\ i <= d

(* The host never learns of a command before it learned of all commands    *)
(* that precede it in its stage: a batch whose report failed is sent again *)
(* in front of the updates queued since.                                   *)
NoGaps ==
    \A c, d \in Commands :
        (c < d /\ SameStage(c, d) /\ recorded[d] # "Undefined")
            => recorded[c] # "Undefined"

(* Tasks with a later stage that begins with the clone instruction which   *)
(* NewFromProto() removes.  BoundedCommands() finds neither the end of the *)
(* stage before it nor its own beginning, and the stages overlap.          *)
StagesOverlap == task.clone \in task.images /\ task.clone > 1

(* A task in a container whose stages do not overlap is only found to have *)
(* succeeded when every command that was to run has run and completed.     *)
SuccessIsEarned ==
    (verdict = "Succeeded" /\ task.kind = "container" /\ ~StagesOverlap) =>
        \A c \in Commands :
            task.behaviour[c] \in {"ON_SUCCESS", "ALWAYS"}
                => result[c] = "COMPLETED"

(* When runSingleTask() returns no error, Status() keeps saying that the   *)
(* task is over and well: GetNextTask() will not pick it again.            *)
VerdictStands ==
    (hpc = "returned" /\ ret = "nil") =>
        \/ status \in {"Succeeded", "Skipped"}
        \/ status = "New" /\ ComputedStatus(FailedAtLeastOnce) = "Succeeded"

(* No agent runs an ON_SUCCESS command after a command has really failed,  *)
(* in its own stage or in an earlier one, unless the agent of that earlier *)
(* stage went away with the failure still to report: it crashed, came to   *)
(* an exit instruction or could not deliver its last batch, and the pipe   *)
(* went on (ContainerWait() with whatever code).  Failures that were       *)
(* delivered reach the next agent through InitialCommands(), whatever      *)
(* attempts were lost, repeated or handled late.                           *)
NoSuccessAfterFailure ==
    (agent = "step" /\ task.behaviour[cur] = "ON_SUCCESS") =>
        \A c \in Commands : result[c] = "FAILED" =>
            c \in undelivered /\ ~InStage(c)

(* No command is run, or skipped, twice by one agent or by the agents of   *)
(* two stages, except where the stages overlap, and there only by the      *)
(* agent of a later stage.                                                 *)
RunOnce ==
    [][\A c \in Command : result[c] # "none" /\ result'[c] # result[c] =>
            StagesOverlap /\ stage > 1]_vars

(* runSingleTask() returns, though scripts may hang and containers may     *)
(* survive their deletion.                                                 *)
Returns == <>(hpc = "returned")

=============================================================================
