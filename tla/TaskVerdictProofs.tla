-------------------------- MODULE TaskVerdictProofs --------------------------
(***************************************************************************)
(* Proofs about the verdict of TaskRun: what runSingleTask() concludes     *)
(* from the statuses it finds.                                             *)
(*                                                                         *)
(* Those about the verdict itself need that handlers do not outlive their  *)
(* agent (~HandlersOutliveAgent), since Status() may otherwise read what a *)
(* request of a dead agent is about to overwrite, see the violation of     *)
(* SuccessIsEarned: then nothing is recorded once the agent is gone.       *)
(* FailuresAreKnown does without.                                          *)
(***************************************************************************)
EXTENDS TaskRunProofs

(* Where runSingleTask() is and what it has set. *)
HostControl ==
    /\ hpc \in {"starting", "running", "ran", "status", "scanning"} =>
         verdict = "New" /\ ret = "nil"
    /\ hpc \in {"starting", "running", "ran", "scanning"} => status = "New"
    /\ hpc = "status" => status \in {"New", "TimedOut", "Skipped"}
    /\ hpc \in {"starting", "running"} => runErr = "none"
    /\ hpc \in {"status", "scanning"} /\ status = "New" => runErr = "none"

(* Instance.Run() returns no error only after the last container exited. *)
AgentDone ==
    hpc \in {"ran", "status", "scanning"} /\ runErr = "none" =>
        agent \in {"off", "exited"}

(* What the first pass of Status() found still holds in its second one. *)
ScanIsCurrent == hpc = "scanning" => sawFailure = FailedAtLeastOnce

(* The requests of an agent go with it. *)
Silent == agent \in {"off", "starting", "exited"}
RequestsGone == Silent => call = <<>> /\ abandoned = {}
NoAgent == task.kind # "container" => agent = "off"

HostState ==
    HostControl /\ AgentDone /\ ScanIsCurrent /\ RequestsGone /\ NoAgent

(* What a verdict without an error rests on stays as it is. *)
VerdictKept ==
    hpc \in {"closing", "stopping", "returned"} /\ ret = "nil" =>
        \/ status \in {"Succeeded", "Skipped"}
        \/ /\ status = "New" /\ agent \in {"off", "exited"}
           /\ ComputedStatus(FailedAtLeastOnce) = "Succeeded"

IndVerdict == HostState /\ VerdictKept

(* A failure that the host knows, or will be told of in this stage. *)
FailureBefore(c) ==
    \/ FailedAtLeastOnce
    \/ \E d \in Earlier(task, c) : result[d] = "FAILED"

(* The agent only skips what the behaviour of a command lets it skip, and  *)
(* believes in a failure only where there was one.                         *)
SkippedForCause ==
    \A c \in Commands : result[c] = "SKIPPED" =>
        /\ task.behaviour[c] # "ALWAYS"
        /\ task.behaviour[c] = "ON_SUCCESS" => FailureBefore(c)
FailedForCause ==
    Looping /\ failed =>
        \/ FailedAtLeastOnce
        \/ \E d \in Commands : InStage(d) /\ d < cur /\ result[d] = "FAILED"

IndSuccess ==
    /\ HostState
    /\ StagesApart => IndGaps /\ SkippedForCause /\ FailedForCause
    /\ SuccessIsEarned

(* A real failure is known to the host, or the agent will report it, or    *)
(* went away with it.                                                      *)
Works == agent \in {"loop", "reporting", "step", "finishing"}
FailuresAccounted ==
    \A c \in Command : result[c] = "FAILED" =>
        \/ recorded[c] = "Failure"
        \/ c \in undelivered
        \/ Works /\ c \in FailuresIn(unflushed)

(* An agent that knows of no failure: there is none but those of earlier   *)
(* stages that went away with their agents.                                *)
FailuresKnown ==
    /\ Looping /\ ~failed =>
         \A c \in Commands : result[c] = "FAILED" =>
            c \in undelivered /\ c < stage
    /\ agent \in {"reporting", "step"} /\ cur <= N
         /\ task.behaviour[cur] = "ON_SUCCESS" => ~failed
IndFailure == IndGaps /\ FailuresAccounted /\ FailuresKnown

-----------------------------------------------------------------------------
(* The host and the requests of an agent that is gone                      *)

(* Nothing is recorded while no agent reports. *)
LEMMA NothingRecorded ==
    ASSUME HostState, Silent, [Next]_vars
    PROVE  UNCHANGED <<task, recorded>>
<1>1. call = <<>> /\ abandoned = {}
  BY DEF HostState, RequestsGone
<1>2. ~HandleUpdate
  BY <1>1 DEF HandleUpdate
<1>3. CoreStep /\ ~HandleUpdate => UNCHANGED <<task, recorded>>
  BY DEF CoreStep, core, AgentGone, StartContainer, NextStage, InitialCommands,
         SkipCommand, ReportExecuting, FinalFlush, FlushSucceeds, RetryAttempt,
         FlushFails, StepCompletes, StepFails, Step
<1> QED BY <1>2, <1>3, CoreSteps

LEMMA StatusKept ==
    ASSUME UNCHANGED <<task, recorded>>
    PROVE  /\ FailedAtLeastOnce' = FailedAtLeastOnce
           /\ \A b : ComputedStatus(b)' = ComputedStatus(b)
BY DEF FailedAtLeastOnce, ComputedStatus, Commands

LEMMA ComputedStatuses ==
    ASSUME NEW b
    PROVE  ComputedStatus(b) \in {"New", "Failed", "Succeeded"}
BY DEF ComputedStatus

(* Agents only come and go while Instance.Run() runs. *)
LEMMA AgentStays ==
    ASSUME [Next]_vars, hpc # "running", agent \in {"off", "exited"}
    PROVE  agent' = agent
<1>1. CoreStep => agent' = agent
  BY DEF CoreStep, core, AgentGone, StartContainer, NextStage, InitialCommands,
         SkipCommand, ReportExecuting, FinalFlush, FlushSucceeds, RetryAttempt,
         FlushFails, StepCompletes, StepFails, Step, HandleUpdate, agentVars
<1> QED BY <1>1, CoreSteps

(* Only the host's own steps and RunFails move it on. *)
LEMMA HostStays ==
    ASSUME [Next]_vars
    PROVE  HostOnly \/ RunFails \/ UNCHANGED hostVars
<1>1. ContextOnly \/ Leaves \/ UNCHANGED vars => UNCHANGED hostVars
  BY DEF ContextOnly, Deadline, Interrupt, HeartbeatsLate, Heartbeat, MonitorLoop,
         AgentDeadline, Signal, Leaves, SetupFails, StepExits, AgentFinishes,
         Crash, vars, hostVars
<1>2. StartContainer \/ NextStage \/ InitialCommands \/ SkipCommand
      \/ ReportExecuting \/ FinalFlush => UNCHANGED hostVars
  BY DEF StartContainer, NextStage, InitialCommands, SkipCommand,
         ReportExecuting, FinalFlush
<1>3. FlushSucceeds \/ RetryAttempt \/ FlushFails \/ StepCompletes \/ StepFails
      \/ HandleUpdate => UNCHANGED hostVars
  BY DEF FlushSucceeds, RetryAttempt, FlushFails, StepCompletes, StepFails, Step,
         HandleUpdate
<1> QED BY <1>1, <1>2, <1>3, Steps

LEMMA RequestsGoneNext ==
    ASSUME ~HandlersOutliveAgent, RequestsGone, [Next]_vars
    PROVE  RequestsGone'
<1>1. CASE UNCHANGED core
  BY <1>1 DEF core, RequestsGone, Silent
<1>2. CASE AgentGone
  BY <1>2 DEF AgentGone, LoseRequests, RequestsGone, Silent
<1>3. CASE StartContainer \/ NextStage
  BY <1>3 DEF StartContainer, NextStage, rpcVars, RequestsGone, Silent
<1>4. CASE InitialCommands \/ SkipCommand \/ ReportExecuting \/ FinalFlush
           \/ FlushSucceeds \/ RetryAttempt \/ FlushFails \/ StepCompletes
           \/ StepFails
  <2>1. ~Silent'
    BY <1>4 DEF InitialCommands, SkipCommand, ReportExecuting, FinalFlush,
                FlushSucceeds, RetryAttempt, FlushFails, StepCompletes, StepFails,
                Step, AfterFlush, agentVars, Silent
  <2> QED BY <2>1 DEF RequestsGone
<1>5. CASE HandleUpdate
  BY <1>5 DEF HandleUpdate, agentVars, RequestsGone, Silent
<1> QED BY <1>1, <1>2, <1>3, <1>4, <1>5, CoreSteps DEF CoreStep

LEMMA NoAgentNext ==
    ASSUME NoAgent, [Next]_vars
    PROVE  NoAgent'
<1>1. CoreStep => NoAgent'
  BY DEF CoreStep, core, AgentGone, StartContainer, NextStage, InitialCommands,
         SkipCommand, ReportExecuting, FinalFlush, FlushSucceeds, RetryAttempt,
         FlushFails, StepCompletes, StepFails, Step, HandleUpdate, agentVars,
         NoAgent
<1> QED BY <1>1, CoreSteps

LEMMA HostInit == Init => HostState
BY DEF Init, HostState, HostControl, AgentDone, ScanIsCurrent, RequestsGone,
       NoAgent

(* A step of the host, by where it is. *)
LEMMA HostControlNext ==
    ASSUME HostState, [Next]_vars
    PROVE  HostControl'
<1>0. HostControl
  BY DEF HostState
<1>1. CASE UNCHANGED hostVars
  BY <1>0, <1>1 DEF hostVars, HostControl
<1>2. CASE RunFails
  BY <1>0, <1>2 DEF RunFails, HostControl
<1>3. CASE SkipTask \/ StartFails \/ Start
  BY <1>0, <1>3 DEF SkipTask, StartFails, Start, HostControl
<1>4. CASE RunUnsupported \/ RunPrebuilt \/ RunSucceeds
  BY <1>0, <1>4 DEF RunUnsupported, RunPrebuilt, RunSucceeds, HostControl
<1>5. CASE HandleRunError
  BY <1>0, <1>5 DEF HandleRunError, HostControl
<1>6. CASE ExplicitStatus \/ ScanFailures \/ ScanCommands
  BY <1>0, <1>6 DEF ExplicitStatus, ScanFailures, ScanCommands, Conclude,
                    HostControl
<1>7. CASE CloseInstance \/ Stop
  BY <1>0, <1>7 DEF CloseInstance, Stop, HostControl
<1> QED BY <1>1, <1>2, <1>3, <1>4, <1>5, <1>6, <1>7, HostStays DEF HostOnly

LEMMA AgentDoneNext ==
    ASSUME HostState, [Next]_vars
    PROVE  AgentDone'
<1>0. HostControl /\ AgentDone /\ NoAgent
  BY DEF HostState
<1>1. hpc # "running" /\ agent \in {"off", "exited"} => agent' = agent
  BY AgentStays
<1>2. CASE UNCHANGED hostVars
  BY <1>0, <1>1, <1>2 DEF hostVars, AgentDone
<1>3. CASE RunFails
  BY <1>3 DEF RunFails, AgentDone
<1>4. CASE SkipTask \/ StartFails \/ Start \/ RunUnsupported
  BY <1>4 DEF SkipTask, StartFails, Start, RunUnsupported, AgentDone
<1>5. CASE RunPrebuilt \/ RunSucceeds
  BY <1>0, <1>5 DEF RunPrebuilt, RunSucceeds, agentVars, NoAgent, AgentDone
<1>6. CASE HandleRunError \/ ScanFailures
  BY <1>0, <1>1, <1>6 DEF HandleRunError, ScanFailures, AgentDone
<1>7. CASE ExplicitStatus \/ ScanCommands \/ CloseInstance \/ Stop
  BY <1>7 DEF ExplicitStatus, ScanCommands, Conclude, CloseInstance, Stop,
              AgentDone
<1> QED BY <1>2, <1>3, <1>4, <1>5, <1>6, <1>7, HostStays DEF HostOnly

LEMMA ScanIsCurrentNext ==
    ASSUME HostState, [Next]_vars
    PROVE  ScanIsCurrent'
<1>1. CASE UNCHANGED hostVars /\ hpc = "scanning"
  <2>1. Silent
    BY <1>1 DEF HostState, HostControl, AgentDone, Silent
  <2> QED BY <1>1, <2>1, NothingRecorded, StatusKept
          DEF hostVars, HostState, ScanIsCurrent
<1>2. CASE ScanFailures
  <2>1. UNCHANGED <<task, recorded>>
    BY <1>2 DEF ScanFailures
  <2> QED BY <1>2, <2>1, StatusKept DEF ScanFailures, ScanIsCurrent
<1>3. CASE ~ScanFailures /\ ~UNCHANGED hostVars
  <2>1. hpc' # "scanning"
    BY <1>3, HostStays
    DEF HostOnly, SkipTask, StartFails, Start, RunUnsupported, RunPrebuilt,
        RunSucceeds, RunFails, HandleRunError, ExplicitStatus, ScanCommands,
        Conclude, CloseInstance, Stop
  <2> QED BY <2>1 DEF ScanIsCurrent
<1>4. CASE UNCHANGED hostVars /\ hpc # "scanning"
  BY <1>4 DEF hostVars, ScanIsCurrent
<1> QED BY <1>1, <1>2, <1>3, <1>4

LEMMA HostStateNext ==
    ASSUME ~HandlersOutliveAgent, HostState, [Next]_vars
    PROVE  HostState'
BY HostControlNext, AgentDoneNext, ScanIsCurrentNext, RequestsGoneNext,
   NoAgentNext DEF HostState

-----------------------------------------------------------------------------
(* A verdict stands                                                        *)

LEMMA VerdictKeptNext ==
    ASSUME HostState, VerdictKept, [Next]_vars
    PROVE  VerdictKept'
<1>0. HostControl /\ AgentDone /\ ScanIsCurrent
  BY DEF HostState
<1>1. CASE (UNCHANGED hostVars \/ CloseInstance \/ Stop)
           /\ hpc \in {"closing", "stopping", "returned"}
  <2>1. status' = status /\ (ret' = "nil" => ret = "nil")
    BY <1>1 DEF hostVars, CloseInstance, Stop
  <2>2. agent \in {"off", "exited"} =>
          /\ agent' = agent
          /\ ComputedStatus(FailedAtLeastOnce)' = ComputedStatus(FailedAtLeastOnce)
    BY <1>1, AgentStays, NothingRecorded, StatusKept DEF Silent
  <2> QED BY <1>1, <2>1, <2>2 DEF VerdictKept
<1>2. CASE UNCHANGED hostVars /\ hpc \notin {"closing", "stopping", "returned"}
  BY <1>2 DEF hostVars, VerdictKept
<1>3. CASE SkipTask \/ StartFails \/ Start \/ RunUnsupported \/ RunPrebuilt
           \/ RunSucceeds \/ RunFails
  BY <1>3 DEF SkipTask, StartFails, Start, RunUnsupported, RunPrebuilt,
              RunSucceeds, RunFails, VerdictKept
<1>4. CASE HandleRunError \/ ScanFailures
  BY <1>4 DEF HandleRunError, ScanFailures, VerdictKept
<1>5. CASE ExplicitStatus
  BY <1>0, <1>5 DEF ExplicitStatus, Conclude, HostControl, VerdictKept
<1>6. CASE ScanCommands
  <2>1. agent \in {"off", "exited"} /\ status = "New"
        /\ sawFailure = FailedAtLeastOnce
    BY <1>0, <1>6 DEF ScanCommands, HostControl, AgentDone, ScanIsCurrent
  <2>2. agent' = agent /\ UNCHANGED <<task, recorded>>
    BY <1>6 DEF ScanCommands, agentVars
  <2>3. ComputedStatus(FailedAtLeastOnce)' = ComputedStatus(sawFailure)
    BY <2>1, <2>2, StatusKept
  <2>4. ComputedStatus(sawFailure) \in {"New", "Failed", "Succeeded"}
    BY ComputedStatuses
  <2> QED BY <1>6, <2>1, <2>2, <2>3, <2>4 DEF ScanCommands, Conclude, VerdictKept
<1>7. CASE (CloseInstance \/ Stop)
           /\ hpc \notin {"closing", "stopping", "returned"}
  BY <1>7 DEF CloseInstance, Stop
<1> QED BY <1>1, <1>2, <1>3, <1>4, <1>5, <1>6, <1>7, HostStays DEF HostOnly

(* When runSingleTask() returns no error, Status() keeps saying that the   *)
(* task is over and well: GetNextTask() will not pick it again.            *)
THEOREM VerdictsStand ==
    ASSUME ~HandlersOutliveAgent PROVE Spec => []VerdictStands
<1>1. Init => IndVerdict
  BY HostInit DEF Init, IndVerdict, VerdictKept
<1>2. IndVerdict /\ [Next]_vars => IndVerdict'
  BY HostStateNext, VerdictKeptNext DEF IndVerdict
<1>3. IndVerdict => VerdictStands
  BY DEF IndVerdict, VerdictKept, VerdictStands
<1> QED BY <1>1, <1>2, <1>3, PTL DEF Spec

-----------------------------------------------------------------------------
(* Failures are known to the agent                                         *)

(* A command whose failure is recorded stays recorded as failed: a later   *)
(* update about it would say the same.                                     *)
LEMMA FailureKept ==
    ASSUME StagesApart, IndTrue, [Next]_vars, NEW c \in Command,
           recorded[c] = "Failure"
    PROVE  recorded'[c] = "Failure"
<1>1. result[c] = "FAILED" /\ result'[c] = "FAILED"
  BY ResultKept DEF IndTrue, RecordedIsTrue
<1>2. recorded'[c] # "Undefined"
  BY RecordedKept DEF IndTrue
<1>3. IndTrue'
  BY IndTrueNext
<1>4. recorded'[c] \in {"Undefined", "Success", "Failure"}
  BY <1>3 DEF IndTrue, IndType, TypeOK
<1> QED BY <1>1, <1>2, <1>3, <1>4 DEF IndTrue, RecordedIsTrue

(* What is queued keeps the failures that wait, and adds its own. *)
LEMMA FailuresQueued ==
    ASSUME CoreType, NEW c \in Command,
           NEW st \in {"EXECUTING", "COMPLETED", "FAILED", "SKIPPED"}
    PROVE  /\ FailuresIn(unflushed) \subseteq FailuresIn(Queue(c, st))
           /\ st = "FAILED" => c \in FailuresIn(Queue(c, st))
<1> DEFINE q == Queue(c, st)
<1>1. Len(unflushed) \in Nat
  BY BatchLen DEF CoreType
<1>2. /\ Len(q) = Len(unflushed) + 1
      /\ \A i \in 1..Len(unflushed) : q[i] = unflushed[i]
      /\ q[Len(unflushed) + 1] = [name |-> c, status |-> st]
  BY QueueIs
<1> HIDE DEF q
<1>3. 1..Len(unflushed) \subseteq 1..Len(q) /\ Len(unflushed) + 1 \in 1..Len(q)
  BY <1>1, <1>2
<1>4. FailuresIn(unflushed) \subseteq FailuresIn(q)
  BY <1>2, <1>3 DEF FailuresIn
<1>5. st = "FAILED" => c \in FailuresIn(q)
  BY <1>2, <1>3 DEF FailuresIn
<1> QED BY <1>4, <1>5 DEF q

(* What a failure of the agent's is reported by. *)
LEMMA FailureMentioned ==
    ASSUME NEW s, NEW c \in FailuresIn(s)
    PROVE  c \in Command /\ Mentions(s, c, Len(s))
<1>1. PICK i \in 1..Len(s) : s[i] = [name |-> c, status |-> "FAILED"]
  BY DEF FailuresIn
<1>2. c \in Command
  BY DEF FailuresIn
<1> QED BY <1>1, <1>2 DEF Mentions, Final

(* Where failures come from. *)
LEMMA FailuresArise ==
    ASSUME IndType, [Next]_vars, NEW c \in Command, result'[c] = "FAILED",
           result[c] # "FAILED"
    PROVE  StepFails /\ c = cur
<1>0. CoreType
  BY TypeSplit DEF IndType
<1>1. \/ UNCHANGED result \/ SkipCommand \/ StepCompletes \/ StepFails
  BY CoreSteps DEF CoreStep, core, AgentGone, StartContainer, NextStage,
                   InitialCommands, ReportExecuting, FinalFlush, FlushSucceeds,
                   RetryAttempt, FlushFails, HandleUpdate
<1> QED BY <1>0, <1>1 DEF SkipCommand, StepCompletes, StepFails, Step, CoreType

LEMMA UndeliveredKept == [Next]_vars => undelivered \subseteq undelivered'
<1>1. CoreStep => undelivered \subseteq undelivered'
  BY DEF CoreStep, core, AgentGone, LoseRequests, StartContainer, NextStage,
         InitialCommands, SkipCommand, ReportExecuting, FinalFlush, FlushSucceeds,
         RetryAttempt, FlushFails, StepCompletes, StepFails, Step, HandleUpdate,
         rpcVars
<1> QED BY <1>1, CoreSteps

LEMMA FailuresAccountedNext ==
    ASSUME StagesApart, IndFailure, [Next]_vars
    PROVE  FailuresAccounted'
<1>0. /\ IndTrue /\ IndType /\ CoreType /\ Positions /\ N \in Nat /\ CallReports
      /\ RecordedIsTrue /\ FailuresAccounted
  BY TypeSplit, Numbers DEF IndFailure, IndGaps, IndTrue, IndType
<1>1. undelivered \subseteq undelivered'
  BY UndeliveredKept
<1>2. ASSUME NEW c \in Command, result'[c] = "FAILED", result[c] # "FAILED"
      PROVE  Works' /\ c \in FailuresIn(unflushed')
  <2>1. StepFails /\ c = cur
    BY <1>0, <1>2, FailuresArise
  <2> QED BY <1>0, <1>2, <2>1, FailuresQueued DEF StepFails, Step, Works
<1>3. ASSUME NEW c \in Command, result[c] = "FAILED",
             Works, c \in FailuresIn(unflushed)
      PROVE  \/ recorded'[c] = "Failure"
             \/ c \in undelivered'
             \/ Works' /\ c \in FailuresIn(unflushed')
  <2>1. CASE UNCHANGED core
    BY <1>3, <2>1 DEF core, Works
  <2>2. CASE AgentGone
    BY <1>3, <2>2 DEF AgentGone, LoseRequests
  <2>3. CASE StartContainer \/ NextStage \/ InitialCommands
    BY <1>3, <2>3 DEF StartContainer, NextStage, InitialCommands, Works
  <2>4. CASE SkipCommand
    <3>1. cur \in Command
      BY <1>0, <2>4 DEF SkipCommand, CoreType, Command
    <3> QED BY <1>0, <1>3, <2>4, <3>1, FailuresQueued DEF SkipCommand, Works
  <2>5. CASE ReportExecuting
    <3>1. cur \in Command
      BY <1>0, <2>5 DEF ReportExecuting, CoreType, Command
    <3> QED BY <1>0, <1>3, <2>5, <3>1, FailuresQueued DEF ReportExecuting, Works
  <2>6. CASE FinalFlush \/ FlushFails
    BY <1>3, <2>6 DEF FinalFlush, FlushFails, AfterFlush, Works
  <2>7. CASE RetryAttempt \/ HandleUpdate
    BY <1>3, <2>7 DEF RetryAttempt, HandleUpdate, agentVars, Works
  <2>8. CASE FlushSucceeds
    <3>1. Mentions(unflushed, c, Len(unflushed))
      BY <1>3, FailureMentioned
    <3>2. ~Mentions(call, c, Len(call)) /\ recorded' = recorded
      BY <2>8, MentionsNothing DEF FlushSucceeds
    <3>3. recorded[c] # "Undefined"
      BY <1>0, <2>8, <3>1, <3>2 DEF FlushSucceeds, CallReports
    <3>4. recorded[c] = "Failure"
      BY <1>0, <1>3, <3>3 DEF CoreType, RecordedIsTrue
    <3> QED BY <3>2, <3>4
  <2>9. ASSUME NEW st \in {"COMPLETED", "FAILED"}, Step(st)
        PROVE  Works' /\ c \in FailuresIn(unflushed')
    <3>1. cur \in Command
      BY <1>0, <2>9 DEF Step, CoreType, Positions, Command
    <3> QED BY <1>0, <1>3, <2>9, <3>1, FailuresQueued DEF Step, Works
  <2> QED BY <2>1, <2>2, <2>3, <2>4, <2>5, <2>6, <2>7, <2>8, <2>9, CoreSteps
          DEF CoreStep, StepCompletes, StepFails
<1>4. ASSUME NEW c \in Command, recorded[c] = "Failure"
      PROVE  recorded'[c] = "Failure"
  BY <1>0, <1>4, FailureKept
<1> QED BY <1>0, <1>1, <1>2, <1>3, <1>4 DEF FailuresAccounted

LEMMA FailuresKnownNext ==
    ASSUME StagesApart, IndFailure, [Next]_vars
    PROVE  FailuresKnown'
<1>0. /\ N \in Nat /\ IndType /\ CoreType /\ Untouched
      /\ FailuresAccounted /\ FailuresKnown
  BY TypeSplit, Numbers DEF IndFailure, IndGaps, IndTrue, IndType
<1>1. Commands' = Commands /\ Commands \subseteq Command
  BY TaskKept DEF Commands
<1>2. ASSUME Looping' => Looping, ~failed' => ~failed, stage' = stage,
             Looping', ~failed', NEW c \in Commands', result'[c] = "FAILED"
      PROVE  c \in undelivered' /\ c < stage'
  <2>1. c \in Commands /\ c \in Command
    BY <1>1
  <2>2. result[c] = "FAILED"
    BY <1>0, <1>2, <2>1, FailuresArise DEF StepFails, Step
  <2> QED BY <1>0, <1>2, <2>1, <2>2, UndeliveredKept DEF FailuresKnown
<1>3. ASSUME UNCHANGED <<task, stage, cur, failed>>, Looping' => Looping,
             agent' \in {"reporting", "step"} => agent \in {"reporting", "step"}
      PROVE  FailuresKnown'
  BY <1>0, <1>2, <1>3 DEF FailuresKnown
<1>4. CASE UNCHANGED core \/ AgentGone \/ StartContainer
  BY <1>3, <1>4 DEF core, AgentGone, StartContainer, Looping
<1>5. CASE FlushSucceeds \/ RetryAttempt \/ FlushFails \/ HandleUpdate
  BY <1>3, <1>5 DEF FlushSucceeds, RetryAttempt, FlushFails, HandleUpdate,
                    AfterFlush, agentVars, Looping
<1>6. CASE NextStage
  BY <1>6 DEF NextStage, FailuresKnown, Looping
<1>7. CASE InitialCommands
  <2>1. /\ ~Works /\ agent = "starting" /\ failed' = FailedAtLeastOnce
        /\ agent' = "loop" /\ UNCHANGED <<stage, recorded, result, undelivered>>
    BY <1>7 DEF InitialCommands, Works
  <2>2. ASSUME ~failed', NEW c \in Commands, result[c] = "FAILED"
        PROVE  c \in undelivered /\ c < stage
    <3>1. recorded[c] # "Failure" /\ c \in Command
      BY <1>1, <2>1, <2>2 DEF FailedAtLeastOnce
    <3>2. c \in undelivered
      BY <1>0, <2>1, <2>2, <3>1 DEF FailuresAccounted
    <3>3. ~(c >= stage)
      BY <1>0, <2>1, <2>2, <3>1 DEF Untouched
    <3>4. c < stage
      BY <1>0, <3>1, <3>3 DEF CoreType, Command
    <3> QED BY <3>2, <3>4
  <2> QED BY <1>1, <2>1, <2>2 DEF FailuresKnown
<1>8. CASE SkipCommand \/ StepCompletes \/ StepFails
  <2>1. Looping /\ agent' = "loop" /\ stage' = stage
    BY <1>8 DEF SkipCommand, StepCompletes, StepFails, Step, Looping
  <2>2. failed \in BOOLEAN /\ failed' \in {failed, TRUE}
    BY <1>0, <1>8 DEF SkipCommand, StepCompletes, StepFails, Step, CoreType
  <2>3. ~failed' => ~failed
    BY <2>2
  <2> QED BY <1>2, <2>1, <2>3 DEF FailuresKnown
<1>9. CASE ReportExecuting
  <2>1. Looping /\ UNCHANGED <<task, stage, cur, failed>>
    BY <1>9 DEF ReportExecuting, Looping
  <2>2. task.behaviour[cur] = "ON_SUCCESS" => ~failed
    BY <1>9 DEF ReportExecuting, ShouldRun
  <2> QED BY <1>2, <2>1, <2>2 DEF FailuresKnown
<1>10. CASE FinalFlush
  <2>1. Looping /\ UNCHANGED <<task, stage, cur, failed>> /\ ~(cur <= N)
    BY <1>0, <1>10 DEF FinalFlush, Looping
  <2> QED BY <1>2, <2>1 DEF FailuresKnown
<1> QED BY <1>4, <1>5, <1>6, <1>7, <1>8, <1>9, <1>10, CoreSteps DEF CoreStep

LEMMA IndFailureNext ==
    ASSUME StagesApart, IndFailure, [Next]_vars
    PROVE  IndFailure'
BY IndGapsNext, FailuresAccountedNext, FailuresKnownNext DEF IndFailure

(* No agent of a task whose stages lie apart runs an ON_SUCCESS command    *)
(* after a command has really failed, unless the agent of an earlier stage *)
(* went away with the failure still to report: RunBuild() sees its own     *)
(* failures, and is told of the others by InitialCommands(), which they    *)
(* have reached whatever attempts were lost, repeated or handled late.     *)
THEOREM FailuresAreKnown == Spec => [](StagesApart => NoSuccessAfterFailure)
<1>1. Init => (StagesApart => IndFailure)
  <2> SUFFICES ASSUME Init PROVE IndFailure
    OBVIOUS
  <2>1. \A c \in Command : result[c] = "none"
    BY DEF Init
  <2>2. FailuresAccounted
    BY <2>1 DEF FailuresAccounted
  <2>3. FailuresKnown
    BY DEF Init, FailuresKnown, Looping
  <2> QED BY <2>2, <2>3, IndGapsInit DEF IndFailure
<1>2. (StagesApart => IndFailure) /\ [Next]_vars => (StagesApart => IndFailure)'
  BY IndFailureNext, ApartKept
<1>3. (StagesApart => IndFailure) => (StagesApart => NoSuccessAfterFailure)
  <2> SUFFICES ASSUME StagesApart, IndFailure, agent = "step",
                      task.behaviour[cur] = "ON_SUCCESS",
                      NEW c \in Commands, result[c] = "FAILED"
               PROVE  c \in undelivered /\ ~InStage(c)
    BY DEF NoSuccessAfterFailure
  <2>1. TypeOK /\ Positions /\ N \in Nat /\ c \in Command
    BY Numbers DEF IndFailure, IndGaps, IndTrue, IndType, Commands
  <2>2. c \in undelivered /\ c < stage
    BY <2>1 DEF IndFailure, FailuresKnown, Positions, Looping
  <2>3. ~(stage <= c)
    BY <2>1, <2>2 DEF TypeOK, Command
  <2> QED BY <2>1, <2>2, <2>3, StageBounds
<1> QED BY <1>1, <1>2, <1>3, PTL DEF Spec

-----------------------------------------------------------------------------
(* A success is earned                                                     *)

(* A failure that the host knows of stays known. *)
LEMMA FailureStays ==
    ASSUME StagesApart, IndTrue, [Next]_vars, FailedAtLeastOnce
    PROVE  FailedAtLeastOnce'
<1>1. PICK c \in Commands : recorded[c] = "Failure"
  BY DEF FailedAtLeastOnce
<1>2. c \in Command /\ Commands' = Commands
  BY TaskKept DEF Commands
<1>3. recorded'[c] = "Failure"
  BY <1>1, <1>2, FailureKept
<1> QED BY <1>2, <1>3 DEF FailedAtLeastOnce

(* The commands of the stage before the current one are its Earlier ones. *)
LEMMA InStageEarlier ==
    ASSUME IndType, StagesApart, Looping, cur \in Command,
           NEW d \in Commands, InStage(d), d < cur
    PROVE  d \in Earlier(task, cur)
<1>0. /\ N \in Nat /\ stage \in 1..(N + 1) /\ CommandTo \in 1..(N + 1)
      /\ task.images \subseteq Command
      /\ \A i \in task.images : i > stage => i >= CommandTo
  BY Numbers, StageEnds DEF IndType, TypeOK, Shape
<1>1. d \in Command /\ stage <= d
  BY StageBounds DEF IndType, Commands
<1>2. cur < CommandTo
  BY CurrentInStage
<1>3. ASSUME NEW i \in task.images, d < i, i <= cur PROVE FALSE
  <2>1. i \in Command
    BY <1>0
  <2>2. i > stage
    BY <1>0, <1>1, <1>3, <2>1 DEF Command
  <2>3. i >= CommandTo
    BY <1>0, <2>2
  <2> QED BY <1>0, <1>2, <1>3, <2>1, <2>3 DEF Command
<1> QED BY <1>1, <1>3 DEF Earlier, Commands

LEMMA SkippedForCauseNext ==
    ASSUME StagesApart, IndTrue, SkippedForCause, FailedForCause, [Next]_vars
    PROVE  SkippedForCause'
<1>0. IndType /\ CoreType /\ Untouched
  BY TypeSplit DEF IndTrue, IndType
<1>1. task' = task /\ Commands' = Commands /\ Commands \subseteq Command
  BY TaskKept DEF Commands
<1>2. ASSUME NEW c \in Command, FailureBefore(c) PROVE FailureBefore(c)'
  <2>1. CASE FailedAtLeastOnce
    BY <2>1, FailureStays DEF FailureBefore
  <2>2. CASE \E d \in Earlier(task, c) : result[d] = "FAILED"
    <3>1. PICK d \in Earlier(task, c) : result[d] = "FAILED"
      BY <2>2
    <3>2. d \in Command
      BY DEF Earlier
    <3>3. result'[d] = "FAILED"
      BY <1>0, <3>1, <3>2, ResultKept
    <3> QED BY <1>1, <3>3 DEF FailureBefore
  <2> QED BY <1>2, <2>1, <2>2 DEF FailureBefore
<1>3. ASSUME NEW c \in Commands, result'[c] = "SKIPPED"
      PROVE  /\ task.behaviour[c] # "ALWAYS"
             /\ task.behaviour[c] = "ON_SUCCESS" => FailureBefore(c)'
  <2>1. CASE result[c] = "SKIPPED"
    BY <1>1, <1>2, <2>1 DEF SkippedForCause
  <2>2. CASE result[c] # "SKIPPED"
    <3>1. AddsUpdate("SKIPPED") /\ c = cur
      BY <1>0, <1>1, <1>3, <2>2, BatchStep
      DEF SameUpdates, AddsUpdate, AppliesUpdate, CoreType
    <3>2. Looping /\ cur \in Command /\ ~ShouldRun(cur)
      BY <3>1 DEF AddsUpdate
    <3>3. task.behaviour[c] # "ALWAYS"
          /\ (task.behaviour[c] = "ON_SUCCESS" => failed)
      BY <3>1, <3>2 DEF ShouldRun
    <3>4. failed => FailureBefore(cur)
      BY <1>0, <3>2, InStageEarlier DEF FailedForCause, FailureBefore
    <3> QED BY <1>2, <3>1, <3>2, <3>3, <3>4
  <2> QED BY <2>1, <2>2
<1> QED BY <1>1, <1>3 DEF SkippedForCause

LEMMA FailedForCauseNext ==
    ASSUME StagesApart, IndTrue, FailedForCause, [Next]_vars
    PROVE  FailedForCause'
<1>0. /\ IndType /\ TypeOK /\ CoreType /\ Positions /\ Untouched
      /\ N \in Nat /\ cur \in 1..(N + 1)
  BY TypeSplit, Numbers DEF IndTrue, IndType, CoreType
<1>1. Commands \subseteq Command
  BY DEF Commands
<1>2. ASSUME UNCHANGED <<task, stage>>, Looping, failed, cur' \in cur..(N + 1)
      PROVE  FailedForCause'
  <2>1. CASE FailedAtLeastOnce
    BY <2>1, FailureStays DEF FailedForCause
  <2>2. ASSUME NEW d \in Commands, InStage(d), d < cur, result[d] = "FAILED"
        PROVE  FailedForCause'
    <3>1. result'[d] = "FAILED" /\ d < cur'
      BY <1>0, <1>1, <1>2, <2>2, ResultKept DEF Command
    <3>2. d \in Commands' /\ InStage(d)'
      BY <1>2, <2>2, StageKept
    <3> QED BY <3>1, <3>2 DEF FailedForCause
  <2> QED BY <1>2, <2>1, <2>2 DEF FailedForCause
<1>3. cur \in cur..(N + 1)
  BY <1>0
<1>4. ASSUME UNCHANGED <<task, stage, cur, failed>>, Looping' => Looping
      PROVE  FailedForCause'
  BY <1>2, <1>3, <1>4 DEF FailedForCause
<1>5. CASE UNCHANGED core \/ AgentGone \/ StartContainer \/ ReportExecuting
           \/ FinalFlush
  BY <1>4, <1>5 DEF core, AgentGone, StartContainer, ReportExecuting, FinalFlush,
                    Looping
<1>6. CASE FlushSucceeds \/ RetryAttempt \/ FlushFails \/ HandleUpdate
  BY <1>4, <1>6 DEF FlushSucceeds, RetryAttempt, FlushFails, HandleUpdate,
                    AfterFlush, agentVars, Looping
<1>7. CASE NextStage
  BY <1>7 DEF NextStage, FailedForCause, Looping
<1>8. CASE InitialCommands
  <2>1. failed' = FailedAtLeastOnce /\ UNCHANGED <<task, recorded>>
    BY <1>8 DEF InitialCommands
  <2>2. failed' => FailedAtLeastOnce'
    BY <2>1 DEF FailedAtLeastOnce, Commands
  <2> QED BY <2>2 DEF FailedForCause
<1>9. CASE SkipCommand
  <2>1. cur + 1 \in 1..(N + 1)
    BY <1>0, <1>9 DEF SkipCommand
  <2>2. cur' \in cur..(N + 1)
    BY <1>0, <1>9, <2>1, NextCommandIs DEF SkipCommand
  <2>3. UNCHANGED <<task, stage, failed>> /\ Looping
    BY <1>9 DEF SkipCommand, Looping
  <2> QED BY <1>2, <2>2, <2>3 DEF FailedForCause
<1>10. ASSUME NEW st \in {"COMPLETED", "FAILED"}, Step(st)
       PROVE  FailedForCause'
  <2>1. cur \in Command /\ cur + 1 \in 1..(N + 1)
    BY <1>0, <1>10 DEF Step, Positions, Command
  <2>2. cur' \in (cur + 1)..(N + 1)
    BY <1>0, <1>10, <2>1, NextCommandIs DEF Step
  <2>3. UNCHANGED <<task, stage>> /\ Looping
    BY <1>10 DEF Step, Looping
  <2>4. CASE failed
    BY <1>0, <1>2, <2>2, <2>3, <2>4
  <2>5. CASE st = "FAILED"
    <3>1. PICK d \in Commands : d = cur /\ InStage(d)
      BY <1>0, <2>1, <2>3 DEF Positions, Command, InStage
    <3>2. result'[d] = "FAILED" /\ d < cur'
      BY <1>0, <1>10, <2>1, <2>2, <2>5, <3>1 DEF Step, CoreType
    <3>3. d \in Commands' /\ InStage(d)'
      BY <2>3, <3>1, StageKept
    <3> QED BY <3>2, <3>3 DEF FailedForCause
  <2>6. CASE ~failed /\ st # "FAILED"
    <3>1. ~failed'
      BY <1>10, <2>6 DEF Step
    <3> QED BY <3>1 DEF FailedForCause
  <2> QED BY <2>4, <2>5, <2>6
<1> QED BY <1>5, <1>6, <1>7, <1>8, <1>9, <1>10, CoreSteps
        DEF CoreStep, StepCompletes, StepFails

(* What Status() of a container's task tells when it finds a success. *)
LEMMA SuccessFound ==
    ASSUME StagesApart, IndGaps, SkippedForCause, NEW c \in Commands,
           ComputedStatus(FALSE) = "Succeeded", ~FailedAtLeastOnce,
           task.behaviour[c] \in {"ON_SUCCESS", "ALWAYS"}
    PROVE  result[c] = "COMPLETED"
<1>0. /\ RecordedIsTrue /\ NoGaps
      /\ recorded \in [Command -> {"Undefined", "Success", "Failure"}]
      /\ c \in Command
  BY DEF IndGaps, IndTrue, IndType, TypeOK, Commands
<1>1. recorded[c] # "Undefined"
  BY DEF ComputedStatus
<1>2. recorded[c] # "Failure"
  BY DEF FailedAtLeastOnce
<1>3. result[c] \in {"COMPLETED", "SKIPPED"}
  BY <1>0, <1>1, <1>2 DEF RecordedIsTrue
<1>4. ASSUME result[c] = "SKIPPED" PROVE FALSE
  <2>1. task.behaviour[c] = "ON_SUCCESS" /\ FailureBefore(c)
    BY <1>4 DEF SkippedForCause
  <2>2. PICK d \in Earlier(task, c) : result[d] = "FAILED"
    BY <2>1 DEF FailureBefore
  <2>3. d \in Command /\ d \in Commands
    BY DEF Earlier, Commands
  <2>4. recorded[d] # "Undefined"
    BY <1>0, <1>1, NoGapsIs
  <2>5. recorded[d] # "Failure"
    BY <2>3 DEF FailedAtLeastOnce
  <2>6. recorded[d] = "Success"
    BY <1>0, <2>3, <2>4, <2>5
  <2> QED BY <1>0, <2>2, <2>3, <2>6 DEF RecordedIsTrue
<1> QED BY <1>3, <1>4

LEMMA SuccessIsEarnedNext ==
    ASSUME IndSuccess, [Next]_vars
    PROVE  SuccessIsEarned'
<1> SUFFICES ASSUME StagesApart PROVE SuccessIsEarned'
  BY ApartKept DEF SuccessIsEarned, StagesApart
<1>0. /\ IndGaps /\ IndTrue /\ IndType /\ Untouched
      /\ HostControl /\ AgentDone /\ ScanIsCurrent /\ SkippedForCause
      /\ SuccessIsEarned
  BY DEF IndSuccess, IndGaps, IndTrue, HostState
<1>1. task' = task /\ Commands' = Commands /\ Commands \subseteq Command
  BY TaskKept DEF Commands
<1>2. ASSUME verdict' = verdict PROVE SuccessIsEarned'
  BY <1>0, <1>1, <1>2, ResultKept, ApartKept DEF SuccessIsEarned, StagesApart
<1>3. CASE SkipTask \/ ExplicitStatus
  <2>1. verdict' # "Succeeded"
    BY <1>0, <1>3 DEF SkipTask, ExplicitStatus, Conclude, HostControl
  <2> QED BY <2>1 DEF SuccessIsEarned
<1>4. CASE ScanCommands
  <2> SUFFICES ASSUME verdict' = "Succeeded", task.kind = "container",
                      NEW c \in Commands,
                      task.behaviour[c] \in {"ON_SUCCESS", "ALWAYS"}
               PROVE  result'[c] = "COMPLETED"
    BY <1>1 DEF SuccessIsEarned
  <2>1. ComputedStatus(sawFailure) = "Succeeded"
    BY <1>4 DEF ScanCommands, Conclude
  <2>2. ~sawFailure
    BY <2>1 DEF ComputedStatus
  <2>3. ComputedStatus(FALSE) = "Succeeded"
    BY <2>1, <2>2 DEF ComputedStatus
  <2>4. ~FailedAtLeastOnce
    BY <1>0, <1>4, <2>2 DEF ScanCommands, ScanIsCurrent
  <2>5. result[c] = "COMPLETED"
    BY <1>0, <2>3, <2>4, SuccessFound
  <2> QED BY <1>4, <2>5 DEF ScanCommands
<1>5. CASE \/ UNCHANGED hostVars \/ RunFails \/ StartFails \/ Start
           \/ RunUnsupported \/ RunPrebuilt \/ RunSucceeds \/ HandleRunError
           \/ ScanFailures \/ CloseInstance \/ Stop
  BY <1>2, <1>5 DEF hostVars, RunFails, StartFails, Start, RunUnsupported,
                    RunPrebuilt, RunSucceeds, HandleRunError, ScanFailures,
                    CloseInstance, Stop
<1> QED BY <1>3, <1>4, <1>5, HostStays DEF HostOnly

(* A task in a container is only found to have succeeded when every        *)
(* command that was to run has run and completed: task.Status() after      *)
(* Instance.Run(), whatever reports were lost or repeated on the way, in   *)
(* tasks whose stages do not overlap.                                      *)
THEOREM SuccessesAreEarned ==
    ASSUME ~HandlersOutliveAgent PROVE Spec => []SuccessIsEarned
<1>1. Init => IndSuccess
  <2> SUFFICES ASSUME Init PROVE IndSuccess
    OBVIOUS
  <2>1. \A c \in Command : result[c] = "none"
    BY DEF Init
  <2>2. SkippedForCause
    BY <2>1 DEF SkippedForCause, Commands
  <2>3. FailedForCause /\ SuccessIsEarned
    BY DEF Init, FailedForCause, SuccessIsEarned
  <2> QED BY <2>2, <2>3, IndGapsInit, HostInit DEF IndSuccess
<1>2. IndSuccess /\ [Next]_vars => IndSuccess'
  <2> SUFFICES ASSUME IndSuccess, [Next]_vars PROVE IndSuccess'
    OBVIOUS
  <2>1. HostState'
    BY HostStateNext DEF IndSuccess
  <2>2. ASSUME StagesApart PROVE IndGaps' /\ SkippedForCause' /\ FailedForCause'
    BY <2>2, IndGapsNext, SkippedForCauseNext, FailedForCauseNext
    DEF IndSuccess, IndGaps
  <2> QED BY <2>1, <2>2, SuccessIsEarnedNext, ApartKept DEF IndSuccess
<1>3. IndSuccess => SuccessIsEarned
  BY DEF IndSuccess
<1> QED BY <1>1, <1>2, <1>3, PTL DEF Spec
=============================================================================
