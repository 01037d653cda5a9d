------------------------------- MODULE Worker -------------------------------
(***************************************************************************)
(* The persistent worker (internal/worker): one poll loop that talks to a  *)
(* list of upstreams, starts a goroutine per task, keeps at most one       *)
(* warmed-up standby instance and learns of finished tasks through an      *)
(* unbuffered channel.  Instances are opaque: New and Close are what       *)
(* internal/executor/instance/persistentworker does to them, including     *)
(* the locking of resource modifiers (internal/worker/resourcemodifier).   *)
(*                                                                         *)
(* The server is external: a poll is answered by any response that fits    *)
(* the resources the worker reported (Admissible).                         *)
(***************************************************************************)
EXTENDS Integers, FiniteSets

CONSTANTS
    Task,            \* task identifiers an upstream may assign
    Upstreams,       \* how many upstreams are configured, polled in order
    Isolation,       \* isolation specifications
    Vetu,            \* the isolations that are Vetu VMs
    Allowed,         \* the isolations the worker's security settings allow
    Resource,        \* resource names
    Total,           \* Total[r]: userSpecifiedResources
    MaxAmount,       \* the largest amount of a resource anything asks for
    TaskIsolation,   \* TaskIsolation[t]: the isolation task t asks for
    ResourcesToUse,  \* ResourcesToUse[t]: resource name -> amount
    StandbyParams,   \* standby parameters, [isolation, resources] records
    Modifiers,       \* how many resource modifiers are configured
    Match,           \* Match[m]: resource name -> amount
    Instance,        \* identities of instances
    None

VARIABLES
    pc,                 \* where the poll loop is
    up,                 \* the upstream being polled
    registered,         \* upstreams that handed out a session token
    ctxDone,            \* Run()'s context was cancelled
    response,           \* what is left to do of the last poll response
    starting,           \* the task startTask() is creating an instance for
    warming,            \* the instance tryCreateStandby() is warming up
    tasks,              \* worker.tasks: the upstream of a known task, or 0
    cancelled,          \* tasks whose own context was cancelled
    standbyParameters,
    standbyInstance,
    runner,             \* where the goroutine of a task is
    held,               \* the instance that goroutine owns
    isolationOf,        \* isolation of an open instance, None if not open
    modifierOf,         \* resource modifier an open instance uses, or 0
    locked              \* resource modifiers whose mutex is locked

loopVars == <<pc, up, registered, ctxDone, response, starting, warming>>
taskVars == <<tasks, cancelled, runner, held>>
standbyVars == <<standbyParameters, standbyInstance>>
instVars == <<isolationOf, modifierOf, locked>>
vars == <<loopVars, taskVars, standbyVars, instVars>>

Modifier == 1..Modifiers
Upstream == 1..Upstreams
ResourceMap == UNION {[D -> 0..MaxAmount] : D \in SUBSET Resource}
NoResponse == [start |-> {}, shutdown |-> FALSE, standby |-> None]

LoopState == {"standby", "warmup", "register", "drain", "poll", "apply",
              "getInstance", "wait", "stopped"}
RunnerState == {"none", "starting", "running", "failing", "stopping",
                "closing", "completing"}

ASSUME ConstantsAssumption ==
    /\ IsFiniteSet(Task)
    /\ Upstreams \in Nat \ {0}
    /\ Modifiers \in Nat
    /\ MaxAmount \in Nat
    /\ Vetu \subseteq Isolation
    /\ Allowed \subseteq Isolation
    /\ Total \in [Resource -> Nat]
    /\ TaskIsolation \in [Task -> Isolation]
    /\ ResourcesToUse \in [Task -> ResourceMap]
    /\ StandbyParams \subseteq [isolation : Isolation, resources : ResourceMap]
    /\ Match \in [Modifier -> ResourceMap]
    /\ None \notin Isolation \cup Instance \cup Task \cup StandbyParams

-----------------------------------------------------------------------------
(* Resources.  An amount is counted in units; the units the tasks of S use *)
(* are pairs, so that a sum over S is a cardinality.                       *)

Amount(request, r) == IF r \in DOMAIN request THEN request[r] ELSE 0

UnitsInUse(S, r) ==
    {u \in Task \X (1..MaxAmount) :
        u[1] \in S /\ u[2] <= Amount(ResourcesToUse[u[1]], r)}

ResourcesInUse(S, r) == Cardinality(UnitsInUse(S, r))

KnownTasks == {t \in Task : tasks[t] # 0}

(* Mutant: the standby is compared with the total, not with what is left. *)
CanFitIgnoringTasks(S, request) == \A r \in DOMAIN request : request[r] <= Total[r]

CanFitResources(S, request) ==
    \A r \in DOMAIN request : ResourcesInUse(S, r) + request[r] <= Total[r]

(* "Cirrus CI ensures that all the tasks the worker receives do not exceed *)
(* the resources defined": the server adds what it starts to what the poll *)
(* request said is in use.  A task it believes lost may be sent again.     *)
Admissible(start) ==
    \A r \in Resource : ResourcesInUse(KnownTasks \cup start, r) <= Total[r]

(* Modifier.Matches and Manager.Acquire: the first unlocked match, or 0.   *)
Matches(m, request) ==
    \A r \in DOMAIN Match[m] : r \in DOMAIN request /\ request[r] <= Match[m][r]

(* Mutant: no TryLock. *)
AcquireWithoutLock(request) ==
    LET fitting == {m \in Modifier : Matches(m, request)}
    IN  IF fitting = {} THEN 0
        ELSE CHOOSE m \in fitting : \A n \in fitting : m <= n

Acquire(request) ==
    LET free == {m \in Modifier : Matches(m, request) /\ m \notin locked}
    IN  IF free = {} THEN 0
        ELSE CHOOSE m \in free : \A n \in free : m <= n

-----------------------------------------------------------------------------
(* Instances: persistentworker.New locks a modifier whatever it creates,   *)
(* only Vetu keeps it, uses it and unlocks it in Close.                    *)

New(i, isolation, request) ==
    LET m == Acquire(request) IN
    /\ isolationOf[i] = None
    /\ isolationOf' = [isolationOf EXCEPT ![i] = isolation]
    /\ modifierOf' = [modifierOf EXCEPT ![i] = IF isolation \in Vetu THEN m ELSE 0]
    /\ locked' = locked \cup ({m} \ {0})

NewFails(isolation, request) ==
    /\ isolation \notin Allowed
    /\ locked' = locked \cup ({Acquire(request)} \ {0})
    /\ UNCHANGED <<isolationOf, modifierOf>>

Close(i) ==
    /\ isolationOf' = [isolationOf EXCEPT ![i] = None]
    /\ modifierOf' = [modifierOf EXCEPT ![i] = 0]
    /\ locked' = locked \ {modifierOf[i]}

-----------------------------------------------------------------------------
Init ==
    /\ pc = "standby"
    /\ up = 1
    /\ registered = {}
    /\ ctxDone = FALSE
    /\ response = NoResponse
    /\ starting = None
    /\ warming = None
    /\ tasks = [t \in Task |-> 0]
    /\ cancelled = {}
    /\ standbyParameters \in StandbyParams \cup {None}
    /\ standbyInstance = None
    /\ runner = [t \in Task |-> "none"]
    /\ held = [t \in Task |-> None]
    /\ isolationOf = [i \in Instance |-> None]
    /\ modifierOf = [i \in Instance |-> 0]
    /\ locked = {}

(* tryCreateStandby() *)

WantsStandby ==
    /\ standbyParameters # None
    /\ standbyInstance = None
    /\ CanFitResources(KnownTasks, standbyParameters.resources)

NoStandbyNeeded ==
    /\ pc = "standby"
    /\ ~WantsStandby
    /\ pc' = "register"
    /\ up' = 1
    /\ UNCHANGED <<registered, ctxDone, response, starting, warming>>
    /\ UNCHANGED <<taskVars, standbyVars, instVars>>

(* Only an isolation that can be warmed up is a standby configuration: the *)
(* type assertion of tryCreateStandby() panics for any other.              *)
CreateStandby(i) ==
    /\ pc = "standby"
    /\ WantsStandby
    /\ standbyParameters.isolation \in Allowed
    /\ New(i, standbyParameters.isolation, standbyParameters.resources)
    /\ warming' = i
    /\ pc' = "warmup"
    /\ UNCHANGED <<up, registered, ctxDone, response, starting>>
    /\ UNCHANGED <<taskVars, standbyVars>>

(* pollUpstreams() backs off without polling when there is no standby. *)
CreateStandbyFails ==
    /\ pc = "standby"
    /\ WantsStandby
    /\ NewFails(standbyParameters.isolation, standbyParameters.resources)
    /\ pc' = "wait"
    /\ UNCHANGED <<up, registered, ctxDone, response, starting, warming>>
    /\ UNCHANGED <<taskVars, standbyVars>>

WarmupSucceeds ==
    /\ pc = "warmup"
    /\ ~ctxDone
    /\ standbyInstance' = warming
    /\ warming' = None
    /\ pc' = "register"
    /\ up' = 1
    /\ UNCHANGED <<registered, ctxDone, response, starting, standbyParameters>>
    /\ UNCHANGED <<taskVars, instVars>>

WarmupFails ==
    /\ pc = "warmup"
    /\ Close(warming)
    /\ warming' = None
    /\ pc' = "wait"
    /\ UNCHANGED <<up, registered, ctxDone, response, starting>>
    /\ UNCHANGED <<taskVars, standbyVars>>

(* pollSingleUpstream() *)

(* Mutants: the loop over the upstreams runs past its end, or ends early. *)
NextUpstreamUnchecked == up' = up + 1 /\ pc' = "register"
FirstUpstreamOnly == up' = up /\ pc' = "wait"

NextUpstream ==
    IF up < Upstreams THEN up' = up + 1 /\ pc' = "register"
                      ELSE up' = up /\ pc' = "wait"

Register ==
    /\ pc = "register"
    /\ up \in registered \/ ~ctxDone
    /\ registered' = registered \cup {up}
    /\ pc' = "drain"
    /\ UNCHANGED <<up, ctxDone, response, starting, warming>>
    /\ UNCHANGED <<taskVars, standbyVars, instVars>>

RegisterFails ==
    /\ pc = "register"
    /\ up \notin registered
    /\ NextUpstream
    /\ UNCHANGED <<registered, ctxDone, response, starting, warming>>
    /\ UNCHANGED <<taskVars, standbyVars, instVars>>

(* registerTaskCompletions(): the channel is unbuffered, so a completion   *)
(* is received exactly when its sender is blocked in the send.             *)
ReceiveCompletion(t) ==
    /\ pc = "drain"
    /\ runner[t] = "completing"
    /\ runner' = [runner EXCEPT ![t] = "none"]
    /\ tasks' = [tasks EXCEPT ![t] = 0]
    /\ cancelled' = cancelled \ {t}
    /\ UNCHANGED <<loopVars, held, standbyVars, instVars>>

NoCompletions ==
    /\ pc = "drain"
    /\ \A t \in Task : runner[t] # "completing"
    /\ pc' = "poll"
    /\ UNCHANGED <<up, registered, ctxDone, response, starting, warming>>
    /\ UNCHANGED <<taskVars, standbyVars, instVars>>

(* stopTask(): cancel the task's context and leave the rest to runTask(). *)

(* Mutant: a stopped task is forgotten at once. *)
StopAndForgetTasks(stop) ==
    /\ cancelled' = cancelled \ stop
    /\ tasks' = [t \in Task |-> IF t \in stop THEN 0 ELSE tasks[t]]

StopTasks(stop) ==
    /\ cancelled' = cancelled \cup (stop \cap KnownTasks)
    /\ UNCHANGED tasks

(* Upstream.Poll(): the server's answer. *)
Poll(stop, start, shutdown, update) ==
    /\ pc = "poll"
    /\ ~ctxDone
    /\ Admissible(start)
    /\ StopTasks(stop)
    /\ response' = [start |-> start, shutdown |-> shutdown, standby |-> update]
    /\ pc' = "apply"
    /\ UNCHANGED <<up, registered, ctxDone, starting, warming>>
    /\ UNCHANGED <<runner, held, standbyVars, instVars>>

(* An error from Poll() ends the iteration: later upstreams wait. *)
PollFails ==
    /\ pc = "poll"
    /\ pc' = "wait"
    /\ UNCHANGED <<up, registered, ctxDone, response, starting, warming>>
    /\ UNCHANGED <<taskVars, standbyVars, instVars>>

(* startTask() *)

StartAlreadyRunning(t) ==
    /\ pc = "apply"
    /\ t \in response.start
    /\ tasks[t] # 0
    /\ response' = [response EXCEPT !.start = @ \ {t}]
    /\ UNCHANGED <<pc, up, registered, ctxDone, starting, warming>>
    /\ UNCHANGED <<taskVars, standbyVars, instVars>>

StartTask(t) ==
    /\ pc = "apply"
    /\ t \in response.start
    /\ tasks[t] = 0
    /\ response' = [response EXCEPT !.start = @ \ {t}]
    /\ tasks' = [tasks EXCEPT ![t] = up]
    /\ starting' = t
    /\ pc' = "getInstance"
    /\ UNCHANGED <<up, registered, ctxDone, warming>>
    /\ UNCHANGED <<cancelled, runner, held, standbyVars, instVars>>

(* getInstance() and the "go worker.runTask" that follows it *)

Run(t, i) ==
    /\ runner' = [runner EXCEPT ![t] = "starting"]
    /\ held' = [held EXCEPT ![t] = i]
    /\ starting' = None
    /\ pc' = "apply"
    /\ UNCHANGED <<up, registered, ctxDone, response, warming>>
    /\ UNCHANGED <<tasks, cancelled, standbyParameters>>

(* Mutant: the standby instance serves any task. *)
AnyStandbyMatches(t) == standbyParameters # None

StandbyMatches(t) == standbyParameters.isolation = TaskIsolation[t]

YieldStandby ==
    /\ pc = "getInstance"
    /\ standbyInstance # None
    /\ StandbyMatches(starting)
    /\ Run(starting, standbyInstance)
    /\ standbyInstance' = None
    /\ UNCHANGED instVars

TerminateStandby ==
    /\ pc = "getInstance"
    /\ standbyInstance # None
    /\ ~StandbyMatches(starting)
    /\ standbyInstance' = None
    /\ Close(standbyInstance)
    /\ UNCHANGED <<loopVars, taskVars, standbyParameters>>

NewInstance(i) ==
    /\ pc = "getInstance"
    /\ standbyInstance = None
    /\ TaskIsolation[starting] \in Allowed
    /\ New(i, TaskIsolation[starting], ResourcesToUse[starting])
    /\ Run(starting, i)
    /\ UNCHANGED standbyInstance

(* The error path: TaskFailed is sent and startTask() returns.  The entry  *)
(* it stored in worker.tasks stays.                                        *)
NewInstanceFails ==
    /\ pc = "getInstance"
    /\ standbyInstance = None
    /\ NewFails(TaskIsolation[starting], ResourcesToUse[starting])
    /\ starting' = None
    /\ pc' = "apply"
    /\ UNCHANGED <<up, registered, ctxDone, response, warming>>
    /\ UNCHANGED <<taskVars, standbyVars>>

(* The end of pollSingleUpstream(): shutdown, or UpdateStandby(). *)

Shutdown ==
    /\ pc = "apply"
    /\ response.start = {}
    /\ response.shutdown
    /\ response' = NoResponse
    /\ ctxDone' = TRUE
    /\ pc' = "stopped"
    /\ UNCHANGED <<up, registered, starting, warming>>
    /\ UNCHANGED <<taskVars, standbyVars, instVars>>

(* Mutants: the old standby instance is closed but not forgotten, or       *)
(* forgotten but not closed.                                               *)
UpdateStandbyKeepsClosed(parameters) ==
    /\ standbyParameters' = parameters
    /\ IF standbyInstance # None /\ standbyParameters # parameters
       THEN Close(standbyInstance) ELSE UNCHANGED instVars
    /\ UNCHANGED standbyInstance

UpdateStandbyWithoutClose(parameters) ==
    /\ standbyParameters' = parameters
    /\ standbyInstance' = IF standbyParameters = parameters THEN standbyInstance ELSE None
    /\ UNCHANGED instVars

UpdateStandby(parameters) ==
    IF standbyInstance # None /\ standbyParameters # parameters
    THEN /\ Close(standbyInstance)
         /\ standbyInstance' = None
         /\ standbyParameters' = parameters
    ELSE /\ standbyParameters' = parameters
         /\ UNCHANGED <<standbyInstance, instVars>>

ResponseApplied ==
    /\ pc = "apply"
    /\ response.start = {}
    /\ ~response.shutdown
    /\ IF response.standby = None THEN UNCHANGED <<standbyVars, instVars>>
                                  ELSE UpdateStandby(response.standby)
    /\ response' = NoResponse
    /\ NextUpstream
    /\ UNCHANGED <<registered, ctxDone, starting, warming>>
    /\ UNCHANGED taskVars

(* The select at the bottom of Run()'s loop *)

PollInterval ==
    /\ pc = "wait"
    /\ pc' = "standby"
    /\ UNCHANGED <<up, registered, ctxDone, response, starting, warming>>
    /\ UNCHANGED <<taskVars, standbyVars, instVars>>

Stop ==
    /\ pc = "wait"
    /\ ctxDone
    /\ pc' = "stopped"
    /\ UNCHANGED <<up, registered, ctxDone, response, starting, warming>>
    /\ UNCHANGED <<taskVars, standbyVars, instVars>>

(* Run()'s context is cancelled from outside. *)
Interrupt ==
    /\ ~ctxDone
    /\ ctxDone' = TRUE
    /\ UNCHANGED <<pc, up, registered, response, starting, warming>>
    /\ UNCHANGED <<taskVars, standbyVars, instVars>>

-----------------------------------------------------------------------------
(* runTask(), one goroutine per task *)

(* Mutant: the task runs under the worker's context, not under its own. *)
WorkerCtxDone(t) == ctxDone /\ t \in Task

TaskCtxDone(t) == ctxDone \/ t \in cancelled

RunnerMoves(t, from, to) ==
    /\ runner[t] = from
    /\ runner' = [runner EXCEPT ![t] = to]

TaskStarted(t) ==
    /\ ~TaskCtxDone(t)
    /\ RunnerMoves(t, "starting", "running")
    /\ UNCHANGED <<loopVars, tasks, cancelled, held, standbyVars, instVars>>

TaskStartedFails(t) ==
    /\ RunnerMoves(t, "starting", "closing")
    /\ UNCHANGED <<loopVars, tasks, cancelled, held, standbyVars, instVars>>

InstanceRunFails(t) ==
    /\ ~TaskCtxDone(t)
    /\ RunnerMoves(t, "running", "failing")
    /\ UNCHANGED <<loopVars, tasks, cancelled, held, standbyVars, instVars>>

InstanceRunReturns(t) ==
    /\ RunnerMoves(t, "running", "stopping")
    /\ UNCHANGED <<loopVars, tasks, cancelled, held, standbyVars, instVars>>

TaskFailed(t) ==
    /\ RunnerMoves(t, "failing", "stopping")
    /\ UNCHANGED <<loopVars, tasks, cancelled, held, standbyVars, instVars>>

TaskStopped(t) ==
    /\ RunnerMoves(t, "stopping", "closing")
    /\ UNCHANGED <<loopVars, tasks, cancelled, held, standbyVars, instVars>>

CloseInstance(t) ==
    /\ RunnerMoves(t, "closing", "completing")
    /\ Close(held[t])
    /\ held' = [held EXCEPT ![t] = None]
    /\ UNCHANGED <<loopVars, tasks, cancelled, standbyVars>>

-----------------------------------------------------------------------------
PollResponds ==
    \E stop, start \in SUBSET Task, shutdown \in BOOLEAN,
       update \in StandbyParams \cup {None} : Poll(stop, start, shutdown, update)

LoopStep ==
    \/ NoStandbyNeeded \/ CreateStandbyFails \/ WarmupSucceeds \/ WarmupFails
    \/ \E i \in Instance : CreateStandby(i) \/ NewInstance(i)
    \/ Register \/ RegisterFails \/ NoCompletions \/ PollResponds \/ PollFails
    \/ \E t \in Task : ReceiveCompletion(t) \/ StartAlreadyRunning(t) \/ StartTask(t)
    \/ YieldStandby \/ TerminateStandby \/ NewInstanceFails
    \/ Shutdown \/ ResponseApplied \/ PollInterval \/ Stop

RunnerStep(t) ==
    \/ TaskStarted(t) \/ TaskStartedFails(t)
    \/ InstanceRunFails(t) \/ InstanceRunReturns(t)
    \/ TaskFailed(t) \/ TaskStopped(t) \/ CloseInstance(t)

Next ==
    \/ LoopStep
    \/ Interrupt
    \/ \E t \in Task : RunnerStep(t)

Spec == Init /\ [][Next]_vars

(* Where the loop waits for somebody else without a limit of its own: for  *)
(* the guest of a standby machine, or for an upstream that has to answer   *)
(* Register(), Poll() or the TaskFailed() of a refused task.               *)
AwaitsAnswer ==
    \/ pc = "warmup"
    \/ pc = "register" /\ up \notin registered
    \/ pc = "poll"
    \/ /\ pc = "getInstance" /\ standbyInstance = None
       /\ TaskIsolation[starting] \notin Allowed

(* Every goroutine is scheduled, and what it waits for ends, with an error *)
(* at least, once the context it was given is done.  Nobody else has to    *)
(* answer, and who answers may fail every time.  TaskFailed and            *)
(* TaskStopped of runTask() have the limit perCallTimeout.                 *)
Fairness ==
    /\ WF_vars((AwaitsAnswer => ctxDone) /\ LoopStep)
    /\ \A t \in Task :
        /\ WF_vars(TaskCtxDone(t) /\ (TaskStartedFails(t) \/ InstanceRunReturns(t)))
        /\ WF_vars(TaskFailed(t) \/ TaskStopped(t) \/ CloseInstance(t))

FairSpec == Spec /\ Fairness

-----------------------------------------------------------------------------
TypeOK ==
    /\ pc \in LoopState
    /\ up \in Upstream
    /\ registered \subseteq Upstream
    /\ ctxDone \in BOOLEAN
    /\ response \in [start : SUBSET Task, shutdown : BOOLEAN,
                     standby : StandbyParams \cup {None}]
    /\ starting \in Task \cup {None}
    /\ warming \in Instance \cup {None}
    /\ tasks \in [Task -> {0} \cup Upstream]
    /\ cancelled \subseteq Task
    /\ standbyParameters \in StandbyParams \cup {None}
    /\ standbyInstance \in Instance \cup {None}
    /\ runner \in [Task -> RunnerState]
    /\ held \in [Task -> Instance \cup {None}]
    /\ isolationOf \in [Instance -> Isolation \cup {None}]
    /\ modifierOf \in [Instance -> {0} \cup Modifier]
    /\ locked \subseteq Modifier

Open(i) == isolationOf[i] # None

(* Instances are neither used after Close nor closed twice: whatever the   *)
(* goroutine of a task, the standby slot or the warm-up refers to is open, *)
(* and no two of them refer to the same instance.                          *)
NoStaleInstance ==
    /\ \A t \in Task : held[t] # None =>
            /\ Open(held[t])
            /\ held[t] \notin {standbyInstance, warming}
            /\ \A u \in Task \ {t} : held[u] # held[t]
    /\ standbyInstance # None => Open(standbyInstance) /\ warming = None
    /\ warming # None => Open(warming)

(* Whether somebody will close instance i or hand it over: the goroutine   *)
(* of a task (its deferred Close), the warm-up, or the loop (getInstance,  *)
(* UpdateStandby), which does nothing more once Run() has returned.        *)
Owned(i) ==
    \/ i = warming
    \/ i = standbyInstance /\ pc # "stopped"
    \/ \E t \in Task : held[t] = i

(* No instance is leaked while the worker runs: an open one has an owner   *)
(* that will close it or hand it over.  Once Run() has returned, the       *)
(* standby instance, and only that one, is left open with no owner:        *)
(* neither Run() nor Close() closes it.                                    *)
NoLeakedInstance ==
    \A i \in Instance : Open(i) /\ ~Owned(i) =>
        pc = "stopped" /\ i = standbyInstance

(* A task runs in the isolation it asked for, although getInstance()       *)
(* compares the task with worker.standbyParameters and never with the      *)
(* standby instance that it yields.                                        *)
RightIsolation ==
    \A t \in Task : held[t] # None => isolationOf[held[t]] = TaskIsolation[t]

(* Whatever the server assigns or configures as standby, no instance of an *)
(* isolation that the security settings forbid exists.                     *)
OnlyAllowedIsolations ==
    \A i \in Instance : Open(i) => isolationOf[i] \in Allowed

(* A goroutine that still works for a task can be found through            *)
(* worker.tasks, so that a stop request reaches it, a second start is      *)
(* refused and its completion is not spurious.                             *)
RunnersTracked == \A t \in Task : runner[t] # "none" => tasks[t] # 0

(* The instances that exist never use more than the worker has, although   *)
(* the standby instance is not part of what is reported to the server.     *)
CapacityRespected ==
    \A r \in Resource :
        ResourcesInUse({t \in Task : held[t] # None}, r)
          + (IF standbyInstance # None \/ warming # None
             THEN Amount(standbyParameters.resources, r) ELSE 0)
        <= Total[r]

(* "no `--device` will be passed to the `vetu run` more than once if a     *)
(* match occurs on a modifier that is already in use": the modifiers of    *)
(* open instances are pairwise different.                                  *)
ModifiersExclusive ==
    \A i, j \in Instance :
        modifierOf[i] # 0 /\ modifierOf[i] = modifierOf[j] => i = j

(* The loop waits for one answer for ever, or a standby instance cannot be *)
(* created or warmed up again and again.                                   *)
Hangs == <>[]AwaitsAnswer
NoStandbyInfinitelyOften == []<><<CreateStandbyFails \/ WarmupFails>>_vars

(* A task that got an instance and is stopped, or ended, leaves            *)
(* worker.tasks and so gives its resources back, unless the worker itself  *)
(* is stopped first, the loop hangs, or the standby instance keeps it from *)
(* coming to the completions (pollUpstreams() returns before the first     *)
(* upstream).  Polls and registrations that fail, every time even, do not  *)
(* keep a task.  One that got no instance stays: see CountedTasksRun.      *)
StoppedTasksLeave ==
    \/ Hangs
    \/ NoStandbyInfinitelyOften
    \/ \A t \in Task :
        (runner[t] # "none" /\ (t \in cancelled \/ runner[t] = "completing"))
            ~> (tasks[t] = 0 \/ ctxDone)

(* An upstream that is no longer polled has a cause, and only these are    *)
(* causes: the worker is stopped, the loop hangs, no standby instance can  *)
(* be had, the upstream itself refuses to register the worker again and    *)
(* again, or a Poll() of an upstream that comes before it fails again and  *)
(* again.  The failures of later upstreams, and registrations that fail at *)
(* other upstreams, starve nobody.                                         *)
EveryUpstreamPolled ==
    \/ Hangs
    \/ NoStandbyInfinitelyOften
    \/ \A u \in Upstream :
        \/ []<>((pc = "poll" /\ up = u) \/ ctxDone)
        \/ []<><<up = u /\ RegisterFails>>_vars
        \/ []<><<up < u /\ PollFails>>_vars

(* "Number of tasks running on the Persistent Worker": the tasks that      *)
(* worker.tasks counts have a goroutine, or are about to get one.          *)
CountedTasksRun ==
    \A t \in Task : tasks[t] # 0 => runner[t] # "none" \/ starting = t

=============================================================================
