----------------------------- MODULE Scheduler -----------------------------
(***************************************************************************)
(* From the dependencies a user wrote to the order in which tasks run: the *)
(* parser's check of the dependency graph and its service tasks            *)
(* (pkg/parser), the task filter of "cirrus run TASK"                      *)
(* (internal/executor/taskfilter), Build.GetNextTask()                     *)
(* (internal/executor/build) and the loop of Executor.Run()                *)
(* (internal/executor).  How a single task ends is TaskRun's business:     *)
(* here it succeeds, is skipped, or yields an error.                       *)
(***************************************************************************)
EXTENDS Integers, FiniteSets

CONSTANTS
    UserTask,     \* LocalGroupIds of the tasks in the configuration
    ServiceTask,  \* LocalGroupIds of service tasks, one per Dockerfile hash
    None

VARIABLES
    pc,           \* which part of the program runs
    requires,     \* RequiredGroups of each task
    dockerfile,   \* the service task that builds a task's image, or None
    satisfied,    \* satisfiedIDs of validateDependenciesDeep()
    round,        \* ghost: in which iteration a task was satisfied
    iteration,    \* ghost: the iterations of its loop so far
    tasks,        \* the tasks of the build
    status,       \* the status of each task
    current,      \* the task that runs
    firstErr,     \* Run() saw an error
    interrupted,  \* ... that tells that the context is done
    order         \* ghost: how many tasks had been run when a task was, or 0

graphVars == <<requires, dockerfile, satisfied, round, iteration>>
runVars == <<tasks, status, current, firstErr, interrupted, order>>
vars == <<pc, graphVars, runVars>>

Task == UserTask \cup ServiceTask

ASSUME SchedulerAssumption ==
    /\ UserTask \subseteq Nat /\ IsFiniteSet(UserTask)
    /\ ServiceTask \subseteq Nat /\ IsFiniteSet(ServiceTask)
    /\ UserTask \cap ServiceTask = {}
    /\ None \notin Task

-----------------------------------------------------------------------------
(* Any graph a user may write over the tasks that only_if left.  A task    *)
(* may be Skipped from the start, by its skip field, and one with nothing  *)
(* to do (no command besides the clone instruction, or only some that run  *)
(* on failure) has the computed status Succeeded.                          *)
Init ==
    /\ pc = "validate"
    /\ requires \in [Task -> SUBSET UserTask]
    /\ \A s \in ServiceTask : requires[s] = {}
    /\ dockerfile \in [Task -> ServiceTask \cup {None}]
    /\ \A s \in ServiceTask : dockerfile[s] = None
    /\ satisfied = {}
    /\ round = [t \in Task |-> 0] /\ iteration = 0
    /\ tasks = {}
    /\ status \in [Task -> {"New", "Skipped", "Succeeded"}]
    /\ \A s \in ServiceTask : status[s] = "New"
    /\ current = None /\ firstErr = FALSE /\ interrupted = FALSE
    /\ order = [t \in Task |-> 0]

NewlySatisfied == {t \in UserTask \ satisfied : requires[t] \subseteq satisfied}

(* An iteration of validateDependenciesDeep(). *)
Satisfy ==
    /\ pc = "validate" /\ NewlySatisfied # {}
    /\ satisfied' = satisfied \cup NewlySatisfied
    /\ iteration' = iteration + 1
    /\ round' = [t \in Task |-> IF t \in NewlySatisfied THEN iteration + 1
                                ELSE round[t]]
    /\ UNCHANGED <<pc, requires, dockerfile, runVars>>

(* Mutant: the loop goes on when an iteration satisfied nothing. *)
RejectNever ==
    /\ pc = "validate" /\ NewlySatisfied = {}
    /\ satisfied # UserTask
    /\ UNCHANGED vars

(* There is a circular dependency. *)
Reject ==
    /\ pc = "validate" /\ NewlySatisfied = {}
    /\ satisfied # UserTask
    /\ pc' = "rejected"
    /\ UNCHANGED <<graphVars, runVars>>

(* Mutant: tasks without a Dockerfile are not told apart. *)
ServiceOfAll(t) == {dockerfile[t]}

Service(t) == IF dockerfile[t] = None THEN {} ELSE {dockerfile[t]}

(* createServiceTasks(): one task per Dockerfile, required by its users. *)
CreateServiceTasks ==
    /\ pc = "validate" /\ NewlySatisfied = {}
    /\ satisfied = UserTask
    /\ requires' = [t \in Task |-> requires[t] \cup Service(t)]
    /\ tasks' = UserTask \cup UNION {Service(t) : t \in UserTask}
    /\ pc' = "filter"
    /\ UNCHANGED <<dockerfile, satisfied, round, iteration, status, current,
                   firstErr, interrupted, order>>

-----------------------------------------------------------------------------
(* taskfilter                                                              *)

Closed(S) == \A t \in S \cap tasks : requires[t] \cap tasks \subseteq S

(* Mutant: only direct dependencies are collected. *)
CollectDirect(matched) == matched \cup (UNION {requires[t] : t \in matched})

(* What collectDependencies() reaches from the tasks that matched. *)
CollectDependencies(matched) ==
    {t \in tasks : \A S \in SUBSET tasks : (matched \subseteq S /\ Closed(S)) => t \in S}

(* What matchTask() may select by name, alias and labels. *)
Matches == SUBSET tasks \ {{}}

MatchAnyTask ==
    /\ pc = "filter"
    /\ pc' = "run"
    /\ UNCHANGED <<graphVars, runVars>>

(* "cirrus run TASK" *)
MatchExactTask ==
    /\ pc = "filter"
    /\ \E matched \in Matches : tasks' = CollectDependencies(matched)
    /\ pc' = "run"
    /\ UNCHANGED <<graphVars, status, current, firstErr, interrupted, order>>

(* With --skip-dependencies, RequiredGroups of what matched are cleared. *)
MatchSkippingDependencies ==
    /\ pc = "filter"
    /\ \E matched \in Matches :
          /\ tasks' = matched
          /\ requires' = [t \in Task |-> IF t \in matched THEN {}
                                         ELSE requires[t]]
    /\ pc' = "run"
    /\ UNCHANGED <<dockerfile, satisfied, round, iteration, status, current,
                   firstErr, interrupted, order>>

NoMatch ==
    /\ pc = "filter"
    /\ pc' = "rejected"
    /\ UNCHANGED <<graphVars, runVars>>

-----------------------------------------------------------------------------
(* Build and Executor.Run()                                                *)

(* Mutant: dependencies are not looked at. *)
NoUnresolvedDependencies(t) == FALSE

TaskHasUnresolvedDependencies(t) ==
    \E r \in requires[t] : status[r] = "New"

(* Mutant: tasks that were skipped from the start block their dependents. *)
RunnableIfNotSkipped ==
    {t \in tasks : status[t] = "New"
                   /\ \A r \in requires[t] : status[r] \in {"Succeeded", "Failed"}}

(* The tasks GetNextTask() chooses from. *)
Runnable ==
    {t \in tasks : status[t] = "New" /\ ~TaskHasUnresolvedDependencies(t)}

(* GetNextTask() picks the one with the smallest ID. *)
RunNext ==
    /\ pc = "run" /\ current = None
    /\ \E t \in Runnable :
          /\ \A u \in Runnable : t <= u
          /\ current' = t
    /\ UNCHANGED <<pc, graphVars, tasks, status, firstErr, interrupted, order>>

Finish ==
    /\ pc = "run" /\ current = None /\ Runnable = {}
    /\ pc' = "done"
    /\ UNCHANGED <<graphVars, runVars>>

RunCount == Cardinality({t \in Task : order[t] # 0})

(* Mutant: nothing tells that a task succeeded. *)
TaskEndsUnmarked ==
    /\ current # None
    /\ order' = [order EXCEPT ![current] = RunCount + 1]
    /\ current' = None
    /\ UNCHANGED <<pc, graphVars, tasks, status, firstErr, interrupted>>

(* runSingleTask() returned no error, the task succeeded or was skipped. *)
TaskEnds ==
    /\ current # None
    /\ \E st \in {"Succeeded", "Skipped"} :
          status' = [status EXCEPT ![current] = st]
    /\ order' = [order EXCEPT ![current] = RunCount + 1]
    /\ current' = None
    /\ UNCHANGED <<pc, graphVars, tasks, firstErr, interrupted>>

(* It returned an error: the task failed, and its dependents will run. *)
TaskFails ==
    /\ current # None
    /\ status' = [status EXCEPT ![current] = "Failed"]
    /\ firstErr' = TRUE
    /\ order' = [order EXCEPT ![current] = RunCount + 1]
    /\ current' = None
    /\ UNCHANGED <<pc, graphVars, tasks, interrupted>>

(* The error is that the context is done: Run() leaves its loop. *)
TaskInterrupted ==
    /\ current # None
    /\ status' = [status EXCEPT ![current] = "Failed"]
    /\ firstErr' = TRUE /\ interrupted' = TRUE
    /\ order' = [order EXCEPT ![current] = RunCount + 1]
    /\ current' = None
    /\ pc' = "done"
    /\ UNCHANGED <<graphVars, tasks>>

Terminated == pc \in {"done", "rejected"} /\ UNCHANGED vars

Next ==
    \/ Satisfy \/ Reject \/ CreateServiceTasks
    \/ MatchAnyTask \/ MatchExactTask \/ MatchSkippingDependencies \/ NoMatch
    \/ RunNext \/ Finish \/ TaskEnds \/ TaskFails \/ TaskInterrupted
    \/ Terminated

Spec == Init /\ [][Next]_vars

(* Every part of the program is one thread that runs on; that a task ends  *)
(* is TaskRun's Returns.                                                   *)
FairSpec == Spec /\ WF_vars(Next)

-----------------------------------------------------------------------------
TypeOK ==
    /\ pc \in {"validate", "filter", "run", "done", "rejected"}
    /\ requires \in [Task -> SUBSET Task]
    /\ dockerfile \in [Task -> ServiceTask \cup {None}]
    /\ satisfied \subseteq UserTask
    /\ round \in [Task -> Nat] /\ iteration \in Nat
    /\ tasks \subseteq Task
    /\ status \in [Task -> {"New", "Succeeded", "Skipped", "Failed"}]
    /\ current \in Task \cup {None}
    /\ firstErr \in BOOLEAN /\ interrupted \in BOOLEAN
    /\ order \in [Task -> Nat]

(* Every dependency of a task of the build is a task of the build: the     *)
(* filter left none behind, and taskHasUnresolvedDependencies() finds what *)
(* it dereferences.                                                        *)
NoDanglingDependency ==
    pc \in {"run", "done"} => \A t \in tasks : requires[t] \subseteq tasks

(* Unless it was interrupted, Run() ends when every task of the build ran  *)
(* or was skipped: no task is left waiting for another one for ever.       *)
NothingLeftBehind ==
    (pc = "done" /\ ~interrupted) => \A t \in tasks : status[t] # "New"

(* A task that was run was run after each of its dependencies that was     *)
(* run.                                                                    *)
DependenciesFirst ==
    \A t \in tasks : \A r \in requires[t] :
        (order[t] # 0 /\ order[r] # 0) => order[r] < order[t]

(* Run() runs no task a second time, and none that was skipped or had      *)
(* nothing to do from the start: such a task is not New, and no task that  *)
(* is not becomes New again.                                               *)
RunAtMostOnce ==
    [][\A t \in Task :
          /\ order'[t] # order[t] => order[t] = 0 /\ status[t] = "New"
          /\ status[t] # "New" => status'[t] = status[t]]_vars

(* Run() returns an error if and only if a task of the build failed. *)
ErrorIffFailure ==
    firstErr <=> \E t \in tasks : status[t] = "Failed"

(* Run() ends. *)
Terminates == <>(pc \in {"done", "rejected"})
=============================================================================
