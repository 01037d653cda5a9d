-------------------------- MODULE SchedulerProofs --------------------------
(***************************************************************************)
(* Proofs about Scheduler, for every number of tasks and every graph.      *)
(***************************************************************************)
EXTENDS Scheduler, NatLemmas, FiniteSetTheorems

(* Before createServiceTasks() the graph is the user's. *)
UserGraph ==
    pc = "validate" =>
        /\ \A t \in Task : requires[t] \subseteq UserTask
        /\ tasks = {}
        /\ \A t \in ServiceTask : requires[t] = {} /\ dockerfile[t] = None

(* The iterations of validateDependenciesDeep() rank the tasks: what a     *)
(* satisfied task requires was satisfied in an earlier one.                *)
Ranked ==
    /\ \A t \in Task : round[t] <= iteration
    /\ \A t \in Task : t \in satisfied <=> round[t] >= 1
    /\ \A t \in satisfied : requires[t] \cap UserTask \subseteq satisfied
    /\ \A t \in satisfied : \A d \in requires[t] : round[d] < round[t]
    /\ pc \in {"filter", "run", "done"} => satisfied = UserTask
    /\ \A t \in ServiceTask : requires[t] = {}

(* No dependency leaves the build, before and after the filter. *)
ClosedBuild ==
    pc \in {"filter", "run", "done"} => \A t \in tasks : requires[t] \subseteq tasks

CurrentReady ==
    current # None =>
        /\ pc = "run" /\ current \in tasks
        /\ status[current] = "New"
        /\ ~TaskHasUnresolvedDependencies(current)

NothingRunnable == (pc = "done" /\ ~interrupted) => Runnable = {}

IndInv == TypeOK /\ UserGraph /\ Ranked /\ ClosedBuild /\ CurrentReady
          /\ NothingRunnable

-----------------------------------------------------------------------------
(* Init and every action keep the variables in their types. *)
LEMMA TypeInit == Init => TypeOK
<1> SUFFICES ASSUME Init PROVE TypeOK
  OBVIOUS
<1>1. requires \in [Task -> SUBSET Task]
  BY DEF Init, Task
<1>2. status \in [Task -> {"New", "Succeeded", "Skipped", "Failed"}]
  BY DEF Init
<1>3. round \in [Task -> Nat] /\ order \in [Task -> Nat]
  BY DEF Init
<1> QED BY <1>1, <1>2, <1>3 DEF Init, TypeOK

(* Type correctness is inductive: the graph, the statuses and the current  *)
(* task stay what GetNextTask() and Run() expect them to be.               *)
LEMMA TypeNext == TypeOK /\ [Next]_vars => TypeOK'
<1> SUFFICES ASSUME TypeOK, [Next]_vars PROVE TypeOK'
  OBVIOUS
<1> USE SchedulerAssumption DEF TypeOK, Task, graphVars, runVars
<1>1. CASE Satisfy
  <2>1. NewlySatisfied \subseteq UserTask
    BY DEF NewlySatisfied
  <2> QED BY <1>1, <2>1 DEF Satisfy
<1>2. CASE Reject
  BY <1>2 DEF Reject
<1>3. CASE CreateServiceTasks
  <2>1. \A t \in Task : Service(t) \subseteq ServiceTask
    BY DEF Service
  <2> QED BY <1>3, <2>1 DEF CreateServiceTasks
<1>4. CASE MatchAnyTask
  BY <1>4 DEF MatchAnyTask
<1>5. CASE MatchExactTask
  BY <1>5 DEF MatchExactTask, CollectDependencies
<1>6. CASE MatchSkippingDependencies
  BY <1>6 DEF MatchSkippingDependencies, Matches
<1>7. CASE NoMatch
  BY <1>7 DEF NoMatch
<1>8. CASE RunNext
  BY <1>8 DEF RunNext, Runnable
<1>9. CASE Finish
  BY <1>9 DEF Finish
<1>10. RunCount \in Nat
  <2>1. IsFiniteSet(Task)
    BY FS_Union
  <2>2. IsFiniteSet({t \in Task : order[t] # 0})
    BY <2>1, FS_Subset
  <2> QED BY <2>2, FS_CardinalityType DEF RunCount
<1>11. CASE TaskEnds
  BY <1>10, <1>11 DEF TaskEnds
<1>12. CASE TaskFails
  BY <1>10, <1>12 DEF TaskFails
<1>13. CASE TaskInterrupted
  BY <1>10, <1>13 DEF TaskInterrupted
<1>14. CASE Terminated
  BY <1>14 DEF Terminated, vars
<1>15. CASE UNCHANGED vars
  BY <1>15 DEF vars
<1> QED
  BY <1>1, <1>2, <1>3, <1>4, <1>5, <1>6, <1>7, <1>8, <1>9, <1>11, <1>12,
     <1>13, <1>14, <1>15 DEF Next

(* Every reachable state is well typed. *)
THEOREM TypeCorrect == Spec => []TypeOK
BY TypeInit, TypeNext, PTL DEF Spec

-----------------------------------------------------------------------------
(* The inductive invariant holds initially. *)
LEMMA IndInit == Init => IndInv
<1> SUFFICES ASSUME Init PROVE IndInv
  OBVIOUS
<1>1. TypeOK
  BY TypeInit
<1>2. UserGraph
  BY DEF Init, UserGraph
<1>3. Ranked
  BY DEF Init, Ranked, Task
<1> QED
  BY <1>1, <1>2, <1>3
     DEF IndInv, Init, ClosedBuild, CurrentReady, NothingRunnable

(* collectDependencies() returns a set that contains the dependencies of   *)
(* its members, given that the build does.                                 *)
LEMMA CollectClosed ==
    ASSUME NEW matched \in SUBSET tasks,
           \A t \in tasks : requires[t] \subseteq tasks
    PROVE  \A t \in CollectDependencies(matched) :
               requires[t] \subseteq CollectDependencies(matched)
<1> SUFFICES ASSUME NEW t \in CollectDependencies(matched), NEW d \in requires[t]
             PROVE  d \in CollectDependencies(matched)
  OBVIOUS
<1>1. t \in tasks /\ d \in tasks
  BY DEF CollectDependencies
<1>2. ASSUME NEW S \in SUBSET tasks, matched \subseteq S, Closed(S)
      PROVE  d \in S
  <2>1. t \in S
    BY <1>2 DEF CollectDependencies
  <2> QED BY <1>1, <1>2, <2>1 DEF Closed
<1> QED BY <1>1, <1>2 DEF CollectDependencies

(* Running a task changes neither the graph nor the build. *)
LEMMA EndStep ==
    ASSUME IndInv, TaskEnds \/ TaskFails \/ TaskInterrupted
    PROVE  UserGraph' /\ Ranked' /\ ClosedBuild' /\ CurrentReady'
           /\ NothingRunnable'
<1>1. UNCHANGED graphVars /\ UNCHANGED tasks /\ current' = None
  BY DEF TaskEnds, TaskFails, TaskInterrupted
<1>2. pc = "run" /\ (pc' = "run" \/ (pc' = "done" /\ interrupted'))
  BY DEF IndInv, CurrentReady, TaskEnds, TaskFails, TaskInterrupted
<1> QED
  BY <1>1, <1>2 DEF IndInv, UserGraph, Ranked, ClosedBuild, CurrentReady,
                    NothingRunnable, graphVars

(* Every step of Scheduler keeps the inductive invariant. *)
LEMMA IndNext == IndInv /\ [Next]_vars => IndInv'
<1> SUFFICES ASSUME IndInv, [Next]_vars PROVE IndInv'
  OBVIOUS
<1>0. TypeOK'
  BY TypeNext DEF IndInv
<1> USE DEF IndInv
<1>1. CASE Satisfy
  <2>1. pc = "validate" /\ pc' = "validate" /\ UNCHANGED <<requires, dockerfile>>
        /\ UNCHANGED runVars
    BY <1>1 DEF Satisfy
  <2>2. Ranked'
    <3> USE <1>1, <2>1 DEF Satisfy, TypeOK, Ranked
    <3>1. \A t \in Task : t \in NewlySatisfied => round'[t] = iteration + 1
      OBVIOUS
    <3>2. \A t \in Task : t \notin NewlySatisfied => round'[t] = round[t]
      OBVIOUS
    <3>3. NewlySatisfied \subseteq Task /\ NewlySatisfied \cap satisfied = {}
      BY DEF NewlySatisfied, Task
    <3>4. \A t \in Task : round'[t] <= iteration'
      BY <3>1, <3>2
    <3>5. \A t \in Task : t \in satisfied' <=> round'[t] >= 1
      BY <3>1, <3>2
    <3>6. ASSUME NEW t \in satisfied', NEW d \in requires[t]
          PROVE  round'[d] < round'[t]
      <4>1. t \in Task /\ d \in Task /\ d \in UserTask
        BY <3>3 DEF UserGraph, Task
      <4>2. CASE t \in NewlySatisfied
        <5>1. d \in satisfied /\ d \notin NewlySatisfied
          BY <4>2 DEF NewlySatisfied
        <5>2. round'[d] = round[d] /\ round[d] <= iteration
          BY <4>1, <5>1, <3>2
        <5>3. round'[t] = iteration + 1
          BY <4>1, <4>2, <3>1
        <5> QED BY <5>2, <5>3, <4>1
      <4>3. CASE t \notin NewlySatisfied
        <5>1. t \in satisfied /\ round[d] < round[t]
          BY <4>3
        <5>3. d \in satisfied
          BY <4>1, <5>1
        <5>4. d \notin NewlySatisfied
          BY <5>3, <3>3
        <5>5. round'[d] = round[d] /\ round'[t] = round[t]
          BY <5>4, <4>1, <4>3, <3>2
        <5> QED BY <5>1, <5>5
      <4> QED BY <4>2, <4>3
    <3>7. ASSUME NEW t \in satisfied'
          PROVE  requires[t] \cap UserTask \subseteq satisfied'
      BY DEF NewlySatisfied
    <3> QED BY <3>4, <3>5, <3>6, <3>7
  <2> QED
    BY <1>0, <2>1, <2>2 DEF UserGraph, ClosedBuild, CurrentReady,
                            NothingRunnable, runVars
<1>2. CASE Reject \/ NoMatch
  <2>1. UNCHANGED <<graphVars, runVars>> /\ pc' = "rejected" /\ pc # "run"
    BY <1>2 DEF Reject, NoMatch
  <2> QED
    BY <1>0, <2>1 DEF UserGraph, Ranked, ClosedBuild, CurrentReady,
                      NothingRunnable, graphVars, runVars
<1>3. CASE CreateServiceTasks
  <2> USE <1>3 DEF CreateServiceTasks
  <2>1. pc = "validate" /\ pc' = "filter" /\ satisfied = UserTask
        /\ satisfied' = satisfied /\ round' = round /\ iteration' = iteration
        /\ current' = current /\ status' = status
    OBVIOUS
  <2>2. \A t \in Task : requires'[t] = requires[t] \cup Service(t)
    BY DEF TypeOK
  <2>3. \A t \in Task : requires[t] \subseteq UserTask
    BY <2>1 DEF UserGraph
  <2>4. \A t \in ServiceTask : requires'[t] = {}
    BY <2>1, <2>2 DEF UserGraph, Service, Task
  <2>5. \A t \in Task : Service(t) \subseteq ServiceTask
    BY DEF Service, TypeOK
  <2>6. \A t \in Task : t \in ServiceTask => round[t] = 0
    <3>1. \A t \in ServiceTask : t \notin satisfied
      BY <2>1, SchedulerAssumption
    <3> QED BY <3>1 DEF Ranked, TypeOK
  <2>7. ASSUME NEW t \in satisfied, NEW d \in requires'[t]
        PROVE  round[d] < round[t]
    <3>1. t \in Task /\ round[t] >= 1 /\ round[t] \in Nat
      BY <2>1 DEF Ranked, TypeOK, Task
    <3>2. CASE d \in requires[t]
      BY <3>2 DEF Ranked
    <3>3. CASE d \in Service(t)
      <4>1. d \in ServiceTask /\ d \in Task
        BY <3>1, <3>3, <2>5 DEF Task
      <4> QED BY <4>1, <3>1, <2>6
    <3> QED BY <2>2, <3>1, <3>2, <3>3
  <2>8. ASSUME NEW t \in satisfied
        PROVE  requires'[t] \cap UserTask \subseteq satisfied
    BY <2>1
  <2>9. Ranked'
    BY <2>1, <2>4, <2>7, <2>8 DEF Ranked
  <2>10. ClosedBuild'
    <3>1. ASSUME NEW t \in tasks' PROVE requires'[t] \subseteq tasks'
      <4>1. CASE t \in UserTask
        BY <4>1, <2>2, <2>3 DEF Task
      <4>2. CASE t \notin UserTask
        <5>1. t \in ServiceTask
          BY <4>2, <1>0 DEF TypeOK, Task
        <5> QED BY <5>1, <2>4
      <4> QED BY <4>1, <4>2
    <3> QED BY <3>1 DEF ClosedBuild
  <2> QED
    BY <1>0, <2>1, <2>9, <2>10 DEF UserGraph, CurrentReady, NothingRunnable
<1>4. CASE MatchAnyTask
  <2>1. pc = "filter" /\ pc' = "run" /\ UNCHANGED <<graphVars, runVars>>
    BY <1>4 DEF MatchAnyTask
  <2> QED
    BY <1>0, <2>1 DEF UserGraph, Ranked, ClosedBuild, CurrentReady,
                      NothingRunnable, graphVars, runVars
<1>5. CASE MatchExactTask
  <2>1. pc = "filter" /\ pc' = "run" /\ UNCHANGED <<graphVars, current, status>>
    BY <1>5 DEF MatchExactTask
  <2>2. ClosedBuild'
    <3>1. \A t \in tasks : requires[t] \subseteq tasks
      BY <2>1 DEF ClosedBuild
    <3>2. PICK matched \in SUBSET tasks : tasks' = CollectDependencies(matched)
      BY <1>5 DEF MatchExactTask, Matches
    <3>3. \A t \in tasks' : requires[t] \subseteq tasks'
      BY <3>1, <3>2, CollectClosed
    <3> QED BY <2>1, <3>3 DEF ClosedBuild, graphVars
  <2> QED
    BY <1>0, <2>1, <2>2 DEF UserGraph, Ranked, CurrentReady, NothingRunnable,
                            graphVars
<1>6. CASE MatchSkippingDependencies
  <2>1. pc = "filter" /\ pc' = "run"
        /\ UNCHANGED <<satisfied, round, iteration, current, status>>
    BY <1>6 DEF MatchSkippingDependencies
  <2>2. \A t \in Task : requires'[t] \subseteq requires[t]
    BY <1>6 DEF MatchSkippingDependencies
  <2>3. \A t \in tasks' : requires'[t] = {}
    BY <1>6, <1>0 DEF MatchSkippingDependencies, TypeOK
  <2>4. Ranked'
    <3>1. satisfied \subseteq Task /\ ServiceTask \subseteq Task
      BY DEF TypeOK, Task
    <3>2. \A t \in satisfied : \A d \in requires'[t] : round[d] < round[t]
      BY <2>2, <3>1 DEF Ranked
    <3>3. \A t \in satisfied : requires'[t] \cap UserTask \subseteq satisfied
      BY <2>2, <3>1 DEF Ranked
    <3>4. \A t \in ServiceTask : requires'[t] = {}
      BY <2>2, <3>1 DEF Ranked
    <3> QED BY <2>1, <3>2, <3>3, <3>4 DEF Ranked
  <2> QED
    BY <1>0, <2>1, <2>3, <2>4 DEF UserGraph, ClosedBuild, CurrentReady,
                                  NothingRunnable
<1>7. CASE RunNext
  <2>1. pc = "run" /\ pc' = "run" /\ UNCHANGED <<graphVars, tasks, status>>
        /\ current' \in Runnable
    BY <1>7 DEF RunNext
  <2>2. CurrentReady'
    BY <2>1 DEF CurrentReady, Runnable, TaskHasUnresolvedDependencies, graphVars
  <2> QED
    BY <1>0, <2>1, <2>2 DEF UserGraph, Ranked, ClosedBuild, NothingRunnable,
                            graphVars
<1>8. CASE Finish
  <2>1. pc = "run" /\ pc' = "done" /\ UNCHANGED <<graphVars, runVars>>
        /\ Runnable = {} /\ current = None
    BY <1>8 DEF Finish
  <2>2. Runnable' = Runnable
    BY <2>1 DEF Runnable, TaskHasUnresolvedDependencies, graphVars, runVars
  <2> QED
    BY <1>0, <2>1, <2>2 DEF UserGraph, Ranked, ClosedBuild, CurrentReady,
                            NothingRunnable, graphVars, runVars
<1>9. CASE TaskEnds \/ TaskFails \/ TaskInterrupted
  BY <1>0, <1>9, EndStep
<1>10. CASE Terminated \/ UNCHANGED vars
  <2>1. UNCHANGED vars
    BY <1>10 DEF Terminated
  <2>2. Runnable' = Runnable
    BY <2>1 DEF Runnable, TaskHasUnresolvedDependencies, vars, graphVars, runVars
  <2> QED
    BY <1>0, <2>1, <2>2 DEF UserGraph, Ranked, ClosedBuild, CurrentReady,
       NothingRunnable, TaskHasUnresolvedDependencies, vars, graphVars, runVars
<1> QED
  BY <1>1, <1>2, <1>3, <1>4, <1>5, <1>6, <1>7, <1>8, <1>9, <1>10 DEF Next

(* The rank of tasks, the closed build and the readiness of the current    *)
(* task hold in every reachable state.                                     *)
THEOREM IndInvCorrect == Spec => []IndInv
BY IndInit, IndNext, PTL DEF Spec

-----------------------------------------------------------------------------
(* The filter leaves no task with a dependency outside of the build, so    *)
(* taskHasUnresolvedDependencies() never meets a missing task.             *)
THEOREM DependenciesExist == Spec => []NoDanglingDependency
<1>1. IndInv => NoDanglingDependency
  BY DEF IndInv, ClosedBuild, NoDanglingDependency
<1> QED BY <1>1, IndInvCorrect, PTL

(* In a graph that validateDependenciesDeep() accepted, whatever the       *)
(* filter kept of it, some unfinished task can run as long as there is one *)
(* that is unfinished: the one of least rank.                              *)
LEMMA SomeTaskRunnable ==
    ASSUME IndInv, pc \in {"run", "done"},
           NEW u \in tasks, status[u] = "New"
    PROVE  Runnable # {}
<1> DEFINE unfinished == {t \in tasks : status[t] = "New"}
           ranks == {round[t] : t \in unfinished}
<1>1. ranks \in SUBSET Nat /\ ranks # {}
  BY DEF IndInv, TypeOK
<1>2. PICK m \in ranks : \A n \in ranks : m <= n
  <2> HIDE DEF ranks
  <2> QED BY <1>1, LeastElement
<1>3. PICK t \in unfinished : round[t] = m
  BY <1>2
<1>4. t \in Task /\ round[t] \in Nat
  BY DEF IndInv, TypeOK
<1>5. ASSUME NEW d \in requires[t] PROVE status[d] # "New"
  <2>1. d \in tasks /\ d \in Task /\ round[d] \in Nat
    BY DEF IndInv, ClosedBuild, TypeOK
  <2>2. t \in satisfied
    BY <1>4 DEF IndInv, Ranked, Task
  <2>3. round[d] < round[t]
    BY <2>2 DEF IndInv, Ranked
  <2>4. d \notin unfinished
    BY <1>2, <1>3, <1>4, <2>1, <2>3
  <2> QED BY <2>1, <2>4
<1>6. t \in Runnable
  BY <1>5 DEF Runnable, TaskHasUnresolvedDependencies
<1> QED BY <1>6

(* Executor.Run(), unless it is interrupted, leaves no task of the build   *)
(* that neither ran nor was skipped, for every dependency graph.           *)
THEOREM AllTasksDone == Spec => []NothingLeftBehind
<1>1. IndInv => NothingLeftBehind
  <2> SUFFICES ASSUME IndInv, pc = "done", ~interrupted,
                      NEW t \in tasks, status[t] = "New"
               PROVE  FALSE
    BY DEF NothingLeftBehind
  <2>1. Runnable = {}
    BY DEF IndInv, NothingRunnable
  <2> QED BY <2>1, SomeTaskRunnable
<1> QED BY <1>1, IndInvCorrect, PTL

-----------------------------------------------------------------------------
(* What is true of the tasks that were run, of their order and of the      *)
(* verdict of Run(), in every state.                                       *)
Ran == {t \in Task : order[t] # 0}

RanAreDone ==
    \A t \in Ran : t \in tasks /\ status[t] # "New"
                 /\ ~TaskHasUnresolvedDependencies(t)

OrderBounded == \A t \in Task : order[t] <= RunCount

NothingRanYet ==
    pc \in {"validate", "filter", "rejected"} =>
        Ran = {} /\ ~firstErr /\ \A t \in Task : status[t] # "Failed"

HistInv == IndInv /\ RanAreDone /\ OrderBounded /\ NothingRanYet
           /\ DependenciesFirst /\ ErrorIffFailure

(* HistInv holds initially. *)
LEMMA HistInit == Init => HistInv
<1> SUFFICES ASSUME Init PROVE HistInv
  OBVIOUS
<1>1. IndInv
  BY IndInit
<1>2. Ran = {} /\ \A t \in Task : order[t] = 0
  BY DEF Init, Ran
<1>3. RunCount = 0
  BY <1>2, FS_EmptySet DEF RunCount, Ran
<1>4. \A t \in Task : status[t] # "Failed"
  BY DEF Init
<1>5. tasks = {} /\ ~firstErr
  BY DEF Init
<1> QED
  BY <1>1, <1>2, <1>3, <1>4, <1>5 DEF HistInv, RanAreDone, OrderBounded,
     NothingRanYet, DependenciesFirst, ErrorIffFailure

(* Before Run() starts, nothing that a step changes matters to HistInv:    *)
(* no task was run.                                                        *)
LEMMA HistBefore ==
    ASSUME HistInv, TypeOK', pc \in {"validate", "filter"},
           UNCHANGED <<status, firstErr, order>>
    PROVE  RanAreDone' /\ OrderBounded' /\ NothingRanYet'
           /\ DependenciesFirst' /\ ErrorIffFailure'
<1>1. Ran = {} /\ ~firstErr /\ \A t \in Task : status[t] # "Failed"
  BY DEF HistInv, NothingRanYet
<1>2. Ran' = {} /\ RunCount' = RunCount
  BY <1>1 DEF Ran, RunCount
<1>3. tasks' \subseteq Task /\ \A t \in tasks' : order'[t] = 0
  BY <1>1 DEF Ran, TypeOK
<1>4. OrderBounded'
  BY <1>2 DEF HistInv, OrderBounded
<1> QED
  BY <1>1, <1>2, <1>3, <1>4 DEF RanAreDone, NothingRanYet, DependenciesFirst,
     ErrorIffFailure

(* Where the graph, the build, the statuses and the order stay, so does    *)
(* what is said of them.                                                   *)
LEMMA HistSame ==
    ASSUME HistInv, UNCHANGED <<requires, tasks, status, firstErr, order>>,
           pc' # pc => pc' = "done"
    PROVE  RanAreDone' /\ OrderBounded' /\ NothingRanYet'
           /\ DependenciesFirst' /\ ErrorIffFailure'
<1>1. Ran' = Ran /\ RunCount' = RunCount
  BY DEF Ran, RunCount
<1>2. RanAreDone'
  BY <1>1 DEF HistInv, RanAreDone, TaskHasUnresolvedDependencies
<1>3. OrderBounded' /\ NothingRanYet'
  BY <1>1 DEF HistInv, OrderBounded, NothingRanYet
<1>4. DependenciesFirst' /\ ErrorIffFailure'
  BY DEF HistInv, DependenciesFirst, ErrorIffFailure
<1> QED BY <1>2, <1>3, <1>4

(* A task that ends is the last that was run, and everything it required   *)
(* was run or skipped before.                                              *)
LEMMA HistEnd ==
    ASSUME HistInv, IndInv', TaskEnds \/ TaskFails \/ TaskInterrupted
    PROVE  RanAreDone' /\ OrderBounded' /\ NothingRanYet'
           /\ DependenciesFirst' /\ ErrorIffFailure'
<1> DEFINE c == current
<1>1. c \in Task /\ c \in tasks /\ status[c] = "New" /\ c \notin Ran
      /\ ~TaskHasUnresolvedDependencies(c) /\ pc = "run"
  BY DEF HistInv, IndInv, CurrentReady, RanAreDone, TypeOK, TaskEnds, TaskFails,
         TaskInterrupted
<1>2. UNCHANGED <<requires, tasks>> /\ pc' \in {"run", "done"}
      /\ order' = [order EXCEPT ![c] = RunCount + 1]
  BY <1>1 DEF TaskEnds, TaskFails, TaskInterrupted, graphVars
<1>3. PICK st \in {"Succeeded", "Skipped", "Failed"} :
        /\ status' = [status EXCEPT ![c] = st]
        /\ st = "Failed" => firstErr'
        /\ st # "Failed" => firstErr' = firstErr
  BY DEF TaskEnds, TaskFails, TaskInterrupted
<1>4. status'[c] = st /\ \A t \in Task : t # c => status'[t] = status[t]
  BY <1>1, <1>3 DEF HistInv, IndInv, TypeOK
<1>5. order'[c] = RunCount + 1 /\ \A t \in Task : t # c => order'[t] = order[t]
  BY <1>1, <1>2 DEF HistInv, IndInv, TypeOK
<1>6. RunCount \in Nat /\ RunCount' = RunCount + 1
  <2>1. IsFiniteSet(Task)
    BY FS_Union, SchedulerAssumption DEF Task
  <2>2. IsFiniteSet(Ran)
    BY <2>1, FS_Subset DEF Ran
  <2>3. Cardinality(Ran) \in Nat
    BY <2>2, FS_CardinalityType
  <2>4. Ran' = Ran \cup {c}
    BY <1>1, <1>5, <2>3 DEF Ran, RunCount
  <2>5. Cardinality(Ran \cup {c}) = Cardinality(Ran) + 1
    BY <1>1, <2>2, FS_AddElement
  <2> QED BY <2>3, <2>4, <2>5 DEF Ran, RunCount
<1>7. Ran' = Ran \cup {c}
  BY <1>1, <1>5, <1>6 DEF Ran
<1>8. \A t \in tasks : requires[t] \subseteq Task /\ t \in Task
  BY DEF HistInv, IndInv, TypeOK
<1>9. RanAreDone'
  <2> SUFFICES ASSUME NEW t \in Ran \cup {c}
               PROVE  t \in tasks /\ status'[t] # "New"
                      /\ \A r \in requires[t] : status'[r] # "New"
    BY <1>2, <1>7 DEF RanAreDone, TaskHasUnresolvedDependencies
  <2>1. t \in tasks /\ t \in Task /\ \A r \in requires[t] : status[r] # "New"
    BY <1>1 DEF HistInv, RanAreDone, TaskHasUnresolvedDependencies, Ran
  <2>2. t # c => status[t] # "New"
    BY DEF HistInv, RanAreDone
  <2> QED BY <1>4, <1>8, <2>1, <2>2
<1>10. OrderBounded'
  <2> SUFFICES ASSUME NEW t \in Task PROVE order'[t] <= RunCount'
    BY DEF OrderBounded
  <2>1. order[t] \in Nat /\ order[t] <= RunCount
    BY DEF HistInv, IndInv, TypeOK, OrderBounded
  <2> QED BY <1>5, <1>6, <2>1
<1>11. DependenciesFirst'
  <2> SUFFICES ASSUME NEW t \in tasks, NEW r \in requires[t],
                      order'[t] # 0, order'[r] # 0
               PROVE  order'[r] < order'[t]
    BY <1>2 DEF DependenciesFirst
  <2>1. t \in Task /\ r \in Task /\ order[r] \in Nat /\ order[r] <= RunCount
    BY <1>8 DEF HistInv, IndInv, TypeOK, OrderBounded
  <2>2. CASE t = c
    <3>1. r # c
      BY <1>1, <2>2 DEF TaskHasUnresolvedDependencies
    <3> QED BY <1>5, <1>6, <2>1, <2>2, <3>1
  <2>3. CASE t # c
    <3>1. order'[t] = order[t] /\ t \in Ran
      BY <1>5, <2>1, <2>3 DEF Ran
    <3>2. r # c
      BY <1>1, <3>1 DEF HistInv, RanAreDone, TaskHasUnresolvedDependencies
    <3>3. order'[r] = order[r]
      BY <1>5, <2>1, <3>2
    <3> QED BY <3>1, <3>3 DEF HistInv, DependenciesFirst
  <2> QED BY <2>2, <2>3
<1>12. ErrorIffFailure'
  <2>1. firstErr <=> \E t \in tasks : status[t] = "Failed"
    BY DEF HistInv, ErrorIffFailure
  <2>2. \A t \in tasks : t # c => status'[t] = status[t]
    BY <1>4, <1>8
  <2>3. CASE st = "Failed"
    BY <1>1, <1>2, <1>3, <1>4, <2>3 DEF ErrorIffFailure
  <2>4. CASE st # "Failed"
    BY <1>1, <1>2, <1>3, <1>4, <2>1, <2>2, <2>4 DEF ErrorIffFailure
  <2> QED BY <2>3, <2>4
<1>13. NothingRanYet'
  BY <1>2 DEF NothingRanYet
<1> QED BY <1>9, <1>10, <1>11, <1>12, <1>13

(* Every step of Scheduler keeps HistInv. *)
LEMMA HistNext == HistInv /\ [Next]_vars => HistInv'
<1> SUFFICES ASSUME HistInv, [Next]_vars PROVE HistInv'
  OBVIOUS
<1>0. IndInv' /\ TypeOK'
  BY IndNext DEF HistInv, IndInv
<1> USE DEF graphVars, runVars
<1>1. CASE Satisfy \/ CreateServiceTasks \/ MatchAnyTask \/ MatchExactTask
           \/ MatchSkippingDependencies \/ Reject \/ NoMatch
  <2>1. pc \in {"validate", "filter"} /\ UNCHANGED <<status, firstErr, order>>
    BY <1>1 DEF Satisfy, CreateServiceTasks, MatchAnyTask, MatchExactTask,
                MatchSkippingDependencies, Reject, NoMatch
  <2> QED BY <1>0, <2>1, HistBefore DEF HistInv
<1>2. CASE RunNext \/ Finish \/ Terminated \/ UNCHANGED vars
  <2>1. UNCHANGED <<requires, tasks, status, firstErr, order>>
        /\ (pc' # pc => pc' = "done")
    BY <1>2 DEF RunNext, Finish, Terminated, vars
  <2> QED BY <1>0, <2>1, HistSame DEF HistInv
<1>3. CASE TaskEnds \/ TaskFails \/ TaskInterrupted
  BY <1>0, <1>3, HistEnd DEF HistInv
<1> QED BY <1>1, <1>2, <1>3 DEF Next

(* Tasks are run after what they require, whatever the graph, the filter,  *)
(* the results and the IDs by which GetNextTask() chooses.                 *)
THEOREM DependenciesRunFirst == Spec => []DependenciesFirst
<1>1. HistInv => DependenciesFirst
  BY DEF HistInv
<1> QED BY <1>1, HistInit, HistNext, PTL DEF Spec

(* Executor.Run() returns an error exactly when a task of the build        *)
(* failed.                                                                 *)
THEOREM VerdictIsRight == Spec => []ErrorIffFailure
<1>1. HistInv => ErrorIffFailure
  BY DEF HistInv
<1> QED BY <1>1, HistInit, HistNext, PTL DEF Spec

(* The loop of Executor.Run() runs no task a second time, and none that    *)
(* was skipped or had nothing to do from the start.                        *)
THEOREM NoTaskTwice == Spec => RunAtMostOnce
<1> DEFINE A == \A t \in Task :
                  /\ order'[t] # order[t] => order[t] = 0 /\ status[t] = "New"
                  /\ status[t] # "New" => status'[t] = status[t]
<1>1. HistInv /\ [Next]_vars => [A]_vars
  <2> SUFFICES ASSUME HistInv, Next PROVE A
    OBVIOUS
  <2>1. CASE TaskEnds \/ TaskFails \/ TaskInterrupted
    <3>1. /\ current \notin Ran /\ current \in Task /\ status[current] = "New"
          /\ order' = [order EXCEPT ![current] = RunCount + 1]
      BY <2>1 DEF HistInv, IndInv, CurrentReady, RanAreDone, TaskEnds, TaskFails,
                  TaskInterrupted, TypeOK
    <3>2. \A t \in Task : t # current => status'[t] = status[t]
      BY <2>1 DEF HistInv, IndInv, TypeOK, TaskEnds, TaskFails, TaskInterrupted
    <3>3. \A t \in Task : t # current => order'[t] = order[t]
      BY <3>1 DEF HistInv, IndInv, TypeOK
    <3> QED BY <3>1, <3>2, <3>3 DEF Ran
  <2>2. CASE ~(TaskEnds \/ TaskFails \/ TaskInterrupted)
    BY <2>2 DEF Next, Satisfy, CreateServiceTasks, MatchAnyTask, MatchExactTask,
       MatchSkippingDependencies, Reject, NoMatch, RunNext, Finish, Terminated,
       vars, graphVars, runVars
  <2> QED BY <2>1, <2>2
<1> QED BY <1>1, HistInit, HistNext, PTL DEF Spec, RunAtMostOnce, A
=============================================================================
