---------------------------- MODULE WorkerProofs ----------------------------
(***************************************************************************)
(* Proofs about the persistent worker: type correctness, the inductive     *)
(* invariant on tasks, standby instances and modifiers, and the capacity   *)
(* invariant built on top of it.                                           *)
(***************************************************************************)
EXTENDS Worker, NatLemmas, TLAPS, FiniteSetTheorems

-----------------------------------------------------------------------------
(* Manager.Acquire returns nil or an unlocked modifier. *)
LEMMA AcquireUnlocked ==
    ASSUME NEW request
    PROVE  Acquire(request) = 0 \/ Acquire(request) \in Modifier \ locked
<1> DEFINE free == {m \in Modifier : Matches(m, request) /\ m \notin locked}
           least == CHOOSE m \in free : \A n \in free : m <= n
<1>1. free \in SUBSET Nat
  BY ConstantsAssumption DEF Modifier
<1>2. ASSUME free # {} PROVE least \in free
  <2> HIDE DEF free
  <2>1. \E m \in free : \A n \in free : m <= n
    BY <1>1, <1>2, LeastElement
  <2> QED BY <2>1
<1>3. Acquire(request) = IF free = {} THEN 0 ELSE least
  BY DEF Acquire
<1> QED BY <1>2, <1>3

(* What New and Close do to the instances, in the form the proofs use. *)
LEMMA NewType ==
    ASSUME NEW i \in Instance, NEW isolation \in Isolation, NEW request,
           TypeOK, New(i, isolation, request)
    PROVE  /\ isolationOf' \in [Instance -> Isolation \cup {None}]
           /\ modifierOf' \in [Instance -> {0} \cup Modifier]
           /\ locked' \subseteq Modifier
<1>1. Acquire(request) \in {0} \cup Modifier
  BY AcquireUnlocked
<1> QED BY <1>1 DEF New, TypeOK

LEMMA NewFailsType ==
    ASSUME NEW isolation, NEW request, TypeOK, NewFails(isolation, request)
    PROVE  /\ isolationOf' \in [Instance -> Isolation \cup {None}]
           /\ modifierOf' \in [Instance -> {0} \cup Modifier]
           /\ locked' \subseteq Modifier
<1>1. Acquire(request) \in {0} \cup Modifier
  BY AcquireUnlocked
<1> QED BY <1>1 DEF NewFails, TypeOK

LEMMA CloseType ==
    ASSUME NEW i, TypeOK, Close(i)
    PROVE  /\ isolationOf' \in [Instance -> Isolation \cup {None}]
           /\ modifierOf' \in [Instance -> {0} \cup Modifier]
           /\ locked' \subseteq Modifier
BY DEF Close, TypeOK

LEMMA NextUpstreamType ==
    ASSUME TypeOK, NextUpstream
    PROVE  up' \in Upstream /\ pc' \in LoopState
BY ConstantsAssumption DEF TypeOK, NextUpstream, Upstream, LoopState

-----------------------------------------------------------------------------
(* TypeOK is inductive by itself. *)
LEMMA TypeInit == Init => TypeOK
<1> SUFFICES ASSUME Init PROVE TypeOK
  OBVIOUS
<1>1. 1 \in Upstream
  BY ConstantsAssumption DEF Upstream
<1>2. NoResponse \in [start : SUBSET Task, shutdown : BOOLEAN,
                      standby : StandbyParams \cup {None}]
  BY DEF NoResponse
<1>3. /\ tasks \in [Task -> {0} \cup Upstream]
      /\ runner \in [Task -> RunnerState]
      /\ held \in [Task -> Instance \cup {None}]
      /\ isolationOf \in [Instance -> Isolation \cup {None}]
      /\ modifierOf \in [Instance -> {0} \cup Modifier]
  BY DEF Init, RunnerState
<1> QED BY <1>1, <1>2, <1>3 DEF Init, TypeOK, LoopState

LEMMA LoopStepType == TypeOK /\ LoopStep => TypeOK'
<1> SUFFICES ASSUME TypeOK, LoopStep PROVE TypeOK'
  OBVIOUS
<1> USE ConstantsAssumption
<1> USE DEF TypeOK, LoopState, RunnerState, Upstream, loopVars, taskVars, standbyVars, instVars
<1>1. CASE NoStandbyNeeded
  BY <1>1 DEF NoStandbyNeeded
<1>2. CASE CreateStandbyFails
  BY <1>2, NewFailsType DEF CreateStandbyFails
<1>3. CASE WarmupSucceeds
  BY <1>3 DEF WarmupSucceeds
<1>4. CASE WarmupFails
  BY <1>4, CloseType DEF WarmupFails
<1>5. CASE Register
  BY <1>5 DEF Register
<1>6. CASE RegisterFails
  BY <1>6, NextUpstreamType DEF RegisterFails
<1>7. CASE NoCompletions
  BY <1>7 DEF NoCompletions
<1>8. CASE PollFails
  BY <1>8 DEF PollFails
<1>9. CASE YieldStandby
  BY <1>9 DEF YieldStandby, Run
<1>10. CASE TerminateStandby
  BY <1>10, CloseType DEF TerminateStandby
<1>11. CASE NewInstanceFails
  BY <1>11, NewFailsType DEF NewInstanceFails
<1>12. CASE Shutdown
  BY <1>12 DEF Shutdown, NoResponse
<1>13. CASE PollInterval
  BY <1>13 DEF PollInterval
<1>14. CASE Stop
  BY <1>14 DEF Stop
<1>15. ASSUME NEW i \in Instance, CreateStandby(i) PROVE TypeOK'
  <2>1. standbyParameters.isolation \in Isolation
    BY <1>15 DEF CreateStandby
  <2> QED BY <1>15, <2>1, NewType DEF CreateStandby
<1>16. ASSUME NEW i \in Instance, NewInstance(i) PROVE TypeOK'
  <2>1. TaskIsolation[starting] \in Isolation
    BY <1>16 DEF NewInstance
  <2> QED BY <1>16, <2>1, NewType DEF NewInstance, Run
<1>17. ASSUME NEW t \in Task, ReceiveCompletion(t) PROVE TypeOK'
  BY <1>17 DEF ReceiveCompletion
<1>18. ASSUME NEW t \in Task, StartAlreadyRunning(t) PROVE TypeOK'
  BY <1>18 DEF StartAlreadyRunning
<1>19. ASSUME NEW t \in Task, StartTask(t) PROVE TypeOK'
  BY <1>19 DEF StartTask
<1>20. CASE PollResponds
  BY <1>20 DEF PollResponds, Poll, StopTasks
<1>21. CASE ResponseApplied
  <2>1. response' = NoResponse /\ NextUpstream /\ UNCHANGED <<registered, ctxDone, starting, warming, taskVars>>
    BY <1>21 DEF ResponseApplied
  <2>2. response' \in [start : SUBSET Task, shutdown : BOOLEAN, standby : StandbyParams \cup {None}]
    BY <2>1 DEF NoResponse
  <2>3. CASE UNCHANGED <<standbyVars, instVars>>
    BY <2>1, <2>2, <2>3, NextUpstreamType
  <2>4. CASE response.standby # None /\ UpdateStandby(response.standby)
    BY <2>1, <2>2, <2>4, NextUpstreamType, CloseType DEF UpdateStandby
  <2> QED BY <1>21, <2>3, <2>4 DEF ResponseApplied
<1> QED
  BY <1>1, <1>2, <1>3, <1>4, <1>5, <1>6, <1>7, <1>8, <1>9, <1>10, <1>11, <1>12, <1>13, <1>14, <1>15, <1>16, <1>17, <1>18, <1>19, <1>20, <1>21 DEF LoopStep

LEMMA RunnerStepType ==
    ASSUME TypeOK, NEW t \in Task, RunnerStep(t)
    PROVE  TypeOK'
<1> USE DEF TypeOK, RunnerState, RunnerMoves, loopVars, taskVars, standbyVars, instVars
<1>1. CASE TaskStarted(t)
  BY <1>1 DEF TaskStarted
<1>2. CASE TaskStartedFails(t)
  BY <1>2 DEF TaskStartedFails
<1>3. CASE InstanceRunFails(t)
  BY <1>3 DEF InstanceRunFails
<1>4. CASE InstanceRunReturns(t)
  BY <1>4 DEF InstanceRunReturns
<1>5. CASE TaskFailed(t)
  BY <1>5 DEF TaskFailed
<1>6. CASE TaskStopped(t)
  BY <1>6 DEF TaskStopped
<1>7. CASE CloseInstance(t)
  BY <1>7, CloseType DEF CloseInstance
<1> QED BY <1>1, <1>2, <1>3, <1>4, <1>5, <1>6, <1>7 DEF RunnerStep

LEMMA TypeStep == TypeOK /\ [Next]_vars => TypeOK'
<1> SUFFICES ASSUME TypeOK, [Next]_vars PROVE TypeOK'
  OBVIOUS
<1>1. CASE LoopStep
  BY <1>1, LoopStepType
<1>2. CASE Interrupt
  BY <1>2 DEF Interrupt, TypeOK, taskVars, standbyVars, instVars
<1>3. CASE \E t \in Task : RunnerStep(t)
  BY <1>3, RunnerStepType
<1>4. CASE UNCHANGED vars
  BY <1>4 DEF vars, loopVars, taskVars, standbyVars, instVars, TypeOK
<1> QED BY <1>1, <1>2, <1>3, <1>4 DEF Next

(* Every variable keeps its type, for any number of tasks, upstreams,      *)
(* instances and modifiers.                                                *)
THEOREM TypeCorrect == Spec => []TypeOK
BY TypeInit, TypeStep, PTL DEF Spec

-----------------------------------------------------------------------------
(* The inductive invariant.  The properties of Worker about instances are  *)
(* not inductive: that an instance is closed once needs where the loop and *)
(* the goroutines are when they hold one (Bookkeeping), that a task gets   *)
(* its isolation needs what the standby was created from (StandbyMatch),   *)
(* and that no modifier is shared needs the locks (ModifiersLocked).       *)
Bookkeeping ==
    /\ starting # None <=> pc = "getInstance"
    /\ starting # None => tasks[starting] # 0 /\ runner[starting] = "none"
    /\ warming # None <=> pc = "warmup"
    /\ \A t \in Task : held[t] = None <=> runner[t] \in {"none", "completing"}
    /\ RunnersTracked

StandbyMatch ==
    /\ standbyInstance # None =>
            /\ standbyParameters # None
            /\ isolationOf[standbyInstance] = standbyParameters.isolation
    /\ warming # None =>
            /\ standbyParameters # None
            /\ isolationOf[warming] = standbyParameters.isolation

(* Each open instance is held by a goroutine, the slot or the warm-up. *)
EveryInstanceHeld ==
    \A i \in Instance : Open(i) =>
        i \in {standbyInstance, warming} \/ \E t \in Task : held[t] = i

Instances ==
    /\ StandbyMatch
    /\ NoStaleInstance
    /\ EveryInstanceHeld
    /\ RightIsolation
    /\ OnlyAllowedIsolations

ModifiersLocked == \A i \in Instance : modifierOf[i] # 0 => modifierOf[i] \in locked

IndInv == TypeOK /\ Bookkeeping /\ Instances /\ ModifiersLocked /\ ModifiersExclusive

LEMMA IndInvInit == Init => IndInv
<1> SUFFICES ASSUME Init PROVE IndInv
  OBVIOUS
<1>1. TypeOK
  BY TypeInit
<1>2. Bookkeeping
  BY DEF Init, Bookkeeping, RunnersTracked
<1>3. Instances
  BY DEF Init, Instances, StandbyMatch, NoStaleInstance, EveryInstanceHeld,
         RightIsolation, OnlyAllowedIsolations, Open
<1>4. ModifiersLocked /\ ModifiersExclusive
  BY DEF Init, ModifiersLocked, ModifiersExclusive
<1> QED BY <1>1, <1>2, <1>3, <1>4 DEF IndInv

(* Where the loop and the goroutines are. *)
LEMMA BookkeepingStep == IndInv /\ [Next]_vars => Bookkeeping'
<1> SUFFICES ASSUME TypeOK, Bookkeeping, [Next]_vars PROVE Bookkeeping'
  BY DEF IndInv
<1> USE ConstantsAssumption
<1> USE DEF Bookkeeping, RunnersTracked, TypeOK, loopVars, taskVars
<1>1. CASE NoStandbyNeeded
  BY <1>1 DEF NoStandbyNeeded
<1>2. CASE CreateStandbyFails
  BY <1>2 DEF CreateStandbyFails
<1>3. CASE WarmupSucceeds
  BY <1>3 DEF WarmupSucceeds
<1>4. CASE WarmupFails
  BY <1>4 DEF WarmupFails
<1>5. CASE Register
  BY <1>5 DEF Register
<1>6. CASE RegisterFails
  BY <1>6 DEF RegisterFails, NextUpstream
<1>7. CASE NoCompletions
  BY <1>7 DEF NoCompletions
<1>8. CASE PollFails
  BY <1>8 DEF PollFails
<1>9. CASE PollResponds
  BY <1>9 DEF PollResponds, Poll, StopTasks
<1>10. CASE YieldStandby
  BY <1>10 DEF YieldStandby, Run, RunnerState
<1>11. CASE TerminateStandby
  BY <1>11 DEF TerminateStandby
<1>12. CASE NewInstanceFails
  BY <1>12 DEF NewInstanceFails
<1>13. CASE Shutdown
  BY <1>13 DEF Shutdown
<1>14. CASE ResponseApplied
  BY <1>14 DEF ResponseApplied, NextUpstream
<1>15. CASE PollInterval
  BY <1>15 DEF PollInterval
<1>16. CASE Stop
  BY <1>16 DEF Stop
<1>17. CASE Interrupt
  BY <1>17 DEF Interrupt
<1>18. ASSUME NEW i \in Instance, CreateStandby(i) PROVE Bookkeeping'
  BY <1>18 DEF CreateStandby
<1>19. ASSUME NEW i \in Instance, NewInstance(i) PROVE Bookkeeping'
  BY <1>19 DEF NewInstance, Run, RunnerState
<1>20. ASSUME NEW t \in Task, ReceiveCompletion(t) PROVE Bookkeeping'
  BY <1>20 DEF ReceiveCompletion
<1>21. ASSUME NEW t \in Task, StartAlreadyRunning(t) PROVE Bookkeeping'
  BY <1>21 DEF StartAlreadyRunning
<1>22. ASSUME NEW t \in Task, StartTask(t) PROVE Bookkeeping'
  BY <1>22 DEF StartTask, Upstream
<1>23. ASSUME NEW t \in Task, TaskStarted(t) PROVE Bookkeeping'
  BY <1>23 DEF TaskStarted, RunnerMoves
<1>24. ASSUME NEW t \in Task, TaskStartedFails(t) PROVE Bookkeeping'
  BY <1>24 DEF TaskStartedFails, RunnerMoves
<1>25. ASSUME NEW t \in Task, InstanceRunFails(t) PROVE Bookkeeping'
  BY <1>25 DEF InstanceRunFails, RunnerMoves
<1>26. ASSUME NEW t \in Task, InstanceRunReturns(t) PROVE Bookkeeping'
  BY <1>26 DEF InstanceRunReturns, RunnerMoves
<1>27. ASSUME NEW t \in Task, TaskFailed(t) PROVE Bookkeeping'
  BY <1>27 DEF TaskFailed, RunnerMoves
<1>28. ASSUME NEW t \in Task, TaskStopped(t) PROVE Bookkeeping'
  BY <1>28 DEF TaskStopped, RunnerMoves
<1>29. ASSUME NEW t \in Task, CloseInstance(t) PROVE Bookkeeping'
  BY <1>29 DEF CloseInstance, RunnerMoves
<1>30. CASE UNCHANGED vars
  BY <1>30 DEF vars
<1> QED
  BY <1>1, <1>2, <1>3, <1>4, <1>5, <1>6, <1>7, <1>8, <1>9, <1>10, <1>11, <1>12, <1>13, <1>14, <1>15, <1>16, <1>17, <1>18, <1>19, <1>20, <1>21, <1>22, <1>23, <1>24, <1>25, <1>26, <1>27, <1>28, <1>29, <1>30 DEF Next, LoopStep, RunnerStep

(* Who owns which instance.  Most steps leave the instances alone. *)
LEMMA InstancesUnchanged ==
    ASSUME Instances, UNCHANGED <<isolationOf, held, standbyVars, warming>>
    PROVE  Instances'
BY DEF Instances, StandbyMatch, NoStaleInstance, EveryInstanceHeld,
       RightIsolation, OnlyAllowedIsolations, Open, standbyVars

LEMMA InstancesStep == IndInv /\ [Next]_vars => Instances'
<1> SUFFICES ASSUME TypeOK, Bookkeeping, Instances, [Next]_vars PROVE Instances'
  BY DEF IndInv
<1> USE ConstantsAssumption
<1> USE DEF loopVars, taskVars, instVars
<1>1. CASE NoStandbyNeeded
  BY <1>1, InstancesUnchanged DEF NoStandbyNeeded
<1>2. CASE Register
  BY <1>2, InstancesUnchanged DEF Register
<1>3. CASE RegisterFails
  BY <1>3, InstancesUnchanged DEF RegisterFails
<1>4. CASE NoCompletions
  BY <1>4, InstancesUnchanged DEF NoCompletions
<1>5. CASE PollFails
  BY <1>5, InstancesUnchanged DEF PollFails
<1>6. CASE Shutdown
  BY <1>6, InstancesUnchanged DEF Shutdown
<1>7. CASE PollInterval
  BY <1>7, InstancesUnchanged DEF PollInterval
<1>8. CASE Stop
  BY <1>8, InstancesUnchanged DEF Stop
<1>9. CASE Interrupt
  BY <1>9, InstancesUnchanged DEF Interrupt
<1>10. CASE CreateStandbyFails
  BY <1>10, InstancesUnchanged DEF CreateStandbyFails, NewFails
<1>11. CASE NewInstanceFails
  BY <1>11, InstancesUnchanged DEF NewInstanceFails, NewFails
<1>12. CASE PollResponds
  BY <1>12, InstancesUnchanged DEF PollResponds, Poll
<1>13. ASSUME NEW t \in Task, ReceiveCompletion(t) PROVE Instances'
  BY <1>13, InstancesUnchanged DEF ReceiveCompletion
<1>14. ASSUME NEW t \in Task, StartAlreadyRunning(t) PROVE Instances'
  BY <1>14, InstancesUnchanged DEF StartAlreadyRunning
<1>15. ASSUME NEW t \in Task, StartTask(t) PROVE Instances'
  BY <1>15, InstancesUnchanged DEF StartTask
<1>16. ASSUME NEW t \in Task, TaskStarted(t) PROVE Instances'
  BY <1>16, InstancesUnchanged DEF TaskStarted
<1>17. ASSUME NEW t \in Task, TaskStartedFails(t) PROVE Instances'
  BY <1>17, InstancesUnchanged DEF TaskStartedFails
<1>18. ASSUME NEW t \in Task, InstanceRunFails(t) PROVE Instances'
  BY <1>18, InstancesUnchanged DEF InstanceRunFails
<1>19. ASSUME NEW t \in Task, InstanceRunReturns(t) PROVE Instances'
  BY <1>19, InstancesUnchanged DEF InstanceRunReturns
<1>20. ASSUME NEW t \in Task, TaskFailed(t) PROVE Instances'
  BY <1>20, InstancesUnchanged DEF TaskFailed
<1>21. ASSUME NEW t \in Task, TaskStopped(t) PROVE Instances'
  BY <1>21, InstancesUnchanged DEF TaskStopped
<1>22. CASE UNCHANGED vars
  BY <1>22, InstancesUnchanged DEF vars
<1>23. CASE WarmupSucceeds
  BY <1>23 DEF WarmupSucceeds, WantsStandby, Instances, StandbyMatch, NoStaleInstance, EveryInstanceHeld, RightIsolation,
         OnlyAllowedIsolations, Open, TypeOK, Bookkeeping, standbyVars
<1>24. CASE WarmupFails
  BY <1>24 DEF WarmupFails, Close, Instances, StandbyMatch, NoStaleInstance, EveryInstanceHeld, RightIsolation,
         OnlyAllowedIsolations, Open, TypeOK, Bookkeeping, standbyVars
<1>25. CASE YieldStandby
  BY <1>25 DEF YieldStandby, StandbyMatches, Run, Instances, StandbyMatch, NoStaleInstance, EveryInstanceHeld, RightIsolation,
         OnlyAllowedIsolations, Open, TypeOK, Bookkeeping, standbyVars
<1>26. CASE TerminateStandby
  BY <1>26 DEF TerminateStandby, Close, Instances, StandbyMatch, NoStaleInstance, EveryInstanceHeld, RightIsolation,
         OnlyAllowedIsolations, Open, TypeOK, Bookkeeping, standbyVars
<1>27. ASSUME NEW i \in Instance, CreateStandby(i) PROVE Instances'
  BY <1>27 DEF CreateStandby, New, WantsStandby, Instances, StandbyMatch, NoStaleInstance, EveryInstanceHeld, RightIsolation,
         OnlyAllowedIsolations, Open, TypeOK, Bookkeeping, standbyVars
<1>28. ASSUME NEW i \in Instance, NewInstance(i) PROVE Instances'
  BY <1>28 DEF NewInstance, New, Run, Instances, StandbyMatch, NoStaleInstance, EveryInstanceHeld, RightIsolation,
         OnlyAllowedIsolations, Open, TypeOK, Bookkeeping, standbyVars
<1>29. ASSUME NEW t \in Task, CloseInstance(t) PROVE Instances'
  BY <1>29 DEF CloseInstance, Close, RunnerMoves, Instances, StandbyMatch, NoStaleInstance, EveryInstanceHeld, RightIsolation,
         OnlyAllowedIsolations, Open, TypeOK, Bookkeeping, standbyVars
<1>30. CASE ResponseApplied
  <2>1. CASE UNCHANGED <<standbyVars, instVars>>
    BY <1>30, <2>1, InstancesUnchanged DEF ResponseApplied
  <2>2. CASE response.standby # None /\ UpdateStandby(response.standby)
    BY <1>30, <2>2 DEF ResponseApplied, UpdateStandby, Close, Instances, StandbyMatch, NoStaleInstance, EveryInstanceHeld, RightIsolation,
         OnlyAllowedIsolations, Open, TypeOK, Bookkeeping, standbyVars
  <2> QED BY <1>30, <2>1, <2>2 DEF ResponseApplied
<1> QED
  BY <1>1, <1>2, <1>3, <1>4, <1>5, <1>6, <1>7, <1>8, <1>9, <1>10, <1>11, <1>12, <1>13, <1>14, <1>15, <1>16, <1>17, <1>18, <1>19, <1>20, <1>21, <1>22, <1>23, <1>24, <1>25, <1>26, <1>27, <1>28, <1>29, <1>30 DEF Next, LoopStep, RunnerStep

(* Resource modifiers.  A modifier that New takes was not locked, so no    *)
(* open instance uses it.                                                  *)
LEMMA NewModifiers ==
    ASSUME TypeOK, ModifiersLocked, ModifiersExclusive,
           NEW i \in Instance, NEW isolation, NEW request, New(i, isolation, request)
    PROVE  (ModifiersLocked /\ ModifiersExclusive)'
<1>1. Acquire(request) = 0 \/ Acquire(request) \in Modifier \ locked
  BY AcquireUnlocked
<1>2. modifierOf' = [modifierOf EXCEPT ![i] = IF isolation \in Vetu THEN Acquire(request) ELSE 0]
      /\ locked' = locked \cup ({Acquire(request)} \ {0})
  BY DEF New
<1> QED BY <1>1, <1>2 DEF ModifiersLocked, ModifiersExclusive, TypeOK

LEMMA CloseModifiers ==
    ASSUME TypeOK, ModifiersLocked, ModifiersExclusive, NEW i \in Instance, Close(i)
    PROVE  (ModifiersLocked /\ ModifiersExclusive)'
BY DEF Close, ModifiersLocked, ModifiersExclusive, TypeOK

LEMMA OthersModifiers ==
    ASSUME ModifiersLocked, ModifiersExclusive,
           UNCHANGED modifierOf, locked \subseteq locked'
    PROVE  (ModifiersLocked /\ ModifiersExclusive)'
BY DEF ModifiersLocked, ModifiersExclusive

LEMMA ModifiersStep == IndInv /\ [Next]_vars => (ModifiersLocked /\ ModifiersExclusive)'
<1> SUFFICES ASSUME IndInv, [Next]_vars
             PROVE  (ModifiersLocked /\ ModifiersExclusive)'
  OBVIOUS
<1>0. TypeOK /\ ModifiersLocked /\ ModifiersExclusive
  BY DEF IndInv
<1>1. CASE UNCHANGED instVars
  BY <1>0, <1>1, OthersModifiers DEF instVars
<1>2. ASSUME NEW isolation, NEW request, NewFails(isolation, request)
      PROVE  (ModifiersLocked /\ ModifiersExclusive)'
  BY <1>0, <1>2, OthersModifiers DEF NewFails
<1>3. CASE WarmupFails
  <2>1. warming \in Instance
    BY <1>0, <1>3 DEF WarmupFails, IndInv, Bookkeeping, TypeOK
  <2> QED BY <1>0, <1>3, <2>1, CloseModifiers DEF WarmupFails
<1>4. CASE TerminateStandby
  <2>1. standbyInstance \in Instance
    BY <1>0, <1>4 DEF TerminateStandby, TypeOK
  <2> QED BY <1>0, <1>4, <2>1, CloseModifiers DEF TerminateStandby
<1>5. CASE ResponseApplied
  <2>1. CASE UNCHANGED instVars
    BY <2>1, <1>1
  <2>2. CASE standbyInstance # None /\ Close(standbyInstance)
    <3>1. standbyInstance \in Instance
      BY <1>0, <2>2 DEF TypeOK
    <3> QED BY <1>0, <2>2, <3>1, CloseModifiers
  <2> QED BY <1>5, <2>1, <2>2 DEF ResponseApplied, UpdateStandby
<1>6. ASSUME NEW t \in Task, CloseInstance(t)
      PROVE  (ModifiersLocked /\ ModifiersExclusive)'
  <2>1. held[t] \in Instance
    BY <1>0, <1>6 DEF CloseInstance, RunnerMoves, IndInv, Bookkeeping, TypeOK
  <2> QED BY <1>0, <1>6, <2>1, CloseModifiers DEF CloseInstance
<1>7. ASSUME NEW i \in Instance, CreateStandby(i) \/ NewInstance(i)
      PROVE  (ModifiersLocked /\ ModifiersExclusive)'
  BY <1>0, <1>7, NewModifiers DEF CreateStandby, NewInstance
<1>8. CASE CreateStandbyFails \/ NewInstanceFails
  BY <1>2, <1>8 DEF CreateStandbyFails, NewInstanceFails
<1>9. ASSUME NEW t \in Task,
             \/ ReceiveCompletion(t) \/ StartAlreadyRunning(t) \/ StartTask(t)
             \/ TaskStarted(t) \/ TaskStartedFails(t) \/ InstanceRunFails(t)
             \/ InstanceRunReturns(t) \/ TaskFailed(t) \/ TaskStopped(t)
      PROVE  (ModifiersLocked /\ ModifiersExclusive)'
  BY <1>1, <1>9 DEF ReceiveCompletion, StartAlreadyRunning, StartTask, TaskStarted,
     TaskStartedFails, InstanceRunFails, InstanceRunReturns, TaskFailed, TaskStopped
<1>10. CASE \/ NoStandbyNeeded \/ WarmupSucceeds \/ Register \/ RegisterFails
            \/ NoCompletions \/ PollResponds \/ PollFails \/ YieldStandby
            \/ Shutdown \/ PollInterval \/ Stop \/ Interrupt \/ UNCHANGED vars
  BY <1>1, <1>10 DEF NoStandbyNeeded, WarmupSucceeds, Register, RegisterFails,
     NoCompletions, PollResponds, Poll, PollFails, YieldStandby, Shutdown,
     PollInterval, Stop, Interrupt, vars
<1> QED
  BY <1>3, <1>4, <1>5, <1>6, <1>7, <1>8, <1>9, <1>10 DEF Next, LoopStep, RunnerStep

-----------------------------------------------------------------------------
LEMMA IndInvStep == IndInv /\ [Next]_vars => IndInv'
BY TypeStep, BookkeepingStep, InstancesStep, ModifiersStep DEF IndInv

THEOREM IndInvCorrect == Spec => []IndInv
BY IndInvInit, IndInvStep, PTL DEF Spec

(* Whatever the task goroutine, the standby slot or the warm-up refers to  *)
(* is an open instance that nobody else refers to: no instance is closed   *)
(* twice or used after Close.                                              *)
THEOREM InstancesNotStale == Spec => []NoStaleInstance
<1>1. IndInv => NoStaleInstance
  BY DEF IndInv, Instances
<1> QED BY <1>1, IndInvCorrect, PTL

(* Every instance that New created is closed or has an owner that will     *)
(* close it or hand it over, as long as Run() has not returned; afterwards *)
(* the standby instance is the only one that nobody will close.            *)
THEOREM InstancesNotLeaked == Spec => []NoLeakedInstance
<1>1. IndInv => NoLeakedInstance
  BY DEF IndInv, Instances, EveryInstanceHeld, NoLeakedInstance, Owned
<1> QED BY <1>1, IndInvCorrect, PTL

(* A task that is yielded the standby instance gets the isolation it asked *)
(* for, whichever parameters were pushed in the meantime.                  *)
THEOREM TasksGetTheirIsolation == Spec => []RightIsolation
<1>1. IndInv => RightIsolation
  BY DEF IndInv, Instances
<1> QED BY <1>1, IndInvCorrect, PTL

(* A goroutine that works for a task is always found in worker.tasks.      *)
THEOREM RunnersAlwaysTracked == Spec => []RunnersTracked
<1>1. IndInv => RunnersTracked
  BY DEF IndInv, Bookkeeping
<1> QED BY <1>1, IndInvCorrect, PTL

(* No instance of a forbidden isolation is ever created.                   *)
THEOREM SecurityRespected == Spec => []OnlyAllowedIsolations
<1>1. IndInv => OnlyAllowedIsolations
  BY DEF IndInv, Instances
<1> QED BY <1>1, IndInvCorrect, PTL

(* No two open instances were given the same resource modifier.            *)
THEOREM DevicesNotShared == Spec => []ModifiersExclusive
<1>1. IndInv => ModifiersExclusive
  BY DEF IndInv
<1> QED BY <1>1, IndInvCorrect, PTL

-----------------------------------------------------------------------------
(* Resources.  Fewer tasks use fewer units. *)
LEMMA UnitsFinite == \A S, r : IsFiniteSet(UnitsInUse(S, r))
<1>1. IsFiniteSet(Task \X (1..MaxAmount))
  <2>1. 1 \in Int /\ MaxAmount \in Int
    BY ConstantsAssumption
  <2>2. IsFiniteSet(1..MaxAmount)
    BY <2>1, FS_Interval
  <2> QED BY <2>2, ConstantsAssumption, FS_Product
<1>2. \A S, r : UnitsInUse(S, r) \in SUBSET (Task \X (1..MaxAmount))
  BY DEF UnitsInUse
<1> QED BY <1>1, <1>2, FS_Subset

LEMMA UsageMonotone ==
    ASSUME NEW S, NEW T, S \subseteq T, NEW r
    PROVE  /\ ResourcesInUse(S, r) \in Nat
           /\ ResourcesInUse(T, r) \in Nat
           /\ ResourcesInUse(S, r) <= ResourcesInUse(T, r)
<1>1. UnitsInUse(S, r) \in SUBSET UnitsInUse(T, r)
  BY DEF UnitsInUse
<1>2. IsFiniteSet(UnitsInUse(S, r)) /\ IsFiniteSet(UnitsInUse(T, r))
  BY UnitsFinite
<1> QED BY <1>1, <1>2, FS_Subset, FS_CardinalityType DEF ResourcesInUse

LEMMA ResourceMapType ==
    ASSUME NEW q \in ResourceMap
    PROVE  DOMAIN q \subseteq Resource /\ \A r \in DOMAIN q : q[r] \in Nat
BY ConstantsAssumption DEF ResourceMap

LEMMA FitsAmongFewer ==
    ASSUME NEW S, NEW T, S \subseteq T, NEW q \in ResourceMap, CanFitResources(T, q)
    PROVE  CanFitResources(S, q)
<1> SUFFICES ASSUME NEW r \in DOMAIN q PROVE ResourcesInUse(S, r) + q[r] <= Total[r]
  BY DEF CanFitResources
<1>1. ResourcesInUse(T, r) + q[r] <= Total[r]
  BY DEF CanFitResources
<1>2. q[r] \in Nat /\ Total[r] \in Nat
  BY ResourceMapType, ConstantsAssumption
<1> QED BY <1>1, <1>2, UsageMonotone

(* Capacity is a second invariant on top of the first: the tasks the       *)
(* worker knows or is told to start fit, and so does the standby next to   *)
(* the tasks that have, or had, an instance.                               *)
AllFit(S) == \A r \in Resource : ResourcesInUse(S, r) <= Total[r]

HasStandby == standbyInstance # None \/ warming # None

TasksFit == AllFit(KnownTasks \cup response.start)

StandbyFits ==
    HasStandby => CanFitResources(KnownTasks \ {starting}, standbyParameters.resources)

LEMMA AllFitFewer ==
    ASSUME NEW S, NEW T, S \subseteq T, AllFit(T)
    PROVE  AllFit(S)
<1> SUFFICES ASSUME NEW r \in Resource PROVE ResourcesInUse(S, r) <= Total[r]
  BY DEF AllFit
<1>1. ResourcesInUse(T, r) <= Total[r] /\ Total[r] \in Nat
  BY ConstantsAssumption DEF AllFit
<1> QED BY <1>1, UsageMonotone

LEMMA TasksFitStep == IndInv /\ TasksFit /\ [Next]_vars => TasksFit'
<1> SUFFICES ASSUME TypeOK, TasksFit, [Next]_vars PROVE TasksFit'
  BY DEF IndInv
<1>1. CASE PollResponds
  BY <1>1 DEF PollResponds, Poll, StopTasks, Admissible, TasksFit, AllFit, KnownTasks, TypeOK
<1>2. ASSUME ~PollResponds
      PROVE  KnownTasks' \cup response'.start \subseteq KnownTasks \cup response.start
  <2> USE DEF KnownTasks, TypeOK, taskVars, loopVars, NoResponse
  <2>1. CASE \E i \in Instance : CreateStandby(i) \/ NewInstance(i)
    BY <2>1 DEF CreateStandby, NewInstance, Run
  <2>2. CASE \E t \in Task : ReceiveCompletion(t) \/ StartAlreadyRunning(t) \/ StartTask(t)
    BY <2>2 DEF ReceiveCompletion, StartAlreadyRunning, StartTask
  <2>3. CASE \E t \in Task : RunnerStep(t)
    BY <2>3 DEF RunnerStep, TaskStarted, TaskStartedFails, InstanceRunFails,
       InstanceRunReturns, TaskFailed, TaskStopped, CloseInstance
  <2>4. CASE UNCHANGED <<tasks, response>>
    BY <2>4
  <2>5. CASE Shutdown \/ ResponseApplied
    BY <2>5 DEF Shutdown, ResponseApplied
  <2>6. ASSUME \/ NoStandbyNeeded \/ CreateStandbyFails \/ WarmupSucceeds \/ WarmupFails
               \/ Register \/ RegisterFails \/ NoCompletions \/ PollFails \/ YieldStandby
               \/ TerminateStandby \/ NewInstanceFails \/ PollInterval \/ Stop
               \/ Interrupt \/ UNCHANGED vars
        PROVE  UNCHANGED <<tasks, response>>
    BY <2>6 DEF NoStandbyNeeded, CreateStandbyFails, WarmupSucceeds, WarmupFails, Register,
       RegisterFails, NoCompletions, PollFails, YieldStandby, Run, TerminateStandby,
       NewInstanceFails, PollInterval, Stop, Interrupt, vars
  <2> QED BY <1>2, <2>1, <2>2, <2>3, <2>4, <2>5, <2>6 DEF Next, LoopStep
<1>3. CASE ~PollResponds
  BY <1>2, <1>3, AllFitFewer DEF TasksFit
<1> QED BY <1>1, <1>3

LEMMA StandbyFitsStep == IndInv /\ StandbyFits /\ [Next]_vars => StandbyFits'
<1> SUFFICES ASSUME IndInv, StandbyFits, [Next]_vars, HasStandby'
             PROVE  CanFitResources(KnownTasks \ {starting}, standbyParameters.resources)'
  BY DEF StandbyFits
<1> USE ConstantsAssumption
<1>0. TypeOK /\ Bookkeeping
  BY DEF IndInv
<1>1. ASSUME NEW i \in Instance, CreateStandby(i)
      PROVE  CanFitResources(KnownTasks \ {starting}, standbyParameters.resources)'
  <2>1. starting' = None /\ UNCHANGED <<tasks, standbyParameters>>
    BY <1>0, <1>1 DEF CreateStandby, Bookkeeping, taskVars, standbyVars
  <2>2. KnownTasks' \ {starting'} = KnownTasks
    BY <2>1 DEF KnownTasks
  <2> QED BY <1>1, <2>1, <2>2 DEF CreateStandby, WantsStandby
<1>2. ASSUME HasStandby, UNCHANGED standbyParameters,
             KnownTasks' \ {starting'} \subseteq KnownTasks \ {starting}
      PROVE  CanFitResources(KnownTasks \ {starting}, standbyParameters.resources)'
  <2>1. standbyParameters.resources \in ResourceMap
    BY <1>0, <1>2 DEF IndInv, HasStandby, Instances, StandbyMatch, TypeOK
  <2> QED BY <1>2, <2>1, FitsAmongFewer DEF StandbyFits
<1>3. ASSUME ~ \E i \in Instance : CreateStandby(i)
      PROVE  /\ HasStandby /\ UNCHANGED standbyParameters
             /\ KnownTasks' \ {starting'} \subseteq KnownTasks \ {starting}
  <2> USE <1>0 DEF HasStandby, KnownTasks, TypeOK, Bookkeeping, taskVars, loopVars, standbyVars
  <2>1. CASE ResponseApplied
    BY <2>1 DEF ResponseApplied, UpdateStandby
  <2>2. CASE YieldStandby \/ TerminateStandby \/ NewInstanceFails \/ \E i \in Instance : NewInstance(i)
    BY <2>2 DEF YieldStandby, TerminateStandby, NewInstanceFails, NewInstance, Run
  <2>3. CASE WarmupSucceeds \/ WarmupFails
    BY <2>3 DEF WarmupSucceeds, WarmupFails
  <2>4. CASE \E t \in Task : ReceiveCompletion(t) \/ StartAlreadyRunning(t) \/ StartTask(t)
    BY <2>4 DEF ReceiveCompletion, StartAlreadyRunning, StartTask
  <2>5. CASE \E t \in Task : RunnerStep(t)
    BY <2>5 DEF RunnerStep, TaskStarted, TaskStartedFails, InstanceRunFails,
       InstanceRunReturns, TaskFailed, TaskStopped, CloseInstance
  <2>6. CASE \/ NoStandbyNeeded \/ CreateStandbyFails \/ Register \/ RegisterFails
             \/ NoCompletions \/ PollFails \/ Shutdown \/ PollInterval \/ Stop \/ Interrupt
    BY <2>6 DEF NoStandbyNeeded, CreateStandbyFails, Register, RegisterFails, NoCompletions,
       PollFails, Shutdown, PollInterval, Stop, Interrupt
  <2>7. CASE PollResponds \/ UNCHANGED vars
    BY <2>7 DEF PollResponds, Poll, StopTasks, vars
  <2> QED BY <1>3, <2>1, <2>2, <2>3, <2>4, <2>5, <2>6, <2>7 DEF Next, LoopStep
<1> QED BY <1>1, <1>2, <1>3

LEMMA CapacityHolds == IndInv /\ TasksFit /\ StandbyFits => CapacityRespected
<1> SUFFICES ASSUME IndInv, TasksFit, StandbyFits, NEW r \in Resource
             PROVE  ResourcesInUse({t \in Task : held[t] # None}, r)
                      + (IF standbyInstance # None \/ warming # None
                         THEN Amount(standbyParameters.resources, r) ELSE 0)
                    <= Total[r]
  BY DEF CapacityRespected
<1> DEFINE live == {t \in Task : held[t] # None}
           rest == KnownTasks \ {starting}
<1>1. live \subseteq rest
  BY ConstantsAssumption DEF IndInv, TypeOK, Bookkeeping, RunnersTracked, KnownTasks
<1>2. rest \subseteq KnownTasks \cup response.start
  OBVIOUS
<1> HIDE DEF live, rest
<1>3. /\ ResourcesInUse(live, r) \in Nat
      /\ ResourcesInUse(live, r) <= ResourcesInUse(rest, r)
      /\ ResourcesInUse(rest, r) \in Nat
  BY <1>1, UsageMonotone
<1>4. ResourcesInUse(rest, r) <= Total[r] /\ Total[r] \in Nat
  <2>1. AllFit(rest)
    BY <1>2, AllFitFewer DEF TasksFit
  <2> QED BY <2>1, ConstantsAssumption DEF AllFit
<1>5. CASE HasStandby
  <2> DEFINE q == standbyParameters.resources
  <2>1. q \in ResourceMap
    BY <1>5, ConstantsAssumption DEF IndInv, HasStandby, Instances, StandbyMatch, TypeOK
  <2>2. CanFitResources(rest, q)
    BY <1>5 DEF StandbyFits, rest
  <2> HIDE DEF q
  <2>3. CASE r \in DOMAIN q
    <3>1. q[r] \in Nat /\ ResourcesInUse(rest, r) + q[r] <= Total[r]
      BY <2>1, <2>2, <2>3, ResourceMapType DEF CanFitResources
    <3>2. Amount(q, r) = q[r]
      BY <2>3 DEF Amount
    <3>3. ResourcesInUse(live, r) + q[r] <= Total[r]
      BY <1>3, <1>4, <3>1
    <3> QED BY <1>5, <3>2, <3>3 DEF q, live, HasStandby
  <2>4. CASE r \notin DOMAIN q
    <3>1. Amount(q, r) = 0
      BY <2>4 DEF Amount
    <3>2. ResourcesInUse(live, r) + 0 <= Total[r]
      BY <1>3, <1>4
    <3> QED BY <1>5, <3>1, <3>2 DEF q, live, HasStandby
  <2> QED BY <2>3, <2>4
<1>6. CASE ~HasStandby
  BY <1>3, <1>4, <1>6 DEF HasStandby, live
<1> QED BY <1>5, <1>6

(* If the server keeps what it starts within the resources it was told of, *)
(* the instances of the tasks and the standby together never use more than *)
(* the worker has.                                                         *)
THEOREM CapacityCorrect == Spec => []CapacityRespected
<1>1. Init => TasksFit /\ StandbyFits
  <2> SUFFICES ASSUME Init PROVE TasksFit /\ StandbyFits
    OBVIOUS
  <2>1. StandbyFits
    BY DEF Init, StandbyFits, HasStandby
  <2>2. KnownTasks \cup response.start = {}
    BY DEF Init, KnownTasks, NoResponse
  <2>3. ASSUME NEW r \in Resource PROVE ResourcesInUse({}, r) <= Total[r]
    <3>1. UnitsInUse({}, r) = {}
      BY DEF UnitsInUse
    <3>2. ResourcesInUse({}, r) = 0
      BY <3>1, FS_EmptySet DEF ResourcesInUse
    <3> QED BY <3>2, ConstantsAssumption
  <2> QED BY <2>1, <2>2, <2>3 DEF TasksFit, AllFit
<1>2. Spec => [](IndInv /\ TasksFit /\ StandbyFits)
  BY <1>1, IndInvInit, IndInvStep, TasksFitStep, StandbyFitsStep, PTL DEF Spec
<1> QED BY <1>2, CapacityHolds, PTL
=============================================================================
