--------------------------- MODULE TaskRunProofs ---------------------------
(***************************************************************************)
(* Proofs about TaskRun, for every task of any number of commands and any  *)
(* number of failed attempts.                                              *)
(*                                                                         *)
(* Most facts are about the tasks whose stages lie apart.  In the others a *)
(* later stage begins with the clone instruction that NewFromProto() has   *)
(* removed, and BoundedCommands() lets its agent run the commands of the   *)
(* earlier ones again: CommandsRunOnce is about both kinds.                *)
(***************************************************************************)
EXTENDS TaskRun, NatLemmas, SequenceTheorems

StagesApart == ~StagesOverlap

(* The agent is in its loop over the commands. *)
Looping == agent \in {"loop", "reporting", "step"}

(* An update says what became of its command, or only that it has begun. *)
Final(u) == u.status # "EXECUTING"

(* What the types leave open. *)
Positions ==
    /\ agent = "step" => cur <= N
    /\ <<>> \notin abandoned
    /\ stage = 1 \/ stage \in task.images
    /\ Looping /\ cur <= N => InStage(cur)

IndType == TypeOK /\ Positions

(* The commands that no agent has come to yet. *)
Untouched ==
    /\ \A c \in Command : c >= CommandTo => result[c] = "none"
    /\ agent \in {"off", "starting"} =>
         \A c \in Command : c >= stage => result[c] = "none"
    /\ Looping => \A c \in Command : c >= cur => result[c] = "none"

(* The same of the first stage, whatever the task. *)
FirstUntouched ==
    stage = 1 =>
        /\ agent \in {"off", "starting"} => \A c \in Command : result[c] = "none"
        /\ Looping => \A c \in Command : c >= cur => result[c] = "none"

(* The batches of updates that wait, travel or are being handled. *)
Batches == {unflushed, call} \cup abandoned

(* Every update says what became of its command. *)
TrueIn(s, r) ==
    \A i \in 1..Len(s) : Final(s[i]) => r[s[i].name] = s[i].status
UpdatesTrue == \A s \in Batches : TrueIn(s, result)

IndTrue == IndType /\ Untouched /\ UpdatesTrue /\ RecordedIsTrue

(* In a batch, a command comes after those that precede it in its stage,   *)
(* unless the host knows what became of them.                              *)
Earlier(t, d) ==
    {c \in Command \ {t.clone} :
        c < d /\ ~\E i \in t.images : c < i /\ i <= d}
Mentions(s, c, n) == \E j \in 1..n : Final(s[j]) /\ s[j].name = c
OrderedIn(s, r, t) ==
    \A i \in 1..Len(s) : Final(s[i]) =>
        \A c \in Earlier(t, s[i].name) :
            r[c] # "Undefined" \/ Mentions(s, c, i - 1)
UpdatesOrdered == \A s \in Batches : OrderedIn(s, recorded, task)

(* What the agent has been through is recorded or will be reported. *)
AgentReports ==
    Looping =>
        \A c \in Commands : InStage(c) /\ c < cur =>
            recorded[c] # "Undefined" \/ Mentions(unflushed, c, Len(unflushed))

(* What is being reported is recorded or will be handled. *)
CallReports ==
    agent = "reporting" /\ Serving /\ ~signalled =>
        \A c \in Command : Mentions(unflushed, c, Len(unflushed)) =>
            recorded[c] # "Undefined" \/ Mentions(call, c, Len(call))

IndGaps ==
    IndTrue /\ UpdatesOrdered /\ AgentReports /\ CallReports /\ NoGaps

-----------------------------------------------------------------------------
(* Commands and stages                                                     *)

(* Min() of a set of numbers is its least element. *)
LEMMA MinIsLeast ==
    ASSUME NEW S \in SUBSET Nat, S # {}
    PROVE  Min(S) \in S /\ \A n \in S : Min(S) <= n
<1>1. \E m \in S : \A n \in S : m <= n
  BY LeastElement
<1> QED BY <1>1 DEF Min

(* The first of the positions I after i. *)
EndOf(I, i) == Min({j \in I : j > i} \cup {N + 1})

LEMMA EndOfIs ==
    ASSUME NEW I, I \subseteq 1..N, NEW i \in 1..(N + 1)
    PROVE  /\ EndOf(I, i) \in 1..(N + 1)
           /\ EndOf(I, i) = N + 1 \/ (EndOf(I, i) \in I /\ EndOf(I, i) > i)
           /\ i <= N => EndOf(I, i) > i
           /\ \A j \in I : j > i => j >= EndOf(I, i)
<1> DEFINE S == {j \in I : j > i} \cup {N + 1}
           m == EndOf(I, i)
<1>1. N \in Nat /\ \A j \in I : j \in 1..N
  BY TaskRunAssumption
<1>2. S \in SUBSET Nat /\ N + 1 \in S
  <2>1. {j \in I : j > i} \subseteq I /\ N + 1 \in S
    BY Zenon
  <2>2. I \subseteq Nat /\ N + 1 \in Nat
    BY <1>1
  <2> QED BY <2>1, <2>2
<1>3. Min(S) \in S /\ \A n \in S : Min(S) <= n
  BY <1>2, MinIsLeast
<1>4. m = Min(S)
  BY DEF EndOf
<1>5. \A n : n \in S <=> n = N + 1 \/ (n \in I /\ n > i)
  BY Zenon
<1> HIDE DEF S, m
<1>6. m = N + 1 \/ (m \in I /\ m > i)
  BY <1>3, <1>4, <1>5
<1>7. m \in 1..(N + 1) /\ (i <= N => m > i)
  <2>1. CASE m = N + 1
    BY <1>1, <2>1
  <2>2. CASE m \in I /\ m > i
    <3>1. m \in 1..N
      BY <1>1, <2>2
    <3> QED BY <1>1, <2>2, <3>1
  <2> QED BY <1>6, <2>1, <2>2
<1>8. ASSUME NEW j \in I, j > i PROVE j >= m
  <2>1. m <= j
    BY <1>3, <1>4, <1>5, <1>8
  <2> QED BY <1>1, <1>7, <2>1
<1> QED BY <1>6, <1>7, <1>8 DEF m

(* Where a stage ends. *)
LEMMA StageEnds ==
    ASSUME TypeOK
    PROVE  /\ CommandTo \in 1..(N + 1)
           /\ CommandTo = N + 1 \/ (CommandTo \in task.images /\ CommandTo > stage)
           /\ stage <= N => CommandTo > stage
           /\ \A i \in task.images : i > stage => i >= CommandTo
<1>1. task \in Shape /\ stage \in 1..(N + 1)
  BY TaskRunAssumption DEF TypeOK
<1>2. task.images \subseteq 1..N
  BY <1>1 DEF Shape, Command
<1>3. CommandTo = EndOf(task.images, stage)
  BY DEF CommandTo, EndOf
<1> HIDE DEF CommandTo
<1> QED BY <1>1, <1>2, <1>3, EndOfIs

(* The stage is the same as long as its first command is. *)
LEMMA StageKept ==
    ASSUME task' = task, stage' = stage
    PROVE  /\ CommandTo' = CommandTo /\ Commands' = Commands
           /\ \A c : InStage(c)' = InStage(c)
BY DEF InStage, Commands, Left, Right, CommandFrom, CommandTo

(* Where the loop of RunBuild() goes next. *)
LEMMA NextCommandIs ==
    ASSUME TypeOK, NEW i \in 1..(N + 1)
    PROVE  /\ NextCommand(i) \in i..(N + 1)
           /\ NextCommand(i) <= N => InStage(NextCommand(i))
           /\ \A c \in Commands : c >= i /\ InStage(c) => c >= NextCommand(i)
<1> DEFINE S == {c \in Commands : c >= i /\ InStage(c)} \cup {N + 1}
<1>1. N \in Nat /\ Commands \subseteq 1..N
  BY TaskRunAssumption DEF Commands, Command
<1>2. S \in SUBSET Nat /\ N + 1 \in S
  <2>1. {c \in Commands : c >= i /\ InStage(c)} \subseteq Commands
    BY Zenon
  <2>2. Commands \subseteq Nat /\ N + 1 \in Nat
    BY <1>1
  <2> QED BY <2>1, <2>2
<1>3. Min(S) \in S /\ \A n \in S : Min(S) <= n
  BY <1>2, MinIsLeast
<1>4. NextCommand(i) = Min(S)
  BY DEF NextCommand
<1> HIDE DEF S
<1>5. NextCommand(i) \in S /\ \A n \in S : NextCommand(i) <= n
  BY <1>3, <1>4
<1>6. NextCommand(i) \in i..(N + 1)
      /\ (NextCommand(i) <= N => InStage(NextCommand(i)))
  <2> DEFINE n == NextCommand(i)
  <2>1. n \in S => n = N + 1 \/ (n \in Commands /\ n >= i /\ InStage(n))
    BY Zenon DEF S
  <2> HIDE DEF n
  <2>2. n = N + 1 \/ (n \in 1..N /\ n >= i /\ InStage(n))
    BY <1>1, <1>5, <2>1 DEF n
  <2>3. n \in i..(N + 1) /\ (n <= N => InStage(n))
    BY <1>1, <2>2
  <2> QED BY <2>3 DEF n
<1>7. ASSUME NEW c \in Commands, c >= i, InStage(c)
      PROVE  c >= NextCommand(i)
  <2>1. c \in S
    BY <1>7 DEF S
  <2> QED BY <1>1, <1>5, <1>6, <2>1
<1> QED BY <1>6, <1>7

(* The bounds that BoundedCommands() finds are those of the stage. *)
LEMMA StageBounds ==
    ASSUME TypeOK, Positions, StagesApart
    PROVE  /\ Left = stage \/ (Left = 1 /\ stage = 1)
           /\ Right = CommandTo
           /\ \A c \in Command :
                InStage(c) <=> c \in Commands /\ stage <= c /\ c < CommandTo
<1>1. task \in Shapes /\ task \in Shape /\ N \in Nat /\ stage \in 1..(N + 1)
  BY TaskRunAssumption DEF TypeOK
<1>2. task.images \subseteq 1..N /\ task.clone \in 0..N
  BY <1>1 DEF Shape, Command
<1>3. task.clone \notin task.images \/ task.clone <= 1
  BY <1>1, <1>2 DEF StagesApart, StagesOverlap
<1>4. CommandTo \in 1..(N + 1)
      /\ (CommandTo = N + 1 \/ (CommandTo \in task.images /\ CommandTo > stage))
  BY StageEnds
<1>5. stage = 1 \/ stage \in task.images
  BY DEF Positions
<1>6. Left = stage
  BY <1>1, <1>2, <1>3, <1>5 DEF Left, CommandFrom, Commands, Command
<1>7. Right = CommandTo
  BY <1>1, <1>2, <1>3, <1>4 DEF Right, Commands, Command
<1> QED BY <1>6, <1>7 DEF InStage

-----------------------------------------------------------------------------
(* What a step does to the agent, the requests and what is known           *)

core == <<task, stage, agent, cur, failed, unflushed, call, abandoned, recorded,
          result, undelivered>>

HostOnly == SkipTask \/ StartFails \/ Start \/ RunUnsupported \/ RunPrebuilt
            \/ RunSucceeds \/ HandleRunError \/ ExplicitStatus \/ ScanFailures
            \/ ScanCommands \/ CloseInstance \/ Stop
ContextOnly == Deadline \/ Interrupt \/ HeartbeatsLate \/ Heartbeat
               \/ MonitorLoop \/ AgentDeadline \/ Signal
Leaves == SetupFails \/ StepExits \/ AgentFinishes \/ Crash

(* The agent, or its container, goes away. *)
AgentGone ==
    /\ agent' = IF agent = "off" THEN "off" ELSE "exited"
    /\ LoseRequests
    /\ UNCHANGED <<task, stage, cur, failed, unflushed, recorded, result>>

CoreStep ==
    \/ UNCHANGED core \/ AgentGone \/ StartContainer \/ NextStage
    \/ InitialCommands \/ SkipCommand \/ ReportExecuting \/ FinalFlush
    \/ FlushSucceeds \/ RetryAttempt \/ FlushFails \/ StepCompletes \/ StepFails
    \/ HandleUpdate

LEMMA HostKeepsCore == HostOnly => UNCHANGED core
BY DEF HostOnly, core, SkipTask, StartFails, Start, RunUnsupported, RunPrebuilt,
       RunSucceeds, HandleRunError, ExplicitStatus, ScanFailures, ScanCommands,
       CloseInstance, Stop, agentVars, rpcVars

LEMMA ContextKeepsCore == ContextOnly => UNCHANGED core
BY DEF ContextOnly, core, Deadline, Interrupt, HeartbeatsLate, Heartbeat,
       MonitorLoop, AgentDeadline, Signal, agentVars, rpcVars

LEMMA AgentLeaves == Leaves => AgentGone
<1>1. SetupFails => AgentGone
  BY DEF SetupFails, Exits, AgentGone
<1>2. StepExits => AgentGone
  BY DEF StepExits, Exits, AgentGone
<1>3. AgentFinishes => AgentGone
  BY DEF AgentFinishes, Exits, AgentGone
<1>4. Crash => AgentGone
  BY DEF Crash, Exits, Alive, AgentGone
<1> QED BY <1>1, <1>2, <1>3, <1>4 DEF Leaves

LEMMA RunFailsEffect == RunFails => AgentGone \/ UNCHANGED core
BY DEF RunFails, AgentGone, core

(* The steps, by what they change. *)
LEMMA Steps ==
    ASSUME [Next]_vars
    PROVE  \/ HostOnly \/ ContextOnly \/ Leaves \/ RunFails \/ UNCHANGED vars
           \/ StartContainer \/ NextStage \/ InitialCommands \/ SkipCommand
           \/ ReportExecuting \/ FinalFlush \/ FlushSucceeds \/ RetryAttempt
           \/ FlushFails \/ StepCompletes \/ StepFails \/ HandleUpdate
BY Zenon DEF Next, Host, Environment, Agent, Terminated, HostOnly, ContextOnly,
             Leaves

LEMMA CoreSteps == [Next]_vars => CoreStep
<1>1. UNCHANGED vars => UNCHANGED core
  BY DEF vars, core, hostVars, ctxVars, agentVars, rpcVars
<1> QED BY <1>1, Steps, HostKeepsCore, ContextKeepsCore, AgentLeaves,
           RunFailsEffect, Zenon DEF CoreStep

(* The task is always the same one. *)
LEMMA TaskKept == [Next]_vars => task' = task
<1>1. CoreStep => task' = task
  BY DEF CoreStep, core, AgentGone, StartContainer, NextStage, InitialCommands,
         SkipCommand, ReportExecuting, FinalFlush, FlushSucceeds, RetryAttempt,
         FlushFails, StepCompletes, StepFails, Step, HandleUpdate
<1> QED BY <1>1, CoreSteps

LEMMA ApartKept == [Next]_vars => StagesApart' = StagesApart
BY TaskKept DEF StagesApart, StagesOverlap

-----------------------------------------------------------------------------
(* Types                                                                   *)

CoreType ==
    /\ task \in Shapes
    /\ stage \in 1..(N + 1)
    /\ agent \in {"off", "starting", "loop", "reporting", "step", "finishing",
                 "exited"}
    /\ cur \in 1..(N + 1)
    /\ failed \in BOOLEAN
    /\ unflushed \in UpdateSeq /\ call \in UpdateSeq
    /\ abandoned \subseteq UpdateSeq
    /\ recorded \in [Command -> {"Undefined", "Success", "Failure"}]
    /\ result \in [Command -> {"none", "COMPLETED", "FAILED", "SKIPPED"}]
    /\ undelivered \subseteq Command
OtherType ==
    /\ hpc \in {"starting", "running", "ran", "status", "scanning", "closing",
               "stopping", "returned"}
    /\ status \in TaskStatus /\ verdict \in TaskStatus
    /\ cause \in {"none", "deadline", "noHeartbeats", "cancelled"}
    /\ elapsed \in BOOLEAN /\ late \in BOOLEAN
    /\ monitor \in {"off", "watching"}
    /\ runErr \in {"none", "failed", "unsupported"}
    /\ sawFailure \in BOOLEAN /\ ret \in {"nil", "err"}
    /\ timedOut \in BOOLEAN /\ signalled \in BOOLEAN
    /\ failures \in 0..MaxFailures

LEMMA TypeSplit == TypeOK <=> CoreType /\ OtherType
BY DEF TypeOK, CoreType, OtherType

LEMMA Numbers == N \in Nat /\ MaxFailures \in Nat /\ Shapes \subseteq Shape
BY TaskRunAssumption

(* A queued update is well typed and comes last. *)
LEMMA QueueIs ==
    ASSUME CoreType, NEW c \in Command,
           NEW st \in {"EXECUTING", "COMPLETED", "FAILED", "SKIPPED"}
    PROVE  /\ Queue(c, st) \in UpdateSeq
           /\ Len(Queue(c, st)) = Len(unflushed) + 1
           /\ \A i \in 1..Len(unflushed) : Queue(c, st)[i] = unflushed[i]
           /\ Queue(c, st)[Len(unflushed) + 1] = [name |-> c, status |-> st]
<1>1. [name |-> c, status |-> st] \in Update /\ unflushed \in Seq(Update)
  BY DEF Update, CoreType, UpdateSeq
<1> QED BY <1>1, AppendProperties DEF Queue, UpdateSeq

(* What Head() and Tail() of a batch are. *)
LEMMA BatchHead ==
    ASSUME NEW s \in UpdateSeq, s # <<>>
    PROVE  /\ Head(s) \in Update /\ Head(s) = s[1]
           /\ Tail(s) \in UpdateSeq
           /\ Len(s) \in Nat \ {0} /\ Len(Tail(s)) = Len(s) - 1
           /\ \A i \in 1..Len(Tail(s)) : Tail(s)[i] = s[i + 1]
BY HeadTailProperties, EmptySeq DEF UpdateSeq

LEMMA BatchLen ==
    ASSUME NEW s \in UpdateSeq
    PROVE  Len(s) \in Nat /\ \A i \in 1..Len(s) : s[i] \in Update
BY LenProperties, ElementOfSeq DEF UpdateSeq

LEMMA EmptyBatch == <<>> \in UpdateSeq /\ Len(<<>>) = 0
BY EmptySeq DEF UpdateSeq

(* What Record() does to a command. *)
LEMMA RecordIs ==
    ASSUME CoreType, NEW u \in Update, Record(u)
    PROVE  /\ recorded' \in [Command -> {"Undefined", "Success", "Failure"}]
           /\ \A c \in Command : c # u.name => recorded'[c] = recorded[c]
           /\ u.status = "EXECUTING" => recorded' = recorded
           /\ u.status = "FAILED" => recorded'[u.name] = "Failure"
           /\ u.status \in {"COMPLETED", "SKIPPED"} =>
                recorded'[u.name] = "Success"
<1>1. u.name \in Command
      /\ u.status \in {"EXECUTING", "COMPLETED", "FAILED", "SKIPPED"}
  BY DEF Update
<1> QED BY <1>1 DEF CoreType, Record

(* The other variables keep their types. *)
LEMMA OtherTypes ==
    ASSUME TypeOK, [Next]_vars
    PROVE  OtherType'
<1> USE DEF OtherType, TaskStatus
<1>1. OtherType
  BY TypeSplit
<1>2. CASE HostOnly
  <2>1. ASSUME NEW b \in BOOLEAN
        PROVE  ComputedStatus(b) \in {"New", "Failed", "Succeeded"}
    BY DEF ComputedStatus
  <2>2. CASE SkipTask \/ StartFails \/ Start
    BY <1>1, <2>2 DEF SkipTask, StartFails, Start, ctxVars, agentVars, rpcVars
  <2>3. CASE RunUnsupported \/ RunPrebuilt \/ RunSucceeds
    BY <1>1, <2>3 DEF RunUnsupported, RunPrebuilt, RunSucceeds, ctxVars,
                      agentVars, rpcVars
  <2>4. CASE HandleRunError
    BY <1>1, <2>4 DEF HandleRunError, agentVars, rpcVars
  <2>5. CASE ExplicitStatus
    BY <1>1, <2>5 DEF ExplicitStatus, Conclude, ctxVars, agentVars, rpcVars
  <2>6. CASE ScanFailures
    <3>1. FailedAtLeastOnce \in BOOLEAN
      BY DEF FailedAtLeastOnce
    <3> QED BY <1>1, <2>6, <3>1 DEF ScanFailures, ctxVars, agentVars, rpcVars
  <2>7. CASE ScanCommands
    BY <1>1, <2>1, <2>7 DEF ScanCommands, Conclude, ctxVars, agentVars, rpcVars
  <2>8. CASE CloseInstance \/ Stop
    BY <1>1, <2>8 DEF CloseInstance, Stop, ctxVars, agentVars, rpcVars
  <2> QED BY <1>2, <2>2, <2>3, <2>4, <2>5, <2>6, <2>7, <2>8 DEF HostOnly
<1>3. CASE ContextOnly
  BY <1>1, <1>3 DEF ContextOnly, Deadline, Interrupt, HeartbeatsLate, Heartbeat,
                    MonitorLoop, AgentDeadline, Signal, hostVars, agentVars,
                    ctxVars, rpcVars
<1>4. CASE Leaves
  BY <1>1, <1>4 DEF Leaves, SetupFails, StepExits, AgentFinishes, Crash,
                    hostVars, ctxVars
<1>5. CASE RunFails
  BY <1>1, <1>5 DEF RunFails, ctxVars
<1>6. CASE UNCHANGED vars
  BY <1>1, <1>6 DEF vars, hostVars, ctxVars, agentVars, rpcVars
<1>7. CASE StartContainer \/ NextStage \/ InitialCommands \/ SkipCommand
           \/ ReportExecuting \/ FinalFlush
  BY <1>1, <1>7 DEF StartContainer, NextStage, InitialCommands, SkipCommand,
                    ReportExecuting, FinalFlush, hostVars, ctxVars, rpcVars
<1>8. CASE FlushSucceeds \/ RetryAttempt \/ FlushFails
  <2>1. MaxFailures \in Nat
    BY Numbers
  <2> QED BY <1>1, <1>8, <2>1 DEF FlushSucceeds, RetryAttempt, FlushFails,
                                  hostVars, ctxVars, agentVars
<1>9. CASE StepCompletes \/ StepFails \/ HandleUpdate
  BY <1>1, <1>9 DEF StepCompletes, StepFails, Step, HandleUpdate, hostVars,
                    ctxVars, agentVars
<1> QED BY <1>2, <1>3, <1>4, <1>5, <1>6, <1>7, <1>8, <1>9, Steps

LEMMA TypeInit == Init => IndType
<1> SUFFICES ASSUME Init PROVE IndType
  OBVIOUS
<1>1. 1 \in 1..(N + 1) /\ 0 \in 0..MaxFailures
  BY Numbers
<1>2. recorded \in [Command -> {"Undefined", "Success", "Failure"}]
      /\ result \in [Command -> {"none", "COMPLETED", "FAILED", "SKIPPED"}]
  BY DEF Init
<1>3. failed \in BOOLEAN /\ elapsed \in BOOLEAN /\ late \in BOOLEAN
      /\ sawFailure \in BOOLEAN /\ timedOut \in BOOLEAN /\ signalled \in BOOLEAN
  BY DEF Init
<1>4. CoreType
  BY <1>1, <1>2, <1>3, EmptyBatch DEF Init, CoreType
<1>5. OtherType
  BY <1>1, <1>3 DEF Init, OtherType, TaskStatus
<1>6. Positions
  BY DEF Init, Positions, Looping
<1> QED BY <1>4, <1>5, <1>6, TypeSplit DEF IndType

(* LoseRequests keeps well-typed requests that are not empty. *)
LEMMA LostRequests ==
    ASSUME CoreType, Positions, LoseRequests
    PROVE  /\ call' = <<>> /\ call' \in UpdateSeq
           /\ abandoned' \subseteq UpdateSeq
           /\ abandoned' \subseteq abandoned \cup {call}
           /\ <<>> \notin abandoned'
           /\ undelivered' \subseteq Command
BY EmptyBatch DEF CoreType, Positions, LoseRequests, FailuresIn

LEMMA AbandonedRequests ==
    ASSUME CoreType, Positions, Abandon
    PROVE  /\ abandoned' \subseteq UpdateSeq
           /\ abandoned' \subseteq abandoned \cup {call}
           /\ <<>> \notin abandoned'
BY DEF CoreType, Positions, Abandon

(* Every step keeps the types, and the agent at a command of its stage. *)
LEMMA TypeNext ==
    ASSUME IndType, [Next]_vars
    PROVE  IndType'
<1>0. TypeOK /\ CoreType /\ Positions /\ N \in Nat
  BY TypeSplit, Numbers DEF IndType
<1> SUFFICES CoreType' /\ Positions'
  BY <1>0, OtherTypes, TypeSplit DEF IndType, TypeOK, CoreType, OtherType
<1>1. CASE UNCHANGED core
  BY <1>0, <1>1 DEF core, CoreType, Positions, Looping, InStage, Commands, Left,
                    Right, CommandFrom, CommandTo
<1>2. CASE AgentGone
  <2>1. /\ call' = <<>> /\ call' \in UpdateSeq
        /\ abandoned' \subseteq UpdateSeq /\ <<>> \notin abandoned'
        /\ undelivered' \subseteq Command
    BY <1>0, <1>2, LostRequests DEF AgentGone
  <2> QED BY <1>0, <1>2, <2>1 DEF AgentGone, CoreType, Positions, Looping
<1>3. CASE StartContainer
  BY <1>0, <1>3 DEF StartContainer, rpcVars, CoreType, Positions, Looping
<1>4. CASE NextStage
  <2>1. CommandTo \in 1..(N + 1) /\ CommandTo \in task.images
    BY <1>0, <1>4, StageEnds DEF NextStage
  <2> QED BY <1>0, <1>4, <2>1 DEF NextStage, rpcVars, CoreType, Positions,
                                  Looping
<1>5. CASE InitialCommands
  <2>1. Left \in 1..(N + 1)
    BY <1>0 DEF Left, CommandFrom, CoreType
  <2>2. NextCommand(Left) \in 1..(N + 1)
        /\ (NextCommand(Left) <= N => InStage(NextCommand(Left)))
    BY <1>0, <2>1, NextCommandIs
  <2>3. CoreType'
    BY <1>0, <1>5, <2>2, EmptyBatch
    DEF InitialCommands, CoreType, FailedAtLeastOnce
  <2>4. cur' <= N => InStage(cur')
    BY <1>5, <2>2 DEF InitialCommands
  <2>5. \A c : InStage(c) = InStage(c)'
    BY <1>5, StageKept DEF InitialCommands
  <2> QED BY <1>0, <1>5, <2>3, <2>4, <2>5 DEF InitialCommands, Positions, Looping
<1>6. CASE SkipCommand
  <2>1. cur \in Command /\ cur + 1 \in 1..(N + 1)
    BY <1>0, <1>6 DEF SkipCommand, CoreType, Command
  <2>2. NextCommand(cur + 1) \in 1..(N + 1)
        /\ (NextCommand(cur + 1) <= N => InStage(NextCommand(cur + 1)))
    BY <1>0, <2>1, NextCommandIs
  <2>3. unflushed' \in UpdateSeq
    BY <1>0, <1>6, <2>1, QueueIs DEF SkipCommand
  <2>4. CoreType'
    BY <1>0, <1>6, <2>2, <2>3 DEF SkipCommand, CoreType
  <2>5. cur' <= N => InStage(cur')
    BY <1>6, <2>2 DEF SkipCommand
  <2>6. \A c : InStage(c) = InStage(c)'
    BY <1>6, StageKept DEF SkipCommand
  <2> QED BY <1>0, <1>6, <2>4, <2>5, <2>6 DEF SkipCommand, Positions, Looping
<1>7. CASE ReportExecuting
  <2>1. cur \in Command
    BY <1>0, <1>7 DEF ReportExecuting, CoreType, Command
  <2>2. unflushed' \in UpdateSeq
    BY <1>0, <1>7, <2>1, QueueIs DEF ReportExecuting
  <2>3. call' \in UpdateSeq
    BY <1>7, <2>2, EmptyBatch DEF ReportExecuting, Send
  <2>4. \A c : InStage(c) = InStage(c)'
    BY <1>7, StageKept DEF ReportExecuting
  <2> QED BY <1>0, <1>7, <2>2, <2>3, <2>4 DEF ReportExecuting, CoreType,
                                              Positions, Looping
<1>8. CASE FinalFlush
  <2>1. call' \in UpdateSeq
    BY <1>0, <1>8, EmptyBatch DEF FinalFlush, Send, CoreType
  <2> QED BY <1>0, <1>8, <2>1 DEF FinalFlush, CoreType, Positions, Looping
<1>9. CASE FlushSucceeds
  <2>1. \A c : InStage(c) = InStage(c)'
    BY <1>9, StageKept DEF FlushSucceeds
  <2> QED BY <1>0, <1>9, <2>1, EmptyBatch DEF FlushSucceeds, AfterFlush,
                                              CoreType, Positions, Looping
<1>10. CASE RetryAttempt
  <2>1. abandoned' \subseteq UpdateSeq /\ <<>> \notin abandoned'
    BY <1>0, <1>10, AbandonedRequests DEF RetryAttempt
  <2>2. \A c : InStage(c) = InStage(c)'
    BY <1>10, StageKept DEF RetryAttempt, agentVars
  <2> QED BY <1>0, <1>10, <2>1, <2>2 DEF RetryAttempt, agentVars, CoreType,
                                         Positions, Looping
<1>11. CASE FlushFails
  <2>1. abandoned' \subseteq UpdateSeq /\ <<>> \notin abandoned'
    BY <1>0, <1>11, AbandonedRequests DEF FlushFails
  <2>2. \A c : InStage(c) = InStage(c)'
    BY <1>11, StageKept DEF FlushFails
  <2> QED BY <1>0, <1>11, <2>1, <2>2, EmptyBatch DEF FlushFails, AfterFlush,
                                         CoreType, Positions, Looping
<1>12. ASSUME NEW st \in {"COMPLETED", "FAILED"}, Step(st)
       PROVE  CoreType' /\ Positions'
  <2>1. cur \in Command /\ cur + 1 \in 1..(N + 1)
    BY <1>0, <1>12 DEF Step, CoreType, Positions, Command
  <2>2. NextCommand(cur + 1) \in 1..(N + 1)
        /\ (NextCommand(cur + 1) <= N => InStage(NextCommand(cur + 1)))
    BY <1>0, <2>1, NextCommandIs
  <2>3. unflushed' \in UpdateSeq
    BY <1>0, <1>12, <2>1, QueueIs DEF Step
  <2>4. CoreType'
    BY <1>0, <1>12, <2>2, <2>3 DEF Step, CoreType
  <2>5. cur' <= N => InStage(cur')
    BY <1>12, <2>2 DEF Step
  <2>6. \A c : InStage(c) = InStage(c)'
    BY <1>12, StageKept DEF Step
  <2> QED BY <1>0, <1>12, <2>4, <2>5, <2>6 DEF Step, Positions, Looping
<1>13. CASE HandleUpdate
  <2>1. \A c : InStage(c) = InStage(c)'
    BY <1>13, StageKept DEF HandleUpdate, agentVars
  <2>2. CASE call # <<>> /\ Record(Head(call)) /\ call' = Tail(call)
             /\ UNCHANGED abandoned
    <3>1. Head(call) \in Update /\ Tail(call) \in UpdateSeq
      BY <1>0, <2>2, BatchHead DEF CoreType
    <3>2. recorded' \in [Command -> {"Undefined", "Success", "Failure"}]
      BY <1>0, <2>2, <3>1, RecordIs
    <3> QED BY <1>0, <1>13, <2>1, <2>2, <3>1, <3>2
            DEF HandleUpdate, agentVars, CoreType, Positions, Looping
  <2>3. ASSUME NEW a \in abandoned, Record(Head(a)), UNCHANGED call,
               abandoned' = ((abandoned \ {a}) \cup {Tail(a)}) \ {<<>>}
        PROVE  CoreType' /\ Positions'
    <3>1. Head(a) \in Update /\ Tail(a) \in UpdateSeq
      BY <1>0, BatchHead DEF CoreType, Positions
    <3>2. recorded' \in [Command -> {"Undefined", "Success", "Failure"}]
      BY <1>0, <2>3, <3>1, RecordIs
    <3>3. abandoned' \subseteq UpdateSeq /\ <<>> \notin abandoned'
      BY <1>0, <2>3, <3>1 DEF CoreType
    <3> QED BY <1>0, <1>13, <2>1, <2>3, <3>2, <3>3
            DEF HandleUpdate, agentVars, CoreType, Positions, Looping
  <2> QED BY <1>13, <2>2, <2>3 DEF HandleUpdate
<1> QED BY <1>1, <1>2, <1>3, <1>4, <1>5, <1>6, <1>7, <1>8, <1>9, <1>10, <1>11,
           <1>12, <1>13, CoreSteps DEF CoreStep, StepCompletes, StepFails

(* Every reachable state of TaskRun is well typed. *)
THEOREM TypeCorrect == Spec => []TypeOK
<1>1. Init => IndType
  BY TypeInit
<1>2. IndType /\ [Next]_vars => IndType'
  BY TypeNext
<1>3. IndType => TypeOK
  BY DEF IndType
<1> QED BY <1>1, <1>2, <1>3, PTL DEF Spec

-----------------------------------------------------------------------------
(* What is reported is true                                                *)

(* Nothing is said anew. *)
SameUpdates ==
    /\ Batches' \subseteq Batches \cup {<<>>}
    /\ recorded' = recorded /\ result' = result

(* The agent adds an update about its current command. *)
AddsUpdate(st) ==
    /\ Looping /\ cur \in Command /\ agent # "reporting"
    /\ unflushed' = Queue(cur, st)
    /\ Batches' \subseteq Batches \cup {<<>>, unflushed'}
    /\ recorded' = recorded
    /\ result' = IF st = "EXECUTING" THEN result
                 ELSE [result EXCEPT ![cur] = st]
    /\ st = "FAILED" => failed'
    /\ st = "SKIPPED" => ~ShouldRun(cur)

(* A handler applies the first update of its batch. *)
AppliesUpdate(s) ==
    /\ s # <<>>
    /\ Record(Head(s))
    /\ Batches' \subseteq Batches \cup {<<>>, Tail(s)}
    /\ result' = result

LEMMA BatchStep ==
    ASSUME IndType, [Next]_vars
    PROVE  \/ SameUpdates
           \/ \E st \in {"EXECUTING", "COMPLETED", "FAILED", "SKIPPED"} :
                AddsUpdate(st)
           \/ \E s \in Batches : AppliesUpdate(s)
<1>0. CoreType /\ Positions /\ N \in Nat
  BY TypeSplit, Numbers DEF IndType
<1>1. CASE UNCHANGED core
  BY <1>1 DEF core, SameUpdates, Batches
<1>2. CASE AgentGone
  BY <1>0, <1>2, LostRequests DEF AgentGone, SameUpdates, Batches
<1>3. CASE StartContainer \/ NextStage
  BY <1>3 DEF StartContainer, NextStage, rpcVars, SameUpdates, Batches
<1>4. CASE InitialCommands
  BY <1>4 DEF InitialCommands, SameUpdates, Batches
<1>5. CASE SkipCommand
  <2>1. cur \in Command
    BY <1>0, <1>5 DEF SkipCommand, CoreType, Command
  <2>2. AddsUpdate("SKIPPED")
    BY <1>5, <2>1 DEF SkipCommand, AddsUpdate, Batches, Looping
  <2> QED BY <2>2
<1>6. CASE ReportExecuting
  <2>1. cur \in Command
    BY <1>0, <1>6 DEF ReportExecuting, CoreType, Command
  <2>2. call' \in {<<>>, unflushed'} /\ abandoned' = abandoned
    BY <1>6 DEF ReportExecuting, Send
  <2>3. AddsUpdate("EXECUTING")
    BY <1>6, <2>1, <2>2 DEF ReportExecuting, AddsUpdate, Batches, Looping
  <2> QED BY <2>3
<1>7. CASE FinalFlush
  <2>1. call' \in {<<>>, unflushed} /\ abandoned' = abandoned
    BY <1>7 DEF FinalFlush, Send
  <2> QED BY <1>7, <2>1 DEF FinalFlush, SameUpdates, Batches
<1>8. CASE FlushSucceeds
  BY <1>8 DEF FlushSucceeds, SameUpdates, Batches
<1>9. CASE RetryAttempt \/ FlushFails
  <2>1. abandoned' \subseteq abandoned \cup {call}
    BY <1>0, <1>9, AbandonedRequests DEF RetryAttempt, FlushFails
  <2> QED BY <1>9, <2>1 DEF RetryAttempt, FlushFails, SameUpdates, Batches
<1>10. ASSUME NEW st \in {"COMPLETED", "FAILED"}, Step(st)
       PROVE  AddsUpdate(st)
  <2>1. cur \in Command
    BY <1>0, <1>10 DEF Step, CoreType, Positions, Command
  <2> QED BY <1>10, <2>1 DEF Step, AddsUpdate, Batches, Looping
<1>11. CASE HandleUpdate
  <2>1. CASE call # <<>> /\ Record(Head(call)) /\ call' = Tail(call)
             /\ UNCHANGED abandoned
    <3>1. AppliesUpdate(call)
      BY <1>11, <2>1 DEF HandleUpdate, AppliesUpdate, Batches
    <3> QED BY <3>1 DEF Batches
  <2>2. ASSUME NEW a \in abandoned, Record(Head(a)), UNCHANGED call,
               abandoned' = ((abandoned \ {a}) \cup {Tail(a)}) \ {<<>>}
        PROVE  AppliesUpdate(a)
    BY <1>0, <1>11, <2>2 DEF HandleUpdate, AppliesUpdate, Batches, Positions
  <2> QED BY <1>11, <2>1, <2>2 DEF HandleUpdate, Batches
<1> QED BY <1>1, <1>2, <1>3, <1>4, <1>5, <1>6, <1>7, <1>8, <1>9, <1>10, <1>11,
           CoreSteps DEF CoreStep, StepCompletes, StepFails

(* The command the agent is at lies within the stage. *)
LEMMA CurrentInStage ==
    ASSUME IndType, StagesApart, Looping, cur \in Command
    PROVE  stage <= cur /\ cur < CommandTo
<1>1. InStage(cur)
  BY DEF IndType, TypeOK, Positions, Command
<1> QED BY <1>1, StageBounds DEF IndType

LEMMA UntouchedInit == Init => Untouched
<1> SUFFICES ASSUME Init PROVE Untouched
  OBVIOUS
<1>1. \A c \in Command : result[c] = "none"
  BY DEF Init
<1> QED BY <1>1 DEF Untouched

(* The commands from one on, among the commands of a result. *)
NoneFrom(r, i) == \A c \in Command : c >= i => r[c] = "none"

LEMMA NoneFromMonotone ==
    ASSUME NEW r, NEW i \in Nat, NEW j \in Nat, i <= j, NoneFrom(r, i)
    PROVE  NoneFrom(r, j)
BY DEF NoneFrom, Command

LEMMA NoneFromKept ==
    ASSUME CoreType, NEW c \in Command, NEW st, NEW i \in Nat, c < i,
           NoneFrom(result, i)
    PROVE  NoneFrom([result EXCEPT ![c] = st], i)
BY DEF NoneFrom, CoreType, Command

LEMMA UntouchedIs ==
    Untouched <=> /\ NoneFrom(result, CommandTo)
                  /\ agent \in {"off", "starting"} => NoneFrom(result, stage)
                  /\ Looping => NoneFrom(result, cur)
BY DEF Untouched, NoneFrom

(* When the stage and the results are kept, and the agent is not at an     *)
(* earlier command.                                                        *)
LEMMA UntouchedStays ==
    ASSUME Untouched, UNCHANGED <<task, stage, cur, result>>,
           agent' \in {"off", "starting"} => agent \in {"off", "starting"},
           Looping' => Looping
    PROVE  Untouched'
BY StageKept DEF Untouched

(* The agent has dealt with its command and goes on to the next one. *)
LEMMA UntouchedMoves ==
    ASSUME IndType, StagesApart, Untouched, Looping, cur \in Command, NEW st,
           result' = [result EXCEPT ![cur] = st], Looping', cur' \in (cur + 1)..(N + 1),
           UNCHANGED <<task, stage>>
    PROVE  Untouched'
<1>0. CoreType /\ N \in Nat /\ cur \in Nat /\ cur' \in Nat
  BY TypeSplit, Numbers DEF IndType, CoreType
<1>1. cur < CommandTo /\ CommandTo \in Nat
  BY CurrentInStage, StageEnds, <1>0 DEF IndType
<1>2. NoneFrom(result', CommandTo)
  <2>1. NoneFrom(result, CommandTo)
    BY UntouchedIs
  <2> HIDE DEF CommandTo
  <2>2. NoneFrom([result EXCEPT ![cur] = st], CommandTo)
    BY <1>0, <1>1, <2>1, NoneFromKept
  <2> QED BY <2>2
<1>3. NoneFrom(result', cur')
  <2>1. NoneFrom(result, cur)
    BY UntouchedIs
  <2>2. cur <= cur' /\ cur < cur'
    BY <1>0
  <2>3. NoneFrom(result, cur')
    BY <1>0, <2>1, <2>2, NoneFromMonotone
  <2>4. NoneFrom([result EXCEPT ![cur] = st], cur')
    BY <1>0, <2>2, <2>3, NoneFromKept
  <2> QED BY <2>4
<1>4. CommandTo' = CommandTo
  BY StageKept
<1>5. agent' \notin {"off", "starting"}
  BY DEF Looping
<1> QED BY <1>2, <1>3, <1>4, <1>5 DEF Untouched, NoneFrom

LEMMA UntouchedNext ==
    ASSUME IndType, StagesApart, Untouched, [Next]_vars
    PROVE  Untouched'
<1>0. TypeOK /\ CoreType /\ Positions /\ N \in Nat
  BY TypeSplit, Numbers DEF IndType
<1>1. CASE UNCHANGED core
  BY <1>1, UntouchedStays DEF core, Looping
<1>2. CASE AgentGone
  BY <1>2, UntouchedStays DEF AgentGone, Looping
<1>3. CASE StartContainer
  BY <1>3, UntouchedStays DEF StartContainer, Looping
<1>4. CASE NextStage
  <2>1. stage' = CommandTo /\ task' = task /\ agent' = "off" /\ result' = result
    BY <1>4 DEF NextStage
  <2>2. task.images \subseteq 1..N /\ CommandTo \in 1..N
    BY <1>0, <1>4, StageEnds, Numbers DEF NextStage, CoreType, Shape, Command
  <2>3. CommandTo' = EndOf(task.images, CommandTo)
    BY <2>1 DEF CommandTo, EndOf
  <2> HIDE DEF CommandTo
  <2>4. CommandTo' \in Nat /\ CommandTo <= CommandTo'
    BY <1>0, <2>2, <2>3, EndOfIs
  <2>5. NoneFrom(result, CommandTo)
    BY UntouchedIs
  <2>6. NoneFrom(result, CommandTo')
    BY <1>0, <2>2, <2>4, <2>5, NoneFromMonotone
  <2> QED BY <2>1, <2>5, <2>6 DEF Untouched, NoneFrom, Looping
<1>5. CASE InitialCommands
  <2>1. Left = stage /\ stage \in 1..(N + 1)
    BY <1>0, StageBounds DEF CoreType
  <2>2. cur' \in stage..(N + 1)
    BY <1>0, <1>5, <2>1, NextCommandIs DEF InitialCommands
  <2>3. NoneFrom(result, stage) /\ NoneFrom(result, CommandTo)
    BY <1>5, UntouchedIs DEF InitialCommands
  <2>4. NoneFrom(result, cur')
    BY <1>0, <2>1, <2>2, <2>3, NoneFromMonotone
  <2>5. CommandTo' = CommandTo /\ result' = result
        /\ agent' \notin {"off", "starting"}
    BY <1>5, StageKept DEF InitialCommands
  <2> QED BY <2>3, <2>4, <2>5 DEF Untouched, NoneFrom
<1>6. CASE SkipCommand
  <2>1. cur \in Command /\ cur + 1 \in 1..(N + 1)
    BY <1>0, <1>6 DEF SkipCommand, CoreType, Command
  <2>2. cur' \in (cur + 1)..(N + 1)
    BY <1>0, <1>6, <2>1, NextCommandIs DEF SkipCommand
  <2> QED BY <1>6, <2>1, <2>2, UntouchedMoves DEF SkipCommand, Looping
<1>7. CASE ReportExecuting \/ FinalFlush
  BY <1>7, UntouchedStays DEF ReportExecuting, FinalFlush, Looping
<1>8. CASE FlushSucceeds
  BY <1>8, UntouchedStays DEF FlushSucceeds, AfterFlush, Looping
<1>9. CASE RetryAttempt
  BY <1>9, UntouchedStays DEF RetryAttempt, agentVars, Looping
<1>10. CASE FlushFails
  BY <1>10, UntouchedStays DEF FlushFails, AfterFlush, Looping
<1>11. ASSUME NEW st, Step(st) PROVE Untouched'
  <2>1. cur \in Command /\ cur + 1 \in 1..(N + 1)
    BY <1>0, <1>11 DEF Step, CoreType, Positions, Command
  <2>2. cur' \in (cur + 1)..(N + 1)
    BY <1>0, <1>11, <2>1, NextCommandIs DEF Step
  <2> QED BY <1>11, <2>1, <2>2, UntouchedMoves DEF Step, Looping
<1>12. CASE HandleUpdate
  BY <1>12, UntouchedStays DEF HandleUpdate, agentVars, Looping
<1> QED BY <1>1, <1>2, <1>3, <1>4, <1>5, <1>6, <1>7, <1>8, <1>9, <1>10, <1>11,
           <1>12, CoreSteps DEF CoreStep, StepCompletes, StepFails

LEMMA FirstUntouchedNext ==
    ASSUME IndType, FirstUntouched, [Next]_vars
    PROVE  FirstUntouched'
<1>0. TypeOK /\ CoreType /\ Positions /\ N \in Nat
  BY TypeSplit, Numbers DEF IndType
<1>1. ASSUME UNCHANGED <<stage, cur, result>>,
             agent' \in {"off", "starting"} => agent \in {"off", "starting"},
             Looping' => Looping
      PROVE  FirstUntouched'
  BY <1>1 DEF FirstUntouched
<1>2. ASSUME Looping, cur \in Command, UNCHANGED stage, agent' = "loop",
             \A c \in Command : c # cur => result'[c] = result[c],
             cur' \in (cur + 1)..(N + 1)
      PROVE  FirstUntouched'
  <2>1. ASSUME stage = 1, NEW c \in Command, c >= cur' PROVE result'[c] = "none"
    <3>1. c > cur /\ c # cur
      BY <1>0, <1>2, <2>1 DEF Command
    <3>2. result[c] = "none"
      BY <1>0, <1>2, <2>1, <3>1 DEF FirstUntouched, CoreType, Command
    <3> QED BY <1>2, <3>1, <3>2
  <2> QED BY <1>2, <2>1 DEF FirstUntouched
<1>3. CASE UNCHANGED core
  BY <1>1, <1>3 DEF core, Looping
<1>4. CASE AgentGone
  BY <1>1, <1>4 DEF AgentGone, Looping
<1>5. CASE StartContainer
  BY <1>1, <1>5 DEF StartContainer, Looping
<1>6. CASE NextStage
  <2>1. stage' = CommandTo /\ CommandTo > stage /\ stage \in 1..(N + 1)
        /\ CommandTo \in 1..(N + 1)
    BY <1>0, <1>6, StageEnds DEF NextStage, CoreType
  <2>2. stage' # 1
    BY <1>0, <2>1
  <2> QED BY <2>2 DEF FirstUntouched
<1>7. CASE InitialCommands
  BY <1>7 DEF InitialCommands, FirstUntouched
<1>8. CASE SkipCommand
  <2>1. cur \in Command /\ cur + 1 \in 1..(N + 1)
    BY <1>0, <1>8 DEF SkipCommand, CoreType, Command
  <2>2. cur' \in (cur + 1)..(N + 1)
    BY <1>0, <1>8, <2>1, NextCommandIs DEF SkipCommand
  <2>3. \A c \in Command : c # cur => result'[c] = result[c]
    BY <1>0, <1>8 DEF SkipCommand, CoreType
  <2> QED BY <1>2, <1>8, <2>1, <2>2, <2>3 DEF SkipCommand, Looping
<1>9. CASE ReportExecuting \/ FinalFlush \/ FlushSucceeds \/ FlushFails
  BY <1>1, <1>9 DEF ReportExecuting, FinalFlush, FlushSucceeds, FlushFails,
                    AfterFlush, Looping
<1>10. CASE RetryAttempt \/ HandleUpdate
  BY <1>1, <1>10 DEF RetryAttempt, HandleUpdate, agentVars, Looping
<1>11. ASSUME NEW st, Step(st) PROVE FirstUntouched'
  <2>1. cur \in Command /\ cur + 1 \in 1..(N + 1)
    BY <1>0, <1>11 DEF Step, CoreType, Positions, Command
  <2>2. cur' \in (cur + 1)..(N + 1)
    BY <1>0, <1>11, <2>1, NextCommandIs DEF Step
  <2>3. \A c \in Command : c # cur => result'[c] = result[c]
    BY <1>0, <1>11 DEF Step, CoreType
  <2> QED BY <1>2, <1>11, <2>1, <2>2, <2>3 DEF Step, Looping
<1> QED BY <1>3, <1>4, <1>5, <1>6, <1>7, <1>8, <1>9, <1>10, <1>11, CoreSteps
        DEF CoreStep, StepCompletes, StepFails

(* What became of a command is settled once, in the first stage and where  *)
(* the stages lie apart.                                                   *)
LEMMA ResultKept ==
    ASSUME IndType, Untouched \/ (stage = 1 /\ FirstUntouched), [Next]_vars,
           NEW c \in Command, result[c] # "none"
    PROVE  result'[c] = result[c]
<1>1. Looping => \A d \in Command : d >= cur => result[d] = "none"
  BY DEF Untouched, FirstUntouched
<1>2. ASSUME NEW st, AddsUpdate(st) PROVE result'[c] = result[c]
  <2>1. result[cur] = "none" /\ cur # c
    BY <1>1, <1>2 DEF AddsUpdate, Command
  <2> QED BY <1>2, <2>1 DEF AddsUpdate, IndType, TypeOK
<1> QED BY <1>2, BatchStep DEF SameUpdates, AppliesUpdate

(* No command is run, or skipped, by two agents or twice by one, except by *)
(* the agents of the later stages of a pipe whose stages overlap:          *)
(* RunBuild() and BoundedCommands().                                       *)
THEOREM CommandsRunOnce == Spec => RunOnce
<1> DEFINE I == IndType /\ FirstUntouched /\ (StagesApart => Untouched)
           A == \A c \in Command : result[c] # "none" /\ result'[c] # result[c] =>
                    StagesOverlap /\ stage > 1
<1>1. Init => I
  <2> SUFFICES ASSUME Init PROVE I
    OBVIOUS
  <2>1. \A c \in Command : result[c] = "none"
    BY DEF Init
  <2> QED BY <2>1, TypeInit, UntouchedInit DEF FirstUntouched
<1>2. I /\ [Next]_vars => I'
  BY TypeNext, FirstUntouchedNext, UntouchedNext, ApartKept
<1>3. I /\ [Next]_vars => [A]_vars
  <2> SUFFICES ASSUME I, [Next]_vars, NEW c \in Command, result[c] # "none",
                      result'[c] # result[c]
               PROVE  StagesOverlap /\ stage > 1
    BY DEF A
  <2>1. ~Untouched /\ stage # 1
    BY ResultKept
  <2>2. StagesOverlap
    BY <2>1 DEF StagesApart
  <2>3. stage > 1
    BY <2>1, Numbers DEF IndType, TypeOK
  <2> QED BY <2>2, <2>3
<1> HIDE DEF I
<1> QED BY <1>1, <1>2, <1>3, PTL DEF Spec, RunOnce, A

LEMMA BatchTyped ==
    ASSUME CoreType, NEW s \in Batches
    PROVE  s \in UpdateSeq
BY DEF CoreType, Batches

(* Updates stay true while results are only added, ... *)
LEMMA TrueInKept ==
    ASSUME NEW s \in UpdateSeq, NEW r, NEW q, TrueIn(s, r),
           \A c \in Command : r[c] # "none" => q[c] = r[c]
    PROVE  TrueIn(s, q)
<1> SUFFICES ASSUME NEW i \in 1..Len(s), Final(s[i])
             PROVE  q[s[i].name] = s[i].status
  BY DEF TrueIn
<1>1. s[i] \in Update
  BY BatchLen
<1> QED BY <1>1 DEF TrueIn, Update

(* ... with one more update about a new result, ... *)
LEMMA TrueInQueue ==
    ASSUME CoreType, NEW c \in Command, NEW r, TrueIn(unflushed, r),
           NEW st \in {"EXECUTING", "COMPLETED", "FAILED", "SKIPPED"},
           st # "EXECUTING" => r[c] = st
    PROVE  TrueIn(Queue(c, st), r)
<1>1. Len(unflushed) \in Nat
  BY BatchLen DEF CoreType
<1> DEFINE q == Queue(c, st)
<1>2. /\ Len(q) = Len(unflushed) + 1
      /\ \A i \in 1..Len(unflushed) : q[i] = unflushed[i]
      /\ q[Len(unflushed) + 1] = [name |-> c, status |-> st]
  BY QueueIs
<1> HIDE DEF q
<1>3. ASSUME NEW i \in 1..Len(q), Final(q[i])
      PROVE  r[q[i].name] = q[i].status
  <2>1. CASE i \in 1..Len(unflushed)
    BY <1>2, <1>3, <2>1 DEF TrueIn
  <2>2. CASE i = Len(unflushed) + 1
    BY <1>2, <1>3, <2>2 DEF Final
  <2> QED BY <1>1, <1>2, <2>1, <2>2
<1> QED BY <1>3 DEF TrueIn, q

(* ... and without the first one. *)
LEMMA TrueInTail ==
    ASSUME NEW s \in UpdateSeq, s # <<>>, NEW r, TrueIn(s, r)
    PROVE  /\ TrueIn(Tail(s), r)
           /\ Final(Head(s)) => r[Head(s).name] = Head(s).status
<1>1. ASSUME NEW i \in 1..Len(Tail(s)), Final(Tail(s)[i])
      PROVE  r[Tail(s)[i].name] = Tail(s)[i].status
  <2>1. i + 1 \in 1..Len(s) /\ Tail(s)[i] = s[i + 1]
    BY BatchHead
  <2> QED BY <1>1, <2>1 DEF TrueIn
<1>2. 1 \in 1..Len(s) /\ Head(s) = s[1]
  BY BatchHead
<1> QED BY <1>1, <1>2 DEF TrueIn

LEMMA TrueInEmpty ==
    ASSUME NEW r
    PROVE  TrueIn(<<>>, r)
BY EmptyBatch DEF TrueIn

LEMMA TrueInit == Init => UpdatesTrue /\ RecordedIsTrue
<1> SUFFICES ASSUME Init PROVE UpdatesTrue /\ RecordedIsTrue
  OBVIOUS
<1>1. \A c \in Command : recorded[c] = "Undefined"
  BY DEF Init
<1>2. Batches = {<<>>}
  BY DEF Init, Batches
<1> QED BY <1>1, <1>2, TrueInEmpty DEF UpdatesTrue, RecordedIsTrue

LEMMA TrueNext ==
    ASSUME IndType, Untouched, UpdatesTrue, RecordedIsTrue, [Next]_vars
    PROVE  UpdatesTrue' /\ RecordedIsTrue'
<1>0. CoreType
  BY TypeSplit DEF IndType
<1>1. \A c \in Command : result[c] # "none" => result'[c] = result[c]
  BY ResultKept
<1>2. \A s \in Batches : TrueIn(s, result')
  BY <1>0, <1>1, BatchTyped, TrueInKept DEF UpdatesTrue
<1>3. RecordedIsTrue /\ recorded' = recorded => RecordedIsTrue'
  BY <1>1 DEF RecordedIsTrue
<1>4. CASE SameUpdates
  BY <1>2, <1>3, <1>4, TrueInEmpty DEF SameUpdates, UpdatesTrue
<1>5. ASSUME NEW st \in {"EXECUTING", "COMPLETED", "FAILED", "SKIPPED"},
             AddsUpdate(st)
      PROVE  UpdatesTrue' /\ RecordedIsTrue'
  <2>1. cur \in Command /\ TrueIn(unflushed, result')
    BY <1>2, <1>5 DEF AddsUpdate, Batches
  <2>2. st # "EXECUTING" => result'[cur] = st
    BY <1>0, <1>5, <2>1 DEF AddsUpdate, CoreType
  <2>3. TrueIn(unflushed', result')
    BY <1>0, <1>5, <2>1, <2>2, TrueInQueue DEF AddsUpdate
  <2> QED BY <1>2, <1>3, <1>5, <2>3, TrueInEmpty DEF AddsUpdate, UpdatesTrue
<1>6. ASSUME NEW s \in Batches, AppliesUpdate(s)
      PROVE  UpdatesTrue' /\ RecordedIsTrue'
  <2>1. s \in UpdateSeq /\ s # <<>> /\ TrueIn(s, result)
    BY <1>0, <1>6, BatchTyped DEF AppliesUpdate, UpdatesTrue
  <2>2. TrueIn(Tail(s), result')
        /\ (Final(Head(s)) => result'[Head(s).name] = Head(s).status)
    BY <1>6, <2>1, TrueInTail DEF AppliesUpdate
  <2>3. UpdatesTrue'
    BY <1>2, <1>6, <2>2, TrueInEmpty DEF AppliesUpdate, UpdatesTrue
  <2>4. Head(s) \in Update
    BY <2>1, BatchHead
  <2>5. RecordedIsTrue'
    BY <1>0, <1>6, <2>2, <2>4, RecordIs
    DEF AppliesUpdate, RecordedIsTrue, Final, Update
  <2> QED BY <2>3, <2>5
<1> QED BY <1>4, <1>5, <1>6, BatchStep

LEMMA IndTrueInit == Init => IndTrue
BY TypeInit, UntouchedInit, TrueInit DEF IndTrue

LEMMA IndTrueNext ==
    ASSUME StagesApart, IndTrue, [Next]_vars
    PROVE  IndTrue'
BY TypeNext, UntouchedNext, TrueNext DEF IndTrue

(* Whatever attempts of ReportCommandUpdates() were lost, repeated or      *)
(* handled after a later one, the status that the host recorded for a      *)
(* command is what became of it, in tasks whose stages lie apart.          *)
THEOREM RecordedStatusesAreTrue == Spec => [](StagesApart => RecordedIsTrue)
<1>1. Init => (StagesApart => IndTrue)
  BY IndTrueInit
<1>2. (StagesApart => IndTrue) /\ [Next]_vars => (StagesApart => IndTrue)'
  BY IndTrueNext, ApartKept
<1>3. (StagesApart => IndTrue) => (StagesApart => RecordedIsTrue)
  BY DEF IndTrue
<1> QED BY <1>1, <1>2, <1>3, PTL DEF Spec

-----------------------------------------------------------------------------
(* What is reported is in order                                            *)

(* What a longer queue mentions, ... *)
LEMMA MentionsQueue ==
    ASSUME CoreType, NEW c \in Command, NEW d,
           NEW st \in {"EXECUTING", "COMPLETED", "FAILED", "SKIPPED"}
    PROVE  /\ \A n \in 0..Len(unflushed) :
                Mentions(unflushed, d, n) => Mentions(Queue(c, st), d, n)
           /\ Mentions(unflushed, d, Len(unflushed)) =>
                Mentions(Queue(c, st), d, Len(Queue(c, st)))
           /\ st # "EXECUTING" => Mentions(Queue(c, st), c, Len(Queue(c, st)))
<1> DEFINE q == Queue(c, st)
<1>1. Len(unflushed) \in Nat
  BY BatchLen DEF CoreType
<1>2. /\ Len(q) = Len(unflushed) + 1
      /\ \A i \in 1..Len(unflushed) : q[i] = unflushed[i]
      /\ q[Len(unflushed) + 1] = [name |-> c, status |-> st]
  BY QueueIs
<1> HIDE DEF q
<1>3. ASSUME NEW n \in 0..Len(unflushed), Mentions(unflushed, d, n)
      PROVE  Mentions(q, d, n) /\ Mentions(q, d, Len(q))
  <2>1. PICK j \in 1..n : Final(unflushed[j]) /\ unflushed[j].name = d
    BY <1>3 DEF Mentions
  <2>2. j \in 1..Len(unflushed) /\ j \in 1..Len(q)
    BY <1>1, <1>2
  <2>3. Final(q[j]) /\ q[j].name = d
    BY <1>2, <2>1, <2>2
  <2> QED BY <2>2, <2>3 DEF Mentions
<1>4. ASSUME st # "EXECUTING" PROVE Mentions(q, c, Len(q))
  <2>1. Len(q) \in 1..Len(q)
    BY <1>1, <1>2
  <2>2. Final(q[Len(q)]) /\ q[Len(q)].name = c
    BY <1>2, <1>4 DEF Final
  <2> QED BY <2>1, <2>2 DEF Mentions
<1>5. Len(unflushed) \in 0..Len(unflushed)
  BY <1>1
<1> QED BY <1>3, <1>4, <1>5 DEF q

(* ... and what the rest of a batch mentions. *)
LEMMA MentionsTail ==
    ASSUME NEW s \in UpdateSeq, s # <<>>, NEW n \in 1..Len(s), NEW c,
           Mentions(s, c, n)
    PROVE  \/ Final(Head(s)) /\ Head(s).name = c
           \/ Mentions(Tail(s), c, n - 1)
<1>1. PICK j \in 1..n : Final(s[j]) /\ s[j].name = c
  BY DEF Mentions
<1>2. CASE j = 1
  BY <1>1, <1>2, BatchHead
<1>3. CASE j # 1
  <2>1. j - 1 \in 1..(n - 1) /\ j - 1 \in 1..Len(Tail(s)) /\ (j - 1) + 1 = j
    BY <1>3, BatchHead
  <2>2. Tail(s)[j - 1] = s[j]
    BY <2>1, BatchHead
  <2> QED BY <1>1, <2>1, <2>2 DEF Mentions
<1> QED BY <1>2, <1>3

LEMMA MentionsNothing ==
    ASSUME NEW c
    PROVE  ~Mentions(<<>>, c, Len(<<>>))
BY EmptyBatch DEF Mentions

LEMMA OrderedInEmpty ==
    ASSUME NEW r, NEW t
    PROVE  OrderedIn(<<>>, r, t)
BY EmptyBatch DEF OrderedIn

LEMMA OrderedInKept ==
    ASSUME NEW s, NEW r, NEW q, NEW t, OrderedIn(s, r, t),
           \A c \in Command : r[c] # "Undefined" => q[c] # "Undefined"
    PROVE  OrderedIn(s, q, t)
BY DEF OrderedIn, Earlier

LEMMA OrderedInQueue ==
    ASSUME CoreType, NEW c \in Command, NEW r, NEW t, OrderedIn(unflushed, r, t),
           NEW st \in {"EXECUTING", "COMPLETED", "FAILED", "SKIPPED"},
           st # "EXECUTING" =>
             \A d \in Earlier(t, c) :
               r[d] # "Undefined" \/ Mentions(unflushed, d, Len(unflushed))
    PROVE  OrderedIn(Queue(c, st), r, t)
<1>1. Len(unflushed) \in Nat
  BY BatchLen DEF CoreType
<1> DEFINE q == Queue(c, st)
<1>2. /\ Len(q) = Len(unflushed) + 1
      /\ \A i \in 1..Len(unflushed) : q[i] = unflushed[i]
      /\ q[Len(unflushed) + 1] = [name |-> c, status |-> st]
  BY QueueIs
<1>3. \A d : \A n \in 0..Len(unflushed) :
        Mentions(unflushed, d, n) => Mentions(q, d, n)
  BY MentionsQueue
<1> HIDE DEF q
<1>4. ASSUME NEW i \in 1..Len(q), Final(q[i]), NEW d \in Earlier(t, q[i].name)
      PROVE  r[d] # "Undefined" \/ Mentions(q, d, i - 1)
  <2>1. CASE i \in 1..Len(unflushed)
    <3>1. r[d] # "Undefined" \/ Mentions(unflushed, d, i - 1)
      BY <1>2, <1>4, <2>1 DEF OrderedIn
    <3>2. i - 1 \in 0..Len(unflushed)
      BY <1>1, <2>1
    <3> QED BY <1>3, <3>1, <3>2
  <2>2. CASE i = Len(unflushed) + 1
    <3>1. st # "EXECUTING" /\ d \in Earlier(t, c)
      BY <1>2, <1>4, <2>2 DEF Final
    <3>2. r[d] # "Undefined" \/ Mentions(unflushed, d, Len(unflushed))
      BY <3>1
    <3>3. i - 1 = Len(unflushed) /\ Len(unflushed) \in 0..Len(unflushed)
      BY <1>1, <2>2
    <3> QED BY <1>3, <3>2, <3>3
  <2> QED BY <1>1, <1>2, <2>1, <2>2
<1> QED BY <1>4 DEF OrderedIn, q

(* The first update may be applied, and the rest stays in order. *)
LEMMA OrderedInTail ==
    ASSUME NEW s \in UpdateSeq, s # <<>>, NEW r, NEW t, OrderedIn(s, r, t), NEW q,
           \A c \in Command : r[c] # "Undefined" => q[c] # "Undefined",
           Final(Head(s)) => q[Head(s).name] # "Undefined"
    PROVE  /\ OrderedIn(Tail(s), q, t)
           /\ Final(Head(s)) =>
                \A c \in Earlier(t, Head(s).name) : r[c] # "Undefined"
<1>1. /\ Head(s) = s[1]
      /\ Len(s) \in Nat \ {0} /\ Len(Tail(s)) = Len(s) - 1
      /\ \A i \in 1..Len(Tail(s)) : Tail(s)[i] = s[i + 1]
  BY BatchHead
<1>2. ASSUME NEW i \in 1..Len(Tail(s)), Final(Tail(s)[i]),
             NEW c \in Earlier(t, Tail(s)[i].name)
      PROVE  q[c] # "Undefined" \/ Mentions(Tail(s), c, i - 1)
  <2>1. i + 1 \in 1..Len(s) /\ Tail(s)[i] = s[i + 1] /\ (i + 1) - 1 = i
        /\ i \in 1..Len(s)
    BY <1>1
  <2>2. r[c] # "Undefined" \/ Mentions(s, c, (i + 1) - 1)
    BY <1>2, <2>1 DEF OrderedIn
  <2>3. r[c] # "Undefined" => q[c] # "Undefined"
    BY DEF Earlier
  <2>4. Mentions(s, c, i) =>
          (Final(Head(s)) /\ Head(s).name = c) \/ Mentions(Tail(s), c, i - 1)
    BY <2>1, MentionsTail
  <2> QED BY <2>1, <2>2, <2>3, <2>4
<1>3. ASSUME Final(Head(s)), NEW c \in Earlier(t, Head(s).name)
      PROVE  r[c] # "Undefined"
  <2>1. 1 \in 1..Len(s)
    BY <1>1
  <2>2. r[c] # "Undefined" \/ Mentions(s, c, 1 - 1)
    BY <1>1, <1>3, <2>1 DEF OrderedIn
  <2>3. ~Mentions(s, c, 1 - 1)
    BY DEF Mentions
  <2> QED BY <2>2, <2>3
<1> QED BY <1>2, <1>3 DEF OrderedIn

(* What the host knows, it does not forget. *)
LEMMA RecordedKept ==
    ASSUME IndType, [Next]_vars, NEW c \in Command, recorded[c] # "Undefined"
    PROVE  recorded'[c] # "Undefined"
<1>0. CoreType
  BY TypeSplit DEF IndType
<1>1. ASSUME NEW s \in Batches, AppliesUpdate(s)
      PROVE  recorded'[c] # "Undefined"
  <2>1. Head(s) \in Update
    BY <1>0, <1>1, BatchTyped, BatchHead DEF AppliesUpdate
  <2> QED BY <1>0, <1>1, <2>1, RecordIs DEF AppliesUpdate, Update
<1> QED BY <1>1, BatchStep DEF SameUpdates, AddsUpdate

(* The server that is gone does not come back, and a signal stays with the *)
(* agent that got it.                                                      *)
LEMMA ServingKept ==
    ASSUME [Next]_vars
    PROVE  /\ Serving' => Serving
           /\ agent' = "reporting" /\ ~signalled' => ~signalled
<1>1. CASE HostOnly
  <2>1. SkipTask \/ StartFails \/ Start \/ RunUnsupported \/ RunPrebuilt
        \/ RunSucceeds => (Serving' => Serving) /\ signalled' = signalled
    BY DEF SkipTask, StartFails, Start, RunUnsupported, RunPrebuilt, RunSucceeds,
           Serving, agentVars
  <2>2. HandleRunError \/ ExplicitStatus \/ ScanFailures \/ ScanCommands
        \/ CloseInstance \/ Stop => (Serving' => Serving) /\ signalled' = signalled
    BY DEF HandleRunError, ExplicitStatus, ScanFailures, ScanCommands, Conclude,
           CloseInstance, Stop, Serving, agentVars
  <2> QED BY <1>1, <2>1, <2>2 DEF HostOnly
<1>2. CASE ContextOnly
  BY <1>2 DEF ContextOnly, Deadline, Interrupt, HeartbeatsLate, Heartbeat,
              MonitorLoop, AgentDeadline, Signal, hostVars, agentVars, Serving
<1>3. CASE Leaves
  BY <1>3 DEF Leaves, SetupFails, StepExits, AgentFinishes, Crash, hostVars,
              Serving
<1>4. CASE RunFails
  BY <1>4 DEF RunFails, Serving
<1>5. CASE UNCHANGED vars
  BY <1>5 DEF vars, hostVars, agentVars, Serving
<1>6. CASE StartContainer \/ NextStage \/ InitialCommands \/ SkipCommand
           \/ ReportExecuting \/ FinalFlush
  BY <1>6 DEF StartContainer, NextStage, InitialCommands, SkipCommand,
              ReportExecuting, FinalFlush, hostVars, Serving
<1>7. CASE FlushSucceeds \/ RetryAttempt \/ FlushFails \/ StepCompletes
           \/ StepFails \/ HandleUpdate
  BY <1>7 DEF FlushSucceeds, RetryAttempt, FlushFails, StepCompletes, StepFails,
              Step, HandleUpdate, hostVars, agentVars, Serving
<1> QED BY <1>1, <1>2, <1>3, <1>4, <1>5, <1>6, <1>7, Steps

(* The commands before the current one, in its stage. *)
LEMMA EarlierInStage ==
    ASSUME IndType, StagesApart, Looping, cur \in Command,
           NEW c \in Earlier(task, cur)
    PROVE  c \in Commands /\ InStage(c) /\ c < cur
<1>0. N \in Nat /\ stage \in 1..(N + 1) /\ CommandTo \in 1..(N + 1)
  BY Numbers, StageEnds DEF IndType, TypeOK
<1>1. c \in Command /\ c \in Commands /\ c < cur
      /\ ~\E i \in task.images : c < i /\ i <= cur
  BY DEF Earlier, Commands
<1>2. stage <= cur /\ cur < CommandTo
  BY CurrentInStage
<1>3. stage = 1 \/ stage \in task.images
  BY DEF IndType, Positions
<1>4. \A i \in Command : i < cur => i < CommandTo
  BY <1>0, <1>2 DEF Command
<1>5. stage <= c
  BY <1>0, <1>1, <1>2, <1>3 DEF Command
<1> QED BY <1>1, <1>4, <1>5, StageBounds DEF IndType

(* The agent still answers for what it has been through. *)
LEMMA AgentReportsNext ==
    ASSUME StagesApart, IndType, AgentReports, CallReports, [Next]_vars
    PROVE  AgentReports'
<1>0. TypeOK /\ CoreType /\ Positions /\ N \in Nat /\ cur \in 1..(N + 1)
  BY TypeSplit, Numbers DEF IndType, CoreType
<1>1. \A c \in Command : recorded[c] # "Undefined" => recorded'[c] # "Undefined"
  BY RecordedKept
<1>2. Commands \subseteq Command
  BY DEF Commands
<1>3. ASSUME Looping' => Looping, UNCHANGED <<task, stage, cur, unflushed>>
      PROVE  AgentReports'
  BY <1>1, <1>2, <1>3, StageKept DEF AgentReports
<1>4. ASSUME Looping, cur \in Command, UNCHANGED <<task, stage>>,
             NEW st \in {"COMPLETED", "FAILED", "SKIPPED"},
             unflushed' = Queue(cur, st), cur' = NextCommand(cur + 1)
      PROVE  AgentReports'
  <2> SUFFICES ASSUME NEW c \in Commands', InStage(c)', c < cur'
               PROVE  recorded'[c] # "Undefined"
                      \/ Mentions(unflushed', c, Len(unflushed'))
    BY DEF AgentReports
  <2>1. c \in Commands /\ c \in Command /\ InStage(c)
    BY <1>2, <1>4, StageKept
  <2>2. cur + 1 \in 1..(N + 1)
    BY <1>0, <1>4 DEF Command
  <2>3. cur' \in 1..(N + 1) /\ (c >= cur + 1 => c >= cur')
    BY <1>0, <1>4, <2>1, <2>2, NextCommandIs
  <2>4. c < cur \/ c = cur
    BY <1>0, <2>1, <2>3 DEF Command
  <2>5. CASE c < cur
    <3>1. recorded[c] # "Undefined" \/ Mentions(unflushed, c, Len(unflushed))
      BY <1>4, <2>1, <2>5 DEF AgentReports
    <3> QED BY <1>0, <1>1, <1>4, <2>1, <3>1, MentionsQueue
  <2>6. CASE c = cur
    BY <1>0, <1>4, <2>6, MentionsQueue
  <2> QED BY <2>4, <2>5, <2>6
<1>5. CASE UNCHANGED core \/ AgentGone \/ StartContainer \/ FinalFlush
           \/ RetryAttempt \/ FlushFails \/ HandleUpdate
  BY <1>3, <1>5 DEF core, AgentGone, StartContainer, FinalFlush, RetryAttempt,
                    FlushFails, HandleUpdate, AfterFlush, rpcVars, agentVars,
                    Looping
<1>6. CASE NextStage
  BY <1>6 DEF NextStage, AgentReports, Looping
<1>7. CASE InitialCommands
  <2>1. Left \in 1..(N + 1)
    BY <1>0 DEF Left, CommandFrom, CoreType
  <2>2. cur' = NextCommand(Left) /\ cur' \in 1..(N + 1)
    BY <1>0, <1>7, <2>1, NextCommandIs DEF InitialCommands
  <2>3. ASSUME NEW c \in Commands', InStage(c)' PROVE ~(c < cur')
    <3>1. c \in Commands /\ c \in Command /\ InStage(c)
      BY <1>2, <1>7, <2>3, StageKept DEF InitialCommands
    <3>2. c >= Left
      BY <1>0, <2>1, <3>1 DEF InStage, Command
    <3>3. c >= cur'
      BY <1>0, <2>1, <2>2, <3>1, <3>2, NextCommandIs
    <3> QED BY <1>0, <2>2, <3>1, <3>3 DEF Command
  <2> QED BY <2>3 DEF AgentReports
<1>8. CASE SkipCommand
  <2>1. cur \in Command
    BY <1>0, <1>8 DEF SkipCommand, Command
  <2> QED BY <1>4, <1>8, <2>1 DEF SkipCommand, Looping
<1>9. CASE ReportExecuting
  <2>1. cur \in Command
    BY <1>0, <1>9 DEF ReportExecuting, Command
  <2>2. \A c : Mentions(unflushed, c, Len(unflushed)) =>
                 Mentions(unflushed', c, Len(unflushed'))
    BY <1>0, <1>9, <2>1, MentionsQueue DEF ReportExecuting
  <2>3. Looping /\ UNCHANGED <<task, stage, cur>>
    BY <1>9 DEF ReportExecuting, Looping
  <2> QED BY <1>1, <1>2, <2>2, <2>3, StageKept DEF AgentReports
<1>10. CASE FlushSucceeds
  <2>1. \A c \in Command : Mentions(unflushed, c, Len(unflushed)) =>
                             recorded[c] # "Undefined"
    BY <1>10, MentionsNothing DEF FlushSucceeds, CallReports
  <2>2. Looping /\ UNCHANGED <<task, stage, cur, recorded>>
    BY <1>10 DEF FlushSucceeds, Looping
  <2> QED BY <1>2, <2>1, <2>2, StageKept DEF AgentReports
<1>11. ASSUME NEW st \in {"COMPLETED", "FAILED"}, Step(st)
       PROVE  AgentReports'
  <2>1. cur \in Command
    BY <1>0, <1>11 DEF Step, Positions, Command
  <2> QED BY <1>4, <1>11, <2>1 DEF Step, Looping
<1> QED BY <1>5, <1>6, <1>7, <1>8, <1>9, <1>10, <1>11, CoreSteps
        DEF CoreStep, StepCompletes, StepFails

(* An attempt that may still succeed carries all that is unflushed. *)
LEMMA CallReportsNext ==
    ASSUME IndType, CallReports, [Next]_vars
    PROVE  CallReports'
<1>0. CoreType /\ Positions
  BY TypeSplit DEF IndType
<1> SUFFICES ASSUME agent' = "reporting", Serving', ~signalled', NEW c \in Command,
                    Mentions(unflushed', c, Len(unflushed'))
             PROVE  recorded'[c] # "Undefined" \/ Mentions(call', c, Len(call'))
  BY DEF CallReports
<1>1. recorded[c] # "Undefined" => recorded'[c] # "Undefined"
  BY RecordedKept
<1>2. Serving /\ ~signalled
  BY ServingKept
<1>3. ASSUME UNCHANGED <<agent, unflushed, call>>
      PROVE  recorded'[c] # "Undefined" \/ Mentions(call', c, Len(call'))
  BY <1>1, <1>2, <1>3 DEF CallReports
<1>4. CASE UNCHANGED core
  BY <1>3, <1>4 DEF core
<1>5. CASE \/ AgentGone \/ StartContainer \/ NextStage \/ InitialCommands
           \/ SkipCommand \/ FlushSucceeds \/ FlushFails \/ StepCompletes
           \/ StepFails
  BY <1>5 DEF AgentGone, StartContainer, NextStage, InitialCommands, SkipCommand,
              FlushSucceeds, FlushFails, StepCompletes, StepFails, Step,
              AfterFlush
<1>6. CASE ReportExecuting \/ FinalFlush \/ RetryAttempt
  <2>1. call' = unflushed'
    BY <1>2, <1>6 DEF ReportExecuting, FinalFlush, RetryAttempt, Send
  <2> QED BY <2>1
<1>7. CASE HandleUpdate
  <2>1. UNCHANGED <<agent, unflushed>>
    BY <1>7 DEF HandleUpdate, agentVars
  <2>2. CASE UNCHANGED call
    BY <1>3, <2>1, <2>2
  <2>3. CASE call # <<>> /\ Record(Head(call)) /\ call' = Tail(call)
    <3>1. call \in UpdateSeq
      BY <1>0 DEF CoreType
    <3>2. Head(call) \in Update /\ Len(call) \in 1..Len(call)
          /\ Len(Tail(call)) = Len(call) - 1
      BY <2>3, <3>1, BatchHead
    <3>3. Final(Head(call)) => recorded'[Head(call).name] # "Undefined"
      BY <1>0, <2>3, <3>2, RecordIs DEF Final, Update
    <3>4. recorded[c] # "Undefined" \/ Mentions(call, c, Len(call))
      BY <1>2, <2>1 DEF CallReports
    <3>5. Mentions(call, c, Len(call)) =>
            \/ Final(Head(call)) /\ Head(call).name = c
            \/ Mentions(Tail(call), c, Len(call) - 1)
      BY <2>3, <3>1, <3>2, MentionsTail
    <3> QED BY <1>1, <2>3, <3>2, <3>3, <3>4, <3>5
  <2> QED BY <1>7, <2>2, <2>3 DEF HandleUpdate
<1> QED BY <1>4, <1>5, <1>6, <1>7, CoreSteps DEF CoreStep

LEMMA NoGapsIs ==
    NoGaps <=> \A d \in Commands : recorded[d] # "Undefined" =>
                 \A c \in Earlier(task, d) : recorded[c] # "Undefined"
BY DEF NoGaps, SameStage, Earlier, Commands

LEMMA GapsNext ==
    ASSUME StagesApart, IndGaps, [Next]_vars
    PROVE  UpdatesOrdered' /\ NoGaps'
<1>0. IndType /\ CoreType /\ UpdatesOrdered /\ AgentReports /\ NoGaps
  BY TypeSplit DEF IndGaps, IndTrue, IndType
<1>1. \A c \in Command : recorded[c] # "Undefined" => recorded'[c] # "Undefined"
  BY <1>0, RecordedKept
<1>2. \A s \in Batches : OrderedIn(s, recorded', task)
  BY <1>0, <1>1, OrderedInKept DEF UpdatesOrdered
<1>3. task' = task /\ Commands' = Commands
  BY TaskKept DEF Commands
<1>4. recorded' = recorded => NoGaps'
  BY <1>0, <1>3 DEF NoGaps, SameStage
<1>5. CASE SameUpdates
  BY <1>2, <1>3, <1>4, <1>5, OrderedInEmpty DEF SameUpdates, UpdatesOrdered
<1>6. ASSUME NEW st \in {"EXECUTING", "COMPLETED", "FAILED", "SKIPPED"},
             AddsUpdate(st)
      PROVE  UpdatesOrdered' /\ NoGaps'
  <2>1. cur \in Command /\ OrderedIn(unflushed, recorded', task)
        /\ recorded' = recorded
    BY <1>2, <1>6 DEF AddsUpdate, Batches
  <2>2. \A d \in Earlier(task, cur) :
          recorded[d] # "Undefined" \/ Mentions(unflushed, d, Len(unflushed))
    BY <1>0, <1>6, EarlierInStage DEF AddsUpdate, AgentReports
  <2>3. OrderedIn(unflushed', recorded', task)
    BY <1>0, <1>6, <2>1, <2>2, OrderedInQueue DEF AddsUpdate
  <2> QED BY <1>2, <1>3, <1>4, <1>6, <2>1, <2>3, OrderedInEmpty
          DEF AddsUpdate, UpdatesOrdered
<1>7. ASSUME NEW s \in Batches, AppliesUpdate(s)
      PROVE  UpdatesOrdered' /\ NoGaps'
  <2>1. s \in UpdateSeq /\ s # <<>> /\ OrderedIn(s, recorded, task)
    BY <1>0, <1>7, BatchTyped DEF AppliesUpdate, UpdatesOrdered
  <2>2. Head(s) \in Update
    BY <2>1, BatchHead
  <2>3. /\ \A c \in Command : c # Head(s).name => recorded'[c] = recorded[c]
        /\ ~Final(Head(s)) => recorded' = recorded
        /\ Final(Head(s)) => recorded'[Head(s).name] # "Undefined"
    BY <1>0, <1>7, <2>2, RecordIs DEF AppliesUpdate, Final, Update
  <2>4. /\ OrderedIn(Tail(s), recorded', task)
        /\ Final(Head(s)) =>
             \A c \in Earlier(task, Head(s).name) : recorded[c] # "Undefined"
    BY <1>1, <2>1, <2>3, OrderedInTail
  <2>5. UpdatesOrdered'
    BY <1>2, <1>3, <1>7, <2>4, OrderedInEmpty DEF AppliesUpdate, UpdatesOrdered
  <2>6. ASSUME NEW d \in Commands, recorded'[d] # "Undefined",
               NEW c \in Earlier(task, d)
        PROVE  recorded'[c] # "Undefined"
    <3>1. c \in Command /\ d \in Command
      BY DEF Earlier, Commands
    <3>2. CASE recorded[d] # "Undefined"
      BY <1>0, <1>1, <3>1, <3>2, NoGapsIs
    <3>3. CASE recorded[d] = "Undefined"
      <4>1. d = Head(s).name /\ Final(Head(s))
        BY <2>3, <2>6, <3>1, <3>3
      <4> QED BY <1>1, <2>4, <3>1, <4>1
    <3> QED BY <3>2, <3>3
  <2>7. NoGaps'
    BY <1>3, <2>6 DEF NoGaps, SameStage, Earlier, Commands
  <2> QED BY <2>5, <2>7
<1> QED BY <1>0, <1>5, <1>6, <1>7, BatchStep

LEMMA IndGapsInit == Init => IndGaps
<1> SUFFICES ASSUME Init PROVE IndGaps
  OBVIOUS
<1>1. \A c \in Command : recorded[c] = "Undefined"
  BY DEF Init
<1>2. Batches = {<<>>} /\ ~Looping
  BY DEF Init, Batches, Looping
<1>3. NoGaps
  BY <1>1 DEF NoGaps, Commands
<1>4. UpdatesOrdered /\ AgentReports /\ CallReports
  BY <1>2, OrderedInEmpty DEF UpdatesOrdered, AgentReports, CallReports, Looping
<1> QED BY <1>3, <1>4, IndTrueInit DEF IndGaps

LEMMA IndGapsNext ==
    ASSUME StagesApart, IndGaps, [Next]_vars
    PROVE  IndGaps'
<1>1. IndTrue' /\ IndType
  BY IndTrueNext DEF IndGaps, IndTrue
<1>2. AgentReports' /\ CallReports'
  BY <1>1, AgentReportsNext, CallReportsNext DEF IndGaps
<1> QED BY <1>1, <1>2, GapsNext DEF IndGaps

(* The host never learns of a command before it learned of all commands    *)
(* that precede it in its stage: Flush() of the UpdateBatcher sends a      *)
(* batch whose report failed again, in front of the updates queued since.  *)
(* This is about tasks whose stages lie apart.                             *)
THEOREM ReportsHaveNoGaps == Spec => [](StagesApart => NoGaps)
<1>1. Init => (StagesApart => IndGaps)
  BY IndGapsInit
<1>2. (StagesApart => IndGaps) /\ [Next]_vars => (StagesApart => IndGaps)'
  BY IndGapsNext, ApartKept
<1>3. (StagesApart => IndGaps) => (StagesApart => NoGaps)
  BY DEF IndGaps
<1> QED BY <1>1, <1>2, <1>3, PTL DEF Spec
=============================================================================
