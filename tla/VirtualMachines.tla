-------------------------- MODULE VirtualMachines --------------------------
(***************************************************************************)
(* The virtual machines of a persistent worker on one host: how the Tart   *)
(* and Vetu isolations clone, boot, use, stop and delete them              *)
(* (internal/executor/instance/persistentworker/isolation/{tart,vetu}),    *)
(* the standby machine (internal/worker/worker.go, task.go) and the        *)
(* clean-up of a worker that starts again after it died.                   *)
(*                                                                         *)
(* What the `tart` and `vetu` commands keep on the host (disk, running,    *)
(* strays) outlives the worker; everything else is in its memory. An       *)
(* action is what an instance does between two points at which it waits.   *)
(* Every command may fail. VM is the set of names with the prefix          *)
(* "cirrus-cli-": other machines are skipped by Cleanup().                 *)
(***************************************************************************)
EXTENDS Naturals, FiniteSets, Functions

CONSTANTS
    Instance, \* the objects of type Tart and Vetu, one per task or standby
    VM,       \* names of virtual machines, unique because they hold a UUID
    Standbys, \* the kinds of standby machine that are asked for
    Tasks,    \* the kinds of machine that tasks ask for
    Volumes,  \* what the Tart isolations say of volumes: they have none, or
              \* one with or without a name
    None

ASSUME VMAssumption ==
    /\ Volumes \in {"none", "named", "unnamed"}
    /\ None \notin VM \cup {"tart", "vetu"}
    /\ Standbys \cup Tasks \subseteq {"tart", "vetu"} /\ Standbys # {}

Kind == {"tart", "vetu"}

VARIABLES
    disk,    \* disk[v]: the store (of a Kind) that has a machine v, or None
    running, \* the machines that a `run` command of this worker runs
    strays,  \* `clone` commands that outlived the worker that started them
    dir,     \* the source directory of the volume: whether it exists,
             \* whether this life of the worker made it, and whether it is
             \* stuck there because its removal has failed
    phase,   \* of the worker: not running, cleaning up, or polling
    todo,    \* the machines Cleanup() has listed and not deleted yet
    config,  \* worker.standbyParameters as they are in memory, see Config
    inst,    \* inst[i]: the state of instance i, see Object
    lost     \* history: the machines for which something happened in this
             \* life of the worker that left them behind

host == <<disk, running, strays, dir>>
vars == <<host, phase, todo, config, inst, lost>>

Location == {"none", "clone", "configure", "ip", "warmup", "ready", "agent",
             "close", "wait", "delete"}

(* An isolation: its kind and, of its volume, whether it has a name and    *)
(* whether Cleanup is set, which the server and the configuration of the   *)
(* worker leave open.                                                      *)
Config == [kind : Kind, named : BOOLEAN, cleanup : BOOLEAN]
Declared(kind) ==
    [kind |-> kind, named |-> Volumes = "named", cleanup |-> FALSE]

Object ==
    [pc        : Location,
     kind      : Kind,
     use       : {"standby", "task"},
     shared    : BOOLEAN,             \* made from worker.standbyParameters
     vm        : VM \cup {None},      \* tart.vm, vetu.vm
     run       : {"none", "starting", "running", "done"},
     killed    : BOOLEAN,             \* runningVMCtx is cancelled
     errChan   : {"empty", "nil", "error"}, \* what `run` returned
     cleanup   : BOOLEAN,             \* of its volume, unless it is shared
     cancelled : BOOLEAN,             \* the context of the task is done
     next      : Kind \cup {None}]    \* the machine of the task for which a
                                      \* standby machine is closed

New(kind, use) ==
    [pc |-> "clone", kind |-> kind, use |-> use, shared |-> use = "standby",
     vm |-> None, run |-> "none", killed |-> FALSE,
     errChan |-> "empty", cleanup |-> FALSE, cancelled |-> FALSE,
     next |-> None]
NoObject == [New("tart", "task") EXCEPT !.pc = "none"]

(* What Close() returns to: getInstance() goes on with New(). *)
Closed(o) == IF o.next = None THEN NoObject ELSE New(o.next, "task")

(* vm.Close() looks at the machine only: `stop`, whose failure is ignored, *)
(* and runningVMCtxCancel() come first.                                    *)
MutantStopMachine(o) == [o EXCEPT !.pc = "stop", !.killed = TRUE]
StopMachine(o) ==
    [New("tart", o.use) EXCEPT
        !.pc = "wait", !.shared = FALSE, !.vm = o.vm, !.run = o.run,
        !.killed = TRUE, !.next = o.next,
        !.errChan = IF o.errChan = "empty" THEN "empty" ELSE "error"]

Init ==
    /\ disk = [v \in VM |-> None]
    /\ running = {} /\ strays = {} /\ dir \in {"absent", "found"}
    /\ phase = "down"
    /\ todo = {}
    /\ config \in {Declared(kind) : kind \in Standbys}
    /\ inst = [i \in Instance |-> NoObject]
    /\ lost = {}

-----------------------------------------------------------------------------

At(i, l) == inst[i].pc = l
Exists(i) == ~At(i, "none")
Closing(i) == inst[i].pc \in {"close", "wait", "delete"}
Done(i) == inst[i].cancelled
HasVolume(i) == inst[i].kind = "tart" /\ Volumes # "none"

(* Names in use: uuid.NewString() returns none of them, and nothing        *)
(* depends on which of the others it returns. Nor does it on which object  *)
(* New() returns.                                                          *)
Named == {v \in VM : disk[v] # None} \cup running
            \cup {s[1] : s \in strays} \cup {inst[i].vm : i \in Instance}
NewName(v) == v \notin Named /\ v = CHOOSE w \in VM : w \notin Named
NewObject(i) == ~Exists(i) /\ i = CHOOSE j \in Instance : ~Exists(j)

(* Whether Close() removes the directory of the volume. The volume is a    *)
(* pointer into worker.standbyParameters for the instances that were made  *)
(* from them.                                                              *)
Removes(i) == IF inst[i].shared THEN config.cleanup ELSE inst[i].cleanup

(* bootVM() gives the volume a name and, when it made the directory, sets  *)
(* Cleanup.                                                                *)
SetVolume(i, made) ==
    IF inst[i].shared
    THEN /\ config' = [config EXCEPT !.named = TRUE, !.cleanup = @ \/ made]
         /\ inst' = [inst EXCEPT ![i].pc = "ip", ![i].run = "starting"]
    ELSE /\ inst' = [inst EXCEPT ![i].pc = "ip", ![i].run = "starting",
                                 ![i].cleanup = made]
         /\ UNCHANGED config

Goto(i, l) == inst' = [inst EXCEPT ![i].pc = l]

(* The worker polls unless it is busy warming up or closing a standby      *)
(* machine, which it does on the goroutine that polls.                     *)
Idle ==
    /\ phase = "up"
    /\ \A i \in Instance :
         inst[i].use = "standby" => inst[i].pc \in {"none", "ready"}
Standby == {i \in Instance : At(i, "ready")}

(* Worker.Run(): clean-up of the machines that an earlier life left.       *)
Start ==
    /\ phase = "down"
    /\ phase' = "tart"
    /\ lost' = {}
    /\ dir' = IF dir = "absent" THEN "absent" ELSE "found"
    /\ config' \in {Declared(kind) : kind \in Standbys}
    /\ UNCHANGED <<disk, running, strays, todo, inst>>

After(p) == IF p = "tart" THEN "vetu" ELSE "up"

(* Cleanup(): `list`, which may fail. *)
List ==
    /\ phase \in Kind /\ todo = {}
    /\ LET left == {v \in VM : disk[v] = phase}
       IN \/ /\ todo' = left
             /\ phase' = IF left = {} THEN After(phase) ELSE phase
             /\ UNCHANGED lost
          \/ /\ phase' = After(phase) /\ lost' = lost \cup left
             /\ UNCHANGED todo
    /\ UNCHANGED <<host, config, inst>>

(* Cleanup(): `delete`; the first that fails ends it. *)
DeleteListed(v) ==
    /\ v \in todo
    /\ \/ /\ disk' = [disk EXCEPT ![v] = None]
          /\ todo' = todo \ {v}
          /\ phase' = IF todo' = {} THEN After(phase) ELSE phase
          /\ UNCHANGED lost
       \/ /\ todo' = {} /\ phase' = After(phase) /\ lost' = lost \cup todo
          /\ UNCHANGED disk
    /\ UNCHANGED <<running, strays, dir, config, inst>>
Cleanup == List \/ \E v \in todo : DeleteListed(v)

-----------------------------------------------------------------------------

(* tryCreateStandby(): New() and Warmup(). *)
CreateStandby(i) ==
    /\ Idle /\ Standby = {} /\ NewObject(i)
    /\ inst' = [inst EXCEPT ![i] = New(config.kind, "standby")]
    /\ UNCHANGED <<host, phase, todo, config, lost>>

(* A task for which there is no standby machine: New(), then Run() on a    *)
(* goroutine of its own.                                                   *)
StartTask(i, kind) ==
    /\ Idle /\ Standby = {} /\ NewObject(i)
    /\ inst' = [inst EXCEPT ![i] = New(kind, "task")]
    /\ UNCHANGED <<host, phase, todo, config, lost>>

(* proto.Equal() of worker.standbyParameters and parameters that come from *)
(* the server: the isolation of a task, or the parameters to use from now. *)
Matches(kind) == config = Declared(kind)

(* getInstance() when there is a standby machine: the task uses it, on a   *)
(* goroutine of its own, or it is closed and the task gets a new one.      *)
GetInstance(i, kind) ==
    /\ Idle /\ i \in Standby
    /\ inst' = [inst EXCEPT ![i] =
                  IF Matches(kind)
                  THEN [@ EXCEPT !.use = "task", !.pc = "agent"]
                  ELSE [@ EXCEPT !.pc = "close", !.next = kind]]
    /\ UNCHANGED <<host, phase, todo, config, lost>>

(* UpdateStandby(): a standby machine with other parameters is closed. The *)
(* instances made from the old parameters keep them.                       *)
UpdateStandby(kind) ==
    /\ Idle
    /\ inst' = [i \in Instance |->
                  LET own == IF inst[i].shared
                             THEN [inst[i] EXCEPT !.cleanup = config.cleanup,
                                                  !.shared = FALSE]
                             ELSE inst[i]
                  IN IF i \in Standby /\ ~Matches(kind)
                     THEN [own EXCEPT !.pc = "close"]
                     ELSE own]
    /\ config' = Declared(kind)
    /\ UNCHANGED <<host, phase, todo, lost>>

(* stopTask() cancels the context of a task. *)
Cancel(i) ==
    /\ Idle /\ Exists(i) /\ inst[i].use = "task" /\ ~Done(i) /\ ~Closing(i)
    /\ inst' = [inst EXCEPT ![i].cancelled = TRUE]
    /\ UNCHANGED <<host, phase, todo, config, lost>>

-----------------------------------------------------------------------------
(* bootVM(): an error makes the caller close the instance. *)

(* NewVMClonedFrom(): tart.vm is set only when `clone` succeeded. A clone  *)
(* that is killed or fails may have made the machine nevertheless.         *)
Clone(i, v) ==
    /\ At(i, "clone") /\ NewName(v)
    /\ disk' = [disk EXCEPT ![v] = inst[i].kind]
    /\ \/ /\ ~Done(i)
          /\ inst' = [inst EXCEPT ![i].vm = v, ![i].pc = "configure"]
          /\ UNCHANGED lost
       \/ /\ Goto(i, "close")
          /\ lost' = lost \cup {v}
    /\ UNCHANGED <<running, strays, dir, phase, todo, config>>
CloneFails(i) ==
    /\ At(i, "clone") /\ Goto(i, "close")
    /\ UNCHANGED <<host, phase, todo, config, lost>>

(* Configure(), the volumes of a Tart machine, whose sources are made when *)
(* they do not exist, and Start(): `run` on a goroutine of its own.        *)
ConfigureAndStart(i) ==
    /\ At(i, "configure") /\ ~Done(i)
    /\ \/ /\ ~HasVolume(i)
          /\ inst' = [inst EXCEPT ![i].pc = "ip", ![i].run = "starting"]
          /\ UNCHANGED <<dir, config>>
       \/ /\ HasVolume(i)
          /\ SetVolume(i, dir = "absent")
          /\ dir' = IF dir = "absent" THEN "made" ELSE dir
    /\ UNCHANGED <<disk, running, strays, phase, todo, lost>>

(* Configure() fails. *)
MutantConfigureFails(i) ==
    /\ At(i, "configure")
    /\ inst' = [inst EXCEPT ![i].vm = None, ![i].pc = "close"]
    /\ UNCHANGED <<host, phase, todo, config, lost>>
ConfigureFails(i) ==
    /\ At(i, "configure") /\ Goto(i, "close")
    /\ UNCHANGED <<host, phase, todo, config, lost>>

(* The directory cannot be examined or made. *)
VolumeFails(i) ==
    /\ At(i, "configure") /\ HasVolume(i) /\ ~Done(i)
    /\ Goto(i, "close")
    /\ config' = [config EXCEPT !.named = @ \/ inst[i].shared]
    /\ UNCHANGED <<host, phase, todo, lost>>

(* Warmup() and Run() go on after a boot. *)
Booted(i) == IF inst[i].use = "standby" THEN "warmup" ELSE "agent"

(* retrieveIPLoop(): ends when `ip` succeeds, when the context is done or  *)
(* its ten minutes are over, or when `run` has ended, which is no error    *)
(* when `run` returned none.                                               *)
RetrieveIPLoop(i) ==
    /\ At(i, "ip")
    /\ \/ Goto(i, "close")
       \/ ~Done(i) /\ Goto(i, Booted(i))
       \/ /\ inst[i].errChan # "empty"
          /\ inst' = [inst EXCEPT ![i].errChan = "empty",
                        ![i].pc = IF inst[i].errChan = "nil" THEN Booted(i)
                                  ELSE "close"]
    /\ UNCHANGED <<host, phase, todo, config, lost>>

(* The rest of Warmup(): WaitForSSH(), which for a Tart machine has no     *)
(* limit but the context of the worker, and the warm-up script, whose      *)
(* timeout is no error.                                                    *)
FinishWarmup(i) ==
    /\ At(i, "warmup")
    /\ Goto(i, "ready") \/ Goto(i, "close")
    /\ UNCHANGED <<host, phase, todo, config, lost>>

(* The rest of Run(): RetrieveIP() and WaitForAgent(). Whatever becomes of *)
(* the agent, of the hooks and of the connection, which a goroutine closes *)
(* when the context is done, the instance is closed next.                  *)
FinishRun(i) ==
    /\ At(i, "agent") /\ Goto(i, "close")
    /\ UNCHANGED <<host, phase, todo, config, lost>>

-----------------------------------------------------------------------------
(* The goroutine of Start(). *)

(* errChan has a buffer of one. *)
MutantCanSend(i) == At(i, "ip")
CanSend(i) == inst[i].errChan = "empty"

RunDone(i, result) ==
    /\ CanSend(i)
    /\ inst' = [inst EXCEPT ![i].run = "done", ![i].errChan = result]

(* exec.CommandContext() starts nothing when its context is done. *)
RunStarts(i) ==
    /\ inst[i].run = "starting"
    /\ \/ /\ ~inst[i].killed
          /\ running' = running \cup {inst[i].vm}
          /\ inst' = [inst EXCEPT ![i].run = "running"]
       \/ RunDone(i, "error") /\ UNCHANGED running
    /\ UNCHANGED <<disk, strays, dir, phase, todo, config, lost>>

(* `run` ends: the guest shut down or failed, or it was stopped or killed. *)
RunEnds(i) ==
    /\ inst[i].run = "running"
    /\ \E result \in {"nil", "error"} : RunDone(i, result)
    /\ running' = running \ {inst[i].vm}
    /\ UNCHANGED <<disk, strays, dir, phase, todo, config, lost>>

-----------------------------------------------------------------------------
(* Close(). *)

(* tart.Close(): the volumes first; one that cannot be removed ends it,    *)
(* before the machine is stopped and deleted. vetu has no volumes.         *)
CloseVolumes(i) ==
    LET cleanup == inst[i].kind = "tart" /\ Removes(i)
        gone == inst[i].vm = None
    IN
    /\ At(i, "close")
    /\ \/ /\ dir' = IF cleanup THEN "absent" ELSE dir
          /\ inst' = IF gone THEN [inst EXCEPT ![i] = Closed(@)]
                     ELSE [inst EXCEPT ![i] = StopMachine(@)]
          /\ UNCHANGED lost
       \/ /\ cleanup
          /\ inst' = [inst EXCEPT ![i] = Closed(@)]
          /\ lost' = IF gone THEN lost ELSE lost \cup {inst[i].vm}
          /\ dir' = IF dir = "made" THEN "stuck" ELSE dir
    /\ UNCHANGED <<disk, running, strays, phase, todo, config>>

(* vm.wg.Wait() *)
MutantWait(i) ==
    /\ At(i, "wait") /\ Goto(i, "delete")
    /\ UNCHANGED <<host, phase, todo, config, lost>>
Wait(i) ==
    /\ At(i, "wait") /\ inst[i].run \in {"none", "done"}
    /\ Goto(i, "delete")
    /\ UNCHANGED <<host, phase, todo, config, lost>>

(* `delete`: its failure is logged. *)
Delete(i) ==
    /\ At(i, "delete")
    /\ inst' = [inst EXCEPT ![i] = Closed(@)]
    /\ \/ disk' = [disk EXCEPT ![inst[i].vm] = None] /\ UNCHANGED lost
       \/ lost' = lost \cup {inst[i].vm} /\ UNCHANGED disk
    /\ UNCHANGED <<running, strays, dir, phase, todo, config>>

-----------------------------------------------------------------------------
(* The host. *)

(* The worker ends, because it was told to or because it was killed; it    *)
(* closes no instance. A `clone` command it has started may go on. So may  *)
(* a `run` command, which nobody watches any more and which is left out    *)
(* here: at worst it makes the `delete` of Cleanup() fail.                 *)
Exit ==
    /\ phase # "down"
    /\ phase' = "down" /\ todo' = {}
    /\ running' = {}
    /\ \E left \in SUBSET {i \in Instance : At(i, "clone")} :
         \E name \in Injection(left, VM \ Named) :
            strays' = strays \cup {<<name[i], inst[i].kind>> : i \in left}
    /\ inst' = [i \in Instance |-> NoObject]
    /\ UNCHANGED <<disk, dir, config, lost>>

(* Cleanup() has asked which machines there are. *)
Listed(kind) ==
    \/ phase = "up"
    \/ phase = kind /\ todo # {}
    \/ phase = "vetu" /\ kind = "tart"

(* A `clone` command that outlived its worker ends: it makes a machine     *)
(* that no instance knows, and that Cleanup() may have come too early for. *)
StrayCloneEnds(s) ==
    /\ s \in strays
    /\ strays' = strays \ {s}
    /\ disk' = [disk EXCEPT ![s[1]] = s[2]]
    /\ lost' = IF Listed(s[2]) THEN lost \cup {s[1]} ELSE lost
    /\ UNCHANGED <<running, dir, phase, todo, config, inst>>

-----------------------------------------------------------------------------

Boot(i) ==
    \/ CloneFails(i) \/ \E v \in VM : Clone(i, v)
    \/ ConfigureAndStart(i) \/ ConfigureFails(i) \/ VolumeFails(i)
    \/ RetrieveIPLoop(i) \/ FinishWarmup(i) \/ FinishRun(i)
Runner(i) == RunStarts(i) \/ RunEnds(i)
Close(i) == CloseVolumes(i) \/ Wait(i) \/ Delete(i)

Next ==
    \/ Start \/ Cleanup \/ Exit
    \/ \E i \in Instance :
         \/ CreateStandby(i) \/ Cancel(i)
         \/ \E kind \in Tasks : StartTask(i, kind) \/ GetInstance(i, kind)
         \/ Boot(i) \/ Runner(i) \/ Close(i)
    \/ \E kind \in Standbys : UpdateStandby(kind)
    \/ \E s \in strays : StrayCloneEnds(s)

Spec == Init /\ [][Next]_vars

(* What is bound to end: the commands, which the context or a time limit   *)
(* ends if nothing else does, once the context is done or where there is a *)
(* limit, and `run` once it was killed. Nothing makes the guest shut down, *)
(* the agent return or SSH answer by itself. That SSH ends with the        *)
(* context of a task is an assumption about the guest: WaitForAgent()      *)
(* watches the context once the handshake is over, which has no limit.     *)
FairSpec ==
    /\ Spec
    /\ \A i \in Instance :
         /\ WF_vars(\/ Boot(i) /\ (Done(i) \/ inst[i].pc \notin
                                    {"warmup", "agent"})
                    \/ Close(i))
         /\ WF_vars(RunStarts(i) \/ (RunEnds(i) /\ inst[i].killed))

-----------------------------------------------------------------------------

TypeOK ==
    /\ disk \in [VM -> Kind \cup {None}]
    /\ running \subseteq VM /\ strays \subseteq VM \X Kind
    /\ dir \in {"absent", "found", "made", "stuck"}
    /\ phase \in Kind \cup {"down", "up"}
    /\ todo \subseteq VM
    /\ config \in Config
    /\ inst \in [Instance -> Object]
    /\ lost \subseteq VM

(* While the worker polls, a machine in the stores belongs to an instance  *)
(* that will close it, whatever earlier lives of the worker left and       *)
(* however tasks and warm-ups ended, unless it was lost since the worker   *)
(* was started, in one of these ways:                                      *)
(*   - Cleanup() failed to list the machines when it was there, or gave up *)
(*     at it or before it came to it;                                      *)
(*   - the `clone` command of an earlier life made it after Cleanup() had  *)
(*     listed the machines;                                                *)
(*   - its own `clone` command failed or was killed, because its task was  *)
(*     stopped, for instance, when it had made the machine;                *)
(*   - its own `delete` failed, or the volume could not be removed, at     *)
(*     which Close() gives up.                                             *)
(* The code does nothing about lost machines before its next start.  A     *)
(* directory that was made for a volume belongs to an instance that will   *)
(* remove it, unless its removal has failed.                               *)
NoLeftovers ==
    phase = "up" =>
        /\ \A v \in VM : disk[v] # None =>
             v \in lost \/ \E i \in Instance : Exists(i) /\ inst[i].vm = v
        /\ dir = "made" =>
             \E i \in Instance : Exists(i) /\ Removes(i)

(* Close() deletes a machine only after the command that runs it has       *)
(* ended.                                                                  *)
DeletedAfterRun ==
    \A i \in Instance : At(i, "delete") => inst[i].vm \notin running

(* The instance of a task that is stopped is closed, in whatever state its *)
(* machine was, and Close() returns: it does not wait for ever for the     *)
(* goroutine of Start().                                                   *)
StoppedIsClosed ==
    \A i \in Instance :
        Done(i) \/ Closing(i) ~> ~Exists(i) \/ (At(i, "clone") /\ ~Done(i))

(* "if the isolation specification of that task matches the defined        *)
(* standby configuration, the standby VM will be used to run the task      *)
(* instead of creating a new VM from scratch"                              *)
(* (PERSISTENT-WORKERS.md:279): getInstance() finds that the parameters of *)
(* a standby machine match the isolation they were stated with.            *)
StandbyIsUsed == \A i \in Standby : Matches(inst[i].kind)
=============================================================================
