----------------------- MODULE VirtualMachinesProofs -----------------------
(***************************************************************************)
(* Proofs about VirtualMachines, for any number of instances and machines, *)
(* any number of lives of the worker and any sequence of failures.         *)
(***************************************************************************)
EXTENDS VirtualMachines, TLAPS

(* An instance has a machine from its clone to its close, and what has     *)
(* been started is waited for before the machine is deleted.               *)
OwnsMachine(o) ==
    /\ o.pc \in {"none", "clone"} => o.vm = None
    /\ o.pc \in {"configure", "ip", "warmup", "ready", "agent", "wait",
                 "delete"} => o.vm # None
    /\ o.pc \in {"none", "clone", "configure"} => o.run = "none"
    /\ o.run # "none" => o.vm # None
    /\ o.pc = "delete" => o.run \in {"none", "done"}

(* The volume of an instance, under the parameters c of the standby: only  *)
(* a Tart machine that may have made a directory says that it removes it,  *)
(* and only until it has.                                                  *)
OwnsVolume(o, c) ==
    /\ o.pc \in {"clone", "configure"} /\ ~o.shared => ~o.cleanup
    /\ o.pc \in {"none", "wait", "delete"} => ~o.shared /\ ~o.cleanup
    /\ o.shared => o.kind = c.kind
    /\ o.cleanup => o.kind = "tart"
    /\ o.shared /\ o.use = "task" => o.pc \in {"agent", "close"}

(* A command that runs a machine belongs to the instance that owns it. *)
RunsOwn(o, R) == o.vm \in R => o.run = "running"

Apart == \A i, j \in Instance :
            i # j /\ inst[i].vm # None => inst[i].vm # inst[j].vm

Owners ==
    /\ \A i \in Instance : /\ OwnsMachine(inst[i])
                           /\ OwnsVolume(inst[i], config)
                           /\ RunsOwn(inst[i], running)
    /\ Apart
    /\ config.cleanup => config.kind = "tart"

(* Instances are made by a worker that polls. *)
NoneYet == phase # "up" => \A i \in Instance : ~Exists(i)

(* What Cleanup() has achieved so far. *)
CleanedUp ==
    /\ phase \in Kind => dir # "made"
    /\ phase \notin Kind => todo = {}
    /\ todo # {} => \A v \in VM : disk[v] = phase => v \in todo \cup lost
    /\ phase = "vetu" => \A v \in VM : disk[v] = "tart" => v \in lost

IndType == TypeOK /\ Owners /\ NoneYet
IndInv == IndType /\ CleanedUp /\ NoLeftovers

-----------------------------------------------------------------------------
(* Objects                                                                 *)

LEMMA Fields ==
    ASSUME NEW o \in Object
    PROVE  /\ o.pc \in Location /\ o.kind \in Kind
           /\ o.use \in {"standby", "task"} /\ o.shared \in BOOLEAN
           /\ o.vm \in VM \cup {None}
           /\ o.run \in {"none", "starting", "running", "done"}
           /\ o.killed \in BOOLEAN /\ o.errChan \in {"empty", "nil", "error"}
           /\ o.cleanup \in BOOLEAN /\ o.cancelled \in BOOLEAN
           /\ o.next \in Kind \cup {None}
BY DEF Object

LEMMA NewIsObject ==
    ASSUME NEW kind \in Kind, NEW use \in {"standby", "task"}
    PROVE  New(kind, use) \in Object
<1>1. (use = "standby") \in BOOLEAN
  OBVIOUS
<1> QED BY <1>1 DEF New, Object, Location

LEMMA NoObjectIs ==
    /\ NoObject \in Object
    /\ NoObject.pc = "none" /\ NoObject.vm = None /\ NoObject.run = "none"
    /\ ~NoObject.shared /\ ~NoObject.cleanup
BY DEF NoObject, New, Object, Location, Kind

(* An object that goes on elsewhere. *)
LEMMA PcSet ==
    ASSUME NEW o \in Object, NEW l \in Location
    PROVE  LET p == [o EXCEPT !.pc = l]
           IN  /\ p \in Object /\ p.pc = l
               /\ p.kind = o.kind /\ p.use = o.use /\ p.shared = o.shared
               /\ p.vm = o.vm /\ p.run = o.run /\ p.cleanup = o.cleanup
BY DEF Object

(* What Close() leaves. *)
LEMMA ClosedIs ==
    ASSUME NEW o \in Object
    PROVE  LET p == Closed(o)
           IN  /\ p \in Object /\ p.pc \in {"none", "clone"}
               /\ p.vm = None /\ p.run = "none"
               /\ ~p.shared /\ ~p.cleanup
<1>1. CASE o.next = None
  BY <1>1, NoObjectIs DEF Closed
<1>2. CASE o.next # None
  <2>1. o.next \in Kind
    BY <1>2 DEF Object
  <2>2. New(o.next, "task") \in Object
    BY <2>1, NewIsObject
  <2> QED BY <1>2, <2>2 DEF Closed, New
<1> QED BY <1>1, <1>2

LEMMA StopMachineIs ==
    ASSUME NEW o \in Object
    PROVE  LET p == StopMachine(o)
           IN  /\ p \in Object /\ p.pc = "wait"
               /\ p.vm = o.vm /\ p.run = o.run
               /\ ~p.shared /\ ~p.cleanup
<1> DEFINE n == New("tart", o.use)
           e == IF o.errChan = "empty" THEN "empty" ELSE "error"
           p == [n EXCEPT !.pc = "wait", !.shared = FALSE, !.vm = o.vm,
                          !.run = o.run, !.killed = TRUE, !.next = o.next,
                          !.errChan = e]
<1>1. n \in Object /\ n.cleanup = FALSE
  BY NewIsObject, Fields DEF Kind, New
<1>2. e \in {"empty", "nil", "error"} /\ "wait" \in Location
  BY DEF Location
<1>3. FALSE \in BOOLEAN /\ TRUE \in BOOLEAN
  OBVIOUS
<1>4. StopMachine(o) = p
  BY DEF StopMachine
<1> HIDE DEF n, e
<1>5. p \in Object
  BY <1>1, <1>2, <1>3, Fields DEF Object
<1>6. /\ p.pc = "wait" /\ p.vm = o.vm /\ p.run = o.run
      /\ p.shared = FALSE /\ p.cleanup = FALSE
  BY <1>1 DEF Object
<1> QED BY <1>4, <1>5, <1>6

-----------------------------------------------------------------------------
(* One instance changes                                                    *)

(* What has to be shown of an action that replaces the state of instance i *)
(* by o.                                                                   *)
LEMMA Replaced ==
    ASSUME TypeOK, Owners, NEW i \in Instance, NEW o \in Object,
           inst' = [inst EXCEPT ![i] = o],
           config'.kind = config.kind,
           config'.cleanup => config.cleanup \/ (o.kind = "tart" /\ o.shared),
           running' \subseteq running \cup {o.vm}, running' \subseteq VM,
           OwnsMachine(o), OwnsVolume(o, config), RunsOwn(o, running'),
           o.vm = None \/ o.vm = inst[i].vm \/ o.vm \notin Named
    PROVE  inst' \in [Instance -> Object] /\ Owners'
<1>1. inst \in [Instance -> Object]
  BY DEF TypeOK
<1>2. \A j \in Instance : inst'[j] = IF j = i THEN o ELSE inst[j]
  BY <1>1
<1>3. inst' \in [Instance -> Object]
  BY <1>1
<1>4. config'.cleanup => config'.kind = "tart"
  BY DEF Owners, OwnsVolume
<1>5. ASSUME NEW j \in Instance, j # i, inst[j].vm # None
      PROVE  o.vm # inst[j].vm
  <2>1. inst[j].vm \in Named
    BY DEF Named
  <2> QED BY <1>5, <2>1 DEF Owners, Apart
<1>6. Apart'
  BY <1>2, <1>5 DEF Owners, Apart
<1>7. ASSUME NEW j \in Instance
      PROVE  /\ OwnsMachine(inst'[j]) /\ OwnsVolume(inst'[j], config')
             /\ RunsOwn(inst'[j], running')
  <2>1. CASE j = i
    BY <1>2, <2>1 DEF OwnsVolume
  <2>2. CASE j # i
    <3>1. OwnsMachine(inst[j]) /\ OwnsVolume(inst[j], config)
          /\ RunsOwn(inst[j], running)
      BY DEF Owners
    <3>2. None \notin VM
      BY VMAssumption
    <3>3. RunsOwn(inst[j], running')
      BY <1>5, <2>2, <3>1, <3>2 DEF RunsOwn
    <3> QED BY <1>2, <2>2, <3>1, <3>3 DEF OwnsVolume
  <2> QED BY <2>1, <2>2
<1> QED BY <1>3, <1>4, <1>6, <1>7 DEF Owners

(* An instance that only goes on elsewhere. *)
LEMMA Moved ==
    ASSUME TypeOK, Owners, NEW i \in Instance, NEW l \in Location,
           inst' = [inst EXCEPT ![i].pc = l],
           config'.kind = config.kind, config'.cleanup = config.cleanup,
           running' = running,
           inst[i].pc \notin {"none", "wait", "delete"},
           \/ l = "close"
           \/ l \in {"ip", "warmup", "ready", "agent"} /\ inst[i].vm # None
              /\ (l # "agent" => ~(inst[i].shared /\ inst[i].use = "task"))
    PROVE  inst' \in [Instance -> Object] /\ Owners'
<1> DEFINE o == [inst[i] EXCEPT !.pc = l]
<1>1. inst[i] \in Object /\ running \subseteq VM
  BY DEF TypeOK
<1>2. /\ o \in Object /\ o.pc = l
      /\ o.kind = inst[i].kind /\ o.use = inst[i].use
      /\ o.shared = inst[i].shared /\ o.vm = inst[i].vm
      /\ o.run = inst[i].run /\ o.cleanup = inst[i].cleanup
  BY <1>1, PcSet
<1>3. inst' = [inst EXCEPT ![i] = o]
  OBVIOUS
<1> HIDE DEF o
<1>4. OwnsMachine(inst[i]) /\ OwnsVolume(inst[i], config)
      /\ RunsOwn(inst[i], running)
  BY DEF Owners
<1>5. OwnsMachine(o) /\ OwnsVolume(o, config) /\ RunsOwn(o, running')
  BY <1>2, <1>4 DEF OwnsMachine, OwnsVolume, RunsOwn
<1>6. /\ config'.cleanup => config.cleanup \/ (o.kind = "tart" /\ o.shared)
      /\ running' \subseteq running \cup {o.vm} /\ running' \subseteq VM
      /\ o.vm = None \/ o.vm = inst[i].vm \/ o.vm \notin Named
  BY <1>1, <1>2
<1>7. o \in Object
  BY <1>2
<1> QED BY <1>3, <1>5, <1>6, <1>7, Replaced

-----------------------------------------------------------------------------
(* What the actions keep                                                   *)

LEMMA DeclaredIs ==
    ASSUME NEW kind \in Standbys
    PROVE  Declared(kind) \in Config /\ Declared(kind).kind = kind
           /\ Declared(kind).cleanup = FALSE
<1>1. (Volumes = "named") \in BOOLEAN /\ FALSE \in BOOLEAN /\ kind \in Kind
  BY VMAssumption DEF Kind
<1> QED BY <1>1 DEF Declared, Config

LEMMA IndTypeInit == Init => IndType
<1> SUFFICES ASSUME Init PROVE IndType
  OBVIOUS
<1>1. \A i \in Instance : inst[i] = NoObject
  BY DEF Init
<1>2. inst \in [Instance -> Object] /\ disk \in [VM -> Kind \cup {None}]
  BY NoObjectIs DEF Init
<1>3. config \in Config /\ config.cleanup = FALSE
  BY DeclaredIs DEF Init
<1>4. FALSE \in BOOLEAN
  OBVIOUS
<1>5. TypeOK
  BY <1>2, <1>3, <1>4 DEF Init, TypeOK
<1>6. Owners
  BY <1>1, <1>3, NoObjectIs DEF Init, Owners, Apart, OwnsMachine, OwnsVolume,
                                RunsOwn
<1>7. NoneYet
  BY <1>1, NoObjectIs DEF NoneYet, Exists, At
<1> QED BY <1>5, <1>6, <1>7 DEF IndType

(* Actions of the worker that leave the instances alone. *)
LEMMA IdleSteps ==
    ASSUME IndType, UNCHANGED <<inst, running>>, config' = config \/ phase # "up",
           config' \in Config, config'.cleanup => config'.kind = "tart"
    PROVE  inst' \in [Instance -> Object] /\ Owners'
<1>1. inst' \in [Instance -> Object]
  BY DEF IndType, TypeOK
<1>2. CASE config' = config
  BY <1>1, <1>2 DEF IndType, Owners, Apart
<1>3. CASE phase # "up"
  <2>1. \A i \in Instance : inst[i].pc = "none"
    BY <1>3 DEF IndType, NoneYet, Exists, At
  <2>2. \A i \in Instance : OwnsVolume(inst[i], config')
    BY <2>1 DEF IndType, Owners, OwnsVolume
  <2> QED BY <1>1, <2>2 DEF IndType, Owners, Apart
<1> QED BY <1>2, <1>3

LEMMA WorkerSteps ==
    ASSUME IndType, Start \/ Cleanup \/ \E s \in strays : StrayCloneEnds(s)
    PROVE  IndType'
<1>0. TypeOK /\ Owners /\ NoneYet
  BY DEF IndType
<1>1. CASE Start
  <2>1. phase = "down" /\ UNCHANGED <<inst, running>> /\ phase' = "tart"
    BY <1>1 DEF Start
  <2>2. config' \in Config /\ config'.cleanup = FALSE
    BY <1>1, DeclaredIs DEF Start
  <2>3. inst' \in [Instance -> Object] /\ Owners'
    BY <2>1, <2>2, IdleSteps
  <2>4. lost' \subseteq VM /\ dir' \in {"absent", "found", "made", "stuck"}
    BY <1>0, <1>1 DEF Start, TypeOK
  <2>5. TypeOK'
    BY <1>0, <1>1, <2>1, <2>2, <2>3, <2>4 DEF Start, TypeOK, Kind
  <2>6. NoneYet'
    BY <1>0, <2>1 DEF NoneYet, Exists, At
  <2> QED BY <2>3, <2>5, <2>6 DEF IndType
<1>2. CASE Cleanup
  <2>1. UNCHANGED <<inst, running, strays, dir, config>>
        /\ (phase = "up" => phase' = "up")
    BY <1>0, <1>2 DEF Cleanup, List, DeleteListed, host, After, Kind
  <2>2. inst' \in [Instance -> Object] /\ Owners'
    BY <1>0, <2>1, IdleSteps DEF TypeOK, Owners
  <2>3. todo' \subseteq VM
    BY <1>0, <1>2 DEF Cleanup, List, DeleteListed, TypeOK
  <2>4. phase' \in Kind \cup {"down", "up"}
    BY <1>0, <1>2 DEF Cleanup, List, DeleteListed, TypeOK, After, Kind
  <2>5. disk' \in [VM -> Kind \cup {None}]
    BY <1>0, <1>2 DEF Cleanup, List, DeleteListed, TypeOK, host
  <2>6. lost' \subseteq VM
    BY <1>0, <1>2 DEF Cleanup, List, DeleteListed, TypeOK
  <2>7. TypeOK'
    BY <1>0, <2>1, <2>2, <2>3, <2>4, <2>5, <2>6 DEF TypeOK
  <2>8. NoneYet'
    BY <1>0, <2>1 DEF NoneYet, Exists, At
  <2> QED BY <2>2, <2>7, <2>8 DEF IndType
<1>3. ASSUME NEW s \in strays, StrayCloneEnds(s) PROVE IndType'
  <2>1. UNCHANGED <<inst, running, dir, phase, todo, config>>
    BY <1>3 DEF StrayCloneEnds
  <2>2. inst' \in [Instance -> Object] /\ Owners'
    BY <1>0, <2>1, IdleSteps DEF TypeOK, Owners
  <2>3. s \in VM \X Kind /\ s[2] \in Kind
    BY <1>0 DEF TypeOK
  <2>4. disk' \in [VM -> Kind \cup {None}] /\ strays' \subseteq VM \X Kind
    BY <1>0, <1>3, <2>3 DEF StrayCloneEnds, TypeOK
  <2>5. lost' \subseteq VM
    <3>1. s[1] \in VM
      BY <2>3
    <3>2. lost' = lost \/ lost' = lost \cup {s[1]}
      BY <1>3 DEF StrayCloneEnds
    <3> QED BY <1>0, <3>1, <3>2 DEF TypeOK
  <2>6. TypeOK'
    BY <1>0, <2>1, <2>2, <2>4, <2>5 DEF TypeOK
  <2>7. NoneYet'
    BY <1>0, <2>1 DEF NoneYet, Exists, At
  <2> QED BY <2>2, <2>6, <2>7 DEF IndType
<1> QED BY <1>1, <1>2, <1>3

(* What has to be shown of an action of instance i that leaves the rest of *)
(* the worker alone, besides what it does to the instance.                 *)
LEMMA InstanceStep ==
    ASSUME IndType, NEW i \in Instance, inst' \in [Instance -> Object], Owners',
           Exists(i) \/ phase = "up", UNCHANGED <<strays, phase, todo>>,
           disk' \in [VM -> Kind \cup {None}], running' \subseteq VM,
           dir' \in {"absent", "found", "made", "stuck"}, config' \in Config,
           lost' \subseteq VM
    PROVE  IndType'
<1>1. phase = "up" /\ phase' = "up"
  BY DEF IndType, NoneYet
<1>2. TypeOK'
  BY DEF IndType, TypeOK
<1> QED BY <1>1, <1>2 DEF IndType, NoneYet

LEMMA NewObjectKept ==
    ASSUME IndType, NEW i \in Instance, NEW kind \in Kind,
           NEW use \in {"standby", "task"}, use = "standby" => kind = config.kind,
           Idle, NewObject(i), inst' = [inst EXCEPT ![i] = New(kind, use)],
           UNCHANGED <<host, phase, todo, config, lost>>
    PROVE  IndType'
<1> DEFINE o == New(kind, use)
<1>0. TypeOK /\ Owners /\ None \notin VM /\ phase = "up"
  BY VMAssumption DEF IndType, Idle
<1>1. o \in Object
  BY NewIsObject
<1>2. /\ o.pc = "clone" /\ o.vm = None /\ o.run = "none" /\ o.kind = kind
      /\ o.cleanup = FALSE /\ o.shared = (use = "standby") /\ o.use = use
  BY DEF New
<1> HIDE DEF o
<1>3. OwnsMachine(o) /\ OwnsVolume(o, config) /\ RunsOwn(o, running)
  BY <1>0, <1>2 DEF OwnsMachine, OwnsVolume, RunsOwn, TypeOK
<1>4. inst' = [inst EXCEPT ![i] = o] /\ running' = running /\ config' = config
      /\ running \subseteq VM
  BY <1>0 DEF host, o, TypeOK
<1>5. inst' \in [Instance -> Object] /\ Owners'
  BY <1>0, <1>1, <1>2, <1>3, <1>4, Replaced
<1> QED BY <1>0, <1>4, <1>5, InstanceStep DEF host, TypeOK

LEMMA Creates ==
    ASSUME IndType, NEW i \in Instance,
           CreateStandby(i) \/ \E kind \in Tasks : StartTask(i, kind)
    PROVE  IndType'
<1>0. Tasks \subseteq Kind /\ config.kind \in Kind
  BY VMAssumption DEF Kind, IndType, TypeOK, Config
<1>1. CASE CreateStandby(i)
  BY <1>0, <1>1, NewObjectKept DEF CreateStandby
<1>2. ASSUME NEW kind \in Tasks, StartTask(i, kind) PROVE IndType'
  BY <1>0, <1>2, NewObjectKept DEF StartTask
<1> QED BY <1>1, <1>2

(* The actions that only send an instance elsewhere. *)
LEMMA Moves ==
    ASSUME IndType, NEW i \in Instance,
           CloneFails(i) \/ ConfigureFails(i) \/ VolumeFails(i)
           \/ FinishWarmup(i) \/ FinishRun(i)
    PROVE  IndType'
<1>0. TypeOK /\ Owners /\ OwnsMachine(inst[i]) /\ OwnsVolume(inst[i], config)
  BY DEF IndType, Owners
<1>1. /\ UNCHANGED <<host, phase, todo, lost>>
      /\ inst[i].pc \notin {"none", "wait", "delete"}
  BY DEF CloneFails, ConfigureFails, VolumeFails, FinishWarmup, FinishRun, At
<1>2. /\ config' \in Config
      /\ config'.kind = config.kind /\ config'.cleanup = config.cleanup
  <2>1. CASE VolumeFails(i)
    <3>1. inst[i].shared \in BOOLEAN /\ config \in Config
      BY <1>0, Fields DEF TypeOK
    <3>2. (config.named \/ inst[i].shared) \in BOOLEAN
      OBVIOUS
    <3>3. config' = [config EXCEPT !.named = config.named \/ inst[i].shared]
      BY <2>1 DEF VolumeFails
    <3> QED BY <3>1, <3>2, <3>3 DEF Config
  <2>2. CASE UNCHANGED config
    BY <1>0, <2>2 DEF TypeOK
  <2> QED BY <2>1, <2>2 DEF CloneFails, ConfigureFails, FinishWarmup, FinishRun
<1>3. \/ inst' = [inst EXCEPT ![i].pc = "close"]
      \/ /\ inst' = [inst EXCEPT ![i].pc = "ready"]
         /\ inst[i].pc = "warmup"
  BY DEF CloneFails, ConfigureFails, VolumeFails, FinishWarmup, FinishRun, Goto,
         At
<1>4. "close" \in Location /\ "ready" \in Location
  BY DEF Location
<1>5. inst' \in [Instance -> Object] /\ Owners'
  <2>1. running' = running
    BY <1>1 DEF host
  <2>2. CASE inst' = [inst EXCEPT ![i].pc = "close"]
    BY <1>0, <1>1, <1>2, <1>4, <2>1, <2>2, Moved
  <2>3. CASE inst' = [inst EXCEPT ![i].pc = "ready"] /\ inst[i].pc = "warmup"
    <3>1. inst[i].vm # None /\ ~(inst[i].shared /\ inst[i].use = "task")
      BY <1>0, <2>3 DEF OwnsMachine, OwnsVolume
    <3> QED BY <1>0, <1>1, <1>2, <1>4, <2>1, <2>3, <3>1, Moved
  <2> QED BY <1>3, <2>2, <2>3
<1>6. Exists(i)
  BY <1>1 DEF Exists, At
<1> QED BY <1>0, <1>1, <1>2, <1>5, <1>6, InstanceStep DEF host, TypeOK

(* What an action does to the instance it is about. *)
LEMMA CancelKept ==
    ASSUME IndType, NEW i \in Instance, Cancel(i)
    PROVE  IndType'
<1> DEFINE o == [inst[i] EXCEPT !.cancelled = TRUE]
<1>0. TypeOK /\ Owners /\ inst[i] \in Object /\ OwnsMachine(inst[i])
      /\ OwnsVolume(inst[i], config) /\ RunsOwn(inst[i], running)
  BY DEF IndType, Owners, TypeOK
<1>1. o \in Object /\ o.pc = inst[i].pc /\ o.vm = inst[i].vm
      /\ o.run = inst[i].run /\ o.kind = inst[i].kind /\ o.use = inst[i].use
      /\ o.shared = inst[i].shared /\ o.cleanup = inst[i].cleanup
  BY <1>0 DEF Object
<1>2. inst' = [inst EXCEPT ![i] = o] /\ Exists(i)
      /\ UNCHANGED <<host, phase, todo, config, lost>>
  BY DEF Cancel
<1> HIDE DEF o
<1>3. OwnsMachine(o) /\ OwnsVolume(o, config) /\ RunsOwn(o, running)
  BY <1>0, <1>1 DEF OwnsMachine, OwnsVolume, RunsOwn
<1>4. running' = running /\ running \subseteq VM
  BY <1>0, <1>2 DEF host, TypeOK
<1>5. inst' \in [Instance -> Object] /\ Owners'
  BY <1>0, <1>1, <1>2, <1>3, <1>4, Replaced
<1> QED BY <1>0, <1>2, <1>5, InstanceStep DEF host, TypeOK

LEMMA GetInstanceKept ==
    ASSUME IndType, NEW i \in Instance, NEW kind \in Tasks, GetInstance(i, kind)
    PROVE  IndType'
<1> DEFINE used == [inst[i] EXCEPT !.use = "task", !.pc = "agent"]
           closed == [inst[i] EXCEPT !.pc = "close", !.next = kind]
           o == IF Matches(kind) THEN used ELSE closed
<1>0. TypeOK /\ Owners /\ inst[i] \in Object /\ OwnsMachine(inst[i])
      /\ OwnsVolume(inst[i], config) /\ RunsOwn(inst[i], running)
      /\ kind \in Kind /\ inst[i].pc = "ready"
  BY VMAssumption DEF IndType, Owners, TypeOK, Kind, GetInstance, Standby, At
<1>1. used \in Object /\ used.pc = "agent"
      /\ used.vm = inst[i].vm /\ used.run = inst[i].run
      /\ used.kind = inst[i].kind /\ used.shared = inst[i].shared
      /\ used.cleanup = inst[i].cleanup
  BY <1>0 DEF Object, Location
<1>2. closed \in Object /\ closed.pc = "close"
      /\ closed.vm = inst[i].vm /\ closed.run = inst[i].run
      /\ closed.kind = inst[i].kind /\ closed.shared = inst[i].shared
      /\ closed.cleanup = inst[i].cleanup
  BY <1>0 DEF Object, Location
<1>3. inst' = [inst EXCEPT ![i] = o] /\ phase = "up"
      /\ UNCHANGED <<host, phase, todo, config, lost>>
  BY DEF GetInstance, Idle
<1>4. o \in {used, closed}
  OBVIOUS
<1> HIDE DEF used, closed, o
<1>5. /\ o \in Object /\ o.pc \in {"agent", "close"}
      /\ o.vm = inst[i].vm /\ o.run = inst[i].run
      /\ o.kind = inst[i].kind /\ o.shared = inst[i].shared
      /\ o.cleanup = inst[i].cleanup
  BY <1>1, <1>2, <1>4
<1>6. OwnsMachine(o) /\ OwnsVolume(o, config) /\ RunsOwn(o, running)
  BY <1>0, <1>5 DEF OwnsMachine, OwnsVolume, RunsOwn
<1>7. running' = running /\ running \subseteq VM
  BY <1>0, <1>3 DEF host, TypeOK
<1>8. inst' \in [Instance -> Object] /\ Owners'
  BY <1>0, <1>3, <1>5, <1>6, <1>7, Replaced
<1> QED BY <1>0, <1>3, <1>8, InstanceStep DEF host, TypeOK

LEMMA CloneKept ==
    ASSUME IndType, NEW i \in Instance, NEW v \in VM, Clone(i, v)
    PROVE  IndType'
<1>0. TypeOK /\ Owners /\ inst[i] \in Object /\ OwnsMachine(inst[i])
      /\ OwnsVolume(inst[i], config) /\ v \notin Named /\ running \subseteq VM
      /\ inst[i].pc = "clone" /\ None \notin VM
  BY VMAssumption DEF IndType, Owners, TypeOK, Clone, At, NewName
<1>1. UNCHANGED <<running, strays, dir, phase, todo, config>> /\ Exists(i)
  BY <1>0 DEF Clone, Exists, At
<1>2. disk' \in [VM -> Kind \cup {None}]
  BY <1>0, Fields DEF Clone, TypeOK
<1>3. CASE Goto(i, "close") /\ lost' = lost \cup {v}
  <2>1. "close" \in Location
    BY DEF Location
  <2>2. inst' \in [Instance -> Object] /\ Owners'
    BY <1>0, <1>1, <1>3, <2>1, Moved DEF Goto
  <2> QED BY <1>0, <1>1, <1>2, <1>3, <2>2, InstanceStep DEF TypeOK
<1>4. CASE inst' = [inst EXCEPT ![i].vm = v, ![i].pc = "configure"]
           /\ UNCHANGED lost
  <2> DEFINE o == [inst[i] EXCEPT !.vm = v, !.pc = "configure"]
  <2>1. o \in Object /\ o.pc = "configure" /\ o.vm = v
        /\ o.run = inst[i].run /\ o.kind = inst[i].kind /\ o.use = inst[i].use
        /\ o.shared = inst[i].shared /\ o.cleanup = inst[i].cleanup
    BY <1>0 DEF Object, Location
  <2>2. inst' = [inst EXCEPT ![i] = o]
    BY <1>0, <1>4 DEF TypeOK
  <2> HIDE DEF o
  <2>3. v \notin running /\ v # None
    BY <1>0 DEF Named
  <2>4. OwnsMachine(o) /\ OwnsVolume(o, config) /\ RunsOwn(o, running)
    BY <1>0, <2>1, <2>3 DEF OwnsMachine, OwnsVolume, RunsOwn
  <2>5. inst' \in [Instance -> Object] /\ Owners'
    BY <1>0, <1>1, <2>1, <2>2, <2>4, Replaced
  <2> QED BY <1>0, <1>1, <1>2, <1>4, <2>5, InstanceStep DEF TypeOK
<1> QED BY <1>3, <1>4 DEF Clone

LEMMA ConfigureAndStartKept ==
    ASSUME IndType, NEW i \in Instance, ConfigureAndStart(i)
    PROVE  IndType'
<1>0. TypeOK /\ Owners /\ inst[i] \in Object /\ OwnsMachine(inst[i])
      /\ OwnsVolume(inst[i], config) /\ RunsOwn(inst[i], running)
      /\ inst[i].pc = "configure" /\ running \subseteq VM /\ config \in Config
  BY DEF IndType, Owners, TypeOK, ConfigureAndStart, At
<1>1. UNCHANGED <<disk, running, strays, phase, todo, lost>> /\ Exists(i)
      /\ dir' \in {"absent", "found", "made", "stuck"}
  BY <1>0 DEF ConfigureAndStart, Exists, At, TypeOK
<1> DEFINE o == [inst[i] EXCEPT !.pc = "ip", !.run = "starting"]
           made == (dir = "absent")
           p == [inst[i] EXCEPT !.pc = "ip", !.run = "starting",
                                !.cleanup = made]
<1>2. o \in Object /\ o.pc = "ip" /\ o.run = "starting"
      /\ o.vm = inst[i].vm /\ o.kind = inst[i].kind /\ o.use = inst[i].use
      /\ o.shared = inst[i].shared /\ o.cleanup = inst[i].cleanup
  BY <1>0 DEF Object, Location
<1>3. made \in BOOLEAN
  OBVIOUS
<1>4. p \in Object /\ p.pc = "ip" /\ p.run = "starting"
      /\ p.vm = inst[i].vm /\ p.kind = inst[i].kind /\ p.use = inst[i].use
      /\ p.shared = inst[i].shared
  <2> HIDE DEF made
  <2> QED BY <1>0, <1>3 DEF Object, Location
<1>5. \/ /\ inst' = [inst EXCEPT ![i] = o] /\ config' = config
      \/ /\ inst[i].kind = "tart" /\ inst[i].shared
         /\ inst' = [inst EXCEPT ![i] = o]
         /\ config' = [config EXCEPT !.named = TRUE,
                                     !.cleanup = config.cleanup \/ made]
      \/ /\ inst[i].kind = "tart" /\ ~inst[i].shared
         /\ inst' = [inst EXCEPT ![i] = p] /\ config' = config
  BY <1>0 DEF ConfigureAndStart, SetVolume, HasVolume, TypeOK
<1> HIDE DEF o, p, made
<1>6. OwnsMachine(o) /\ OwnsVolume(o, config) /\ RunsOwn(o, running)
  BY <1>0, <1>2 DEF OwnsMachine, OwnsVolume, RunsOwn
<1>7. inst[i].kind = "tart" =>
        OwnsMachine(p) /\ OwnsVolume(p, config) /\ RunsOwn(p, running)
  BY <1>0, <1>4 DEF OwnsMachine, OwnsVolume, RunsOwn
<1>8. CASE inst' = [inst EXCEPT ![i] = o] /\ config' = config
  <2>1. inst' \in [Instance -> Object] /\ Owners'
    BY <1>0, <1>1, <1>2, <1>6, <1>8, Replaced
  <2> QED BY <1>0, <1>1, <1>8, <2>1, InstanceStep DEF TypeOK
<1>9. CASE /\ inst[i].kind = "tart" /\ inst[i].shared
           /\ inst' = [inst EXCEPT ![i] = o]
           /\ config' = [config EXCEPT !.named = TRUE,
                                       !.cleanup = config.cleanup \/ made]
  <2>1. (config.cleanup \/ made) \in BOOLEAN /\ TRUE \in BOOLEAN
    OBVIOUS
  <2>2. config' \in Config /\ config'.kind = config.kind
    BY <1>0, <1>9, <2>1 DEF Config
  <2>3. inst' \in [Instance -> Object] /\ Owners'
    BY <1>0, <1>1, <1>2, <1>6, <1>9, <2>2, Replaced
  <2> QED BY <1>0, <1>1, <1>9, <2>2, <2>3, InstanceStep DEF TypeOK
<1>10. CASE /\ inst[i].kind = "tart"
            /\ inst' = [inst EXCEPT ![i] = p] /\ config' = config
  <2>1. inst' \in [Instance -> Object] /\ Owners'
    BY <1>0, <1>1, <1>4, <1>7, <1>10, Replaced
  <2> QED BY <1>0, <1>1, <1>10, <2>1, InstanceStep DEF TypeOK
<1> QED BY <1>5, <1>8, <1>9, <1>10

LEMMA RetrieveIPLoopKept ==
    ASSUME IndType, NEW i \in Instance, RetrieveIPLoop(i)
    PROVE  IndType'
<1>0. TypeOK /\ Owners /\ inst[i] \in Object /\ OwnsMachine(inst[i])
      /\ OwnsVolume(inst[i], config) /\ RunsOwn(inst[i], running)
      /\ inst[i].pc = "ip" /\ running \subseteq VM
  BY DEF IndType, Owners, TypeOK, RetrieveIPLoop, At
<1>1. UNCHANGED <<host, phase, todo, config, lost>> /\ Exists(i)
      /\ running' = running
  BY <1>0 DEF RetrieveIPLoop, Exists, At, host
<1>2. Booted(i) \in {"warmup", "agent"}
  BY DEF Booted
<1>3. inst[i].vm # None /\ ~(inst[i].shared /\ inst[i].use = "task")
  BY <1>0 DEF OwnsMachine, OwnsVolume
<1>4. CASE Goto(i, "close") \/ Goto(i, Booted(i))
  <2>1. PICK l \in {"close", "warmup", "agent"} : inst' = [inst EXCEPT ![i].pc = l]
    BY <1>2, <1>4 DEF Goto
  <2>2. l \in Location
    BY DEF Location
  <2>3. inst' \in [Instance -> Object] /\ Owners'
    BY <1>0, <1>1, <1>3, <2>1, <2>2, Moved
  <2> QED BY <1>0, <1>1, <2>3, InstanceStep DEF host, TypeOK
<1>5. ASSUME NEW l \in {"close", "warmup", "agent"},
             inst' = [inst EXCEPT ![i].errChan = "empty", ![i].pc = l]
      PROVE  IndType'
  <2> DEFINE o == [inst[i] EXCEPT !.errChan = "empty", !.pc = l]
  <2>1. o \in Object /\ o.pc = l /\ o.run = inst[i].run
        /\ o.vm = inst[i].vm /\ o.kind = inst[i].kind /\ o.use = inst[i].use
        /\ o.shared = inst[i].shared /\ o.cleanup = inst[i].cleanup
    BY <1>0 DEF Object, Location
  <2>2. inst' = [inst EXCEPT ![i] = o]
    BY <1>0, <1>5 DEF TypeOK
  <2> HIDE DEF o
  <2>3. OwnsMachine(o) /\ OwnsVolume(o, config) /\ RunsOwn(o, running)
    BY <1>0, <1>3, <2>1 DEF OwnsMachine, OwnsVolume, RunsOwn
  <2>4. inst' \in [Instance -> Object] /\ Owners'
    BY <1>0, <1>1, <2>1, <2>2, <2>3, Replaced
  <2> QED BY <1>0, <1>1, <2>4, InstanceStep DEF host, TypeOK
<1> QED BY <1>2, <1>4, <1>5 DEF RetrieveIPLoop

LEMMA RunnerKept ==
    ASSUME IndType, NEW i \in Instance, Runner(i)
    PROVE  IndType'
<1>0. TypeOK /\ Owners /\ inst[i] \in Object /\ OwnsMachine(inst[i])
      /\ OwnsVolume(inst[i], config) /\ RunsOwn(inst[i], running)
      /\ running \subseteq VM
  BY DEF IndType, Owners, TypeOK
<1>1. UNCHANGED <<disk, strays, dir, phase, todo, config, lost>>
      /\ inst[i].run \in {"starting", "running"}
  BY DEF Runner, RunStarts, RunEnds
<1>2. Exists(i) /\ inst[i].vm # None /\ inst[i].vm \in VM
  BY <1>0, <1>1, Fields DEF Exists, At, OwnsMachine
<1>3. ASSUME NEW o \in Object, o.pc = inst[i].pc, o.vm = inst[i].vm,
             o.run # "none", o.pc = "delete" => o.run = "done",
             o.kind = inst[i].kind, o.use = inst[i].use,
             o.shared = inst[i].shared, o.cleanup = inst[i].cleanup,
             inst' = [inst EXCEPT ![i] = o], running' \subseteq VM,
             running' \subseteq running \cup {o.vm}, RunsOwn(o, running')
      PROVE  IndType'
  <2>1. OwnsMachine(o) /\ OwnsVolume(o, config)
    BY <1>0, <1>1, <1>3 DEF OwnsMachine, OwnsVolume
  <2>2. inst' \in [Instance -> Object] /\ Owners'
    BY <1>0, <1>1, <1>3, <2>1, Replaced
  <2> QED BY <1>0, <1>1, <1>2, <1>3, <2>2, InstanceStep DEF TypeOK
<1>4. ASSUME running' = running \cup {inst[i].vm}, inst[i].run = "starting",
             inst' = [inst EXCEPT ![i].run = "running"]
      PROVE  IndType'
  <2> DEFINE o == [inst[i] EXCEPT !.run = "running"]
  <2>1. o \in Object /\ o.pc = inst[i].pc /\ o.run = "running"
        /\ o.vm = inst[i].vm /\ o.kind = inst[i].kind /\ o.use = inst[i].use
        /\ o.shared = inst[i].shared /\ o.cleanup = inst[i].cleanup
    BY <1>0 DEF Object
  <2>2. inst' = [inst EXCEPT ![i] = o] /\ o.pc # "delete"
    BY <1>0, <1>4, <2>1 DEF OwnsMachine
  <2> HIDE DEF o
  <2> QED BY <1>0, <1>2, <1>3, <1>4, <2>1, <2>2 DEF RunsOwn
<1>5. ASSUME NEW r \in {"nil", "error"}, RunDone(i, r),
             \/ inst[i].run = "starting" /\ running' = running
             \/ inst[i].run = "running" /\ running' = running \ {inst[i].vm}
      PROVE  IndType'
  <2> DEFINE o == [inst[i] EXCEPT !.run = "done", !.errChan = r]
  <2>1. o \in Object /\ o.pc = inst[i].pc /\ o.run = "done"
        /\ o.vm = inst[i].vm /\ o.kind = inst[i].kind /\ o.use = inst[i].use
        /\ o.shared = inst[i].shared /\ o.cleanup = inst[i].cleanup
    BY <1>0 DEF Object
  <2>2. inst' = [inst EXCEPT ![i] = o]
    BY <1>0, <1>5 DEF RunDone, TypeOK
  <2>3. o.vm \notin running'
    BY <1>0, <1>5, <2>1 DEF RunsOwn
  <2> HIDE DEF o
  <2> QED BY <1>0, <1>3, <1>5, <2>1, <2>2, <2>3 DEF RunsOwn
<1> QED BY <1>4, <1>5 DEF Runner, RunStarts, RunEnds

LEMMA CloseKept ==
    ASSUME IndType, NEW i \in Instance, Close(i)
    PROVE  IndType'
<1>0. TypeOK /\ Owners /\ inst[i] \in Object /\ OwnsMachine(inst[i])
      /\ OwnsVolume(inst[i], config) /\ RunsOwn(inst[i], running)
      /\ running \subseteq VM /\ None \notin VM
  BY VMAssumption DEF IndType, Owners, TypeOK
<1>1. UNCHANGED <<running, strays, phase, todo, config>> /\ Exists(i)
  BY DEF Close, CloseVolumes, Wait, Delete, host, Exists, At
<1>2. disk' \in [VM -> Kind \cup {None}]
  BY <1>0 DEF Close, CloseVolumes, Wait, Delete, host, TypeOK
<1>3. dir' \in {"absent", "found", "made", "stuck"}
  BY <1>0 DEF Close, CloseVolumes, Wait, Delete, host, TypeOK
<1>4. lost' \subseteq VM
  <2>1. inst[i].vm = None \/ inst[i].vm \in VM
    BY <1>0, Fields
  <2>2. At(i, "delete") => inst[i].vm # None
    BY <1>0 DEF OwnsMachine, At
  <2>3. \/ lost' = lost
        \/ lost' = lost \cup {inst[i].vm} /\ inst[i].vm # None
    BY <2>2 DEF Close, CloseVolumes, Wait, Delete
  <2> QED BY <1>0, <2>1, <2>3 DEF TypeOK
<1>5. ASSUME inst' \in [Instance -> Object], Owners' PROVE IndType'
  BY <1>0, <1>1, <1>2, <1>3, <1>4, <1>5, InstanceStep DEF TypeOK
<1>6. CASE inst' = [inst EXCEPT ![i] = Closed(inst[i])]
  <2> DEFINE o == Closed(inst[i])
  <2>1. o \in Object /\ o.pc \in {"none", "clone"} /\ o.vm = None
        /\ o.run = "none" /\ ~o.shared /\ ~o.cleanup
    BY <1>0, ClosedIs
  <2>2. inst' = [inst EXCEPT ![i] = o]
    BY <1>6
  <2> HIDE DEF o
  <2>3. OwnsMachine(o) /\ OwnsVolume(o, config) /\ RunsOwn(o, running)
    BY <1>0, <2>1 DEF OwnsMachine, OwnsVolume, RunsOwn
  <2> QED BY <1>0, <1>1, <1>5, <2>1, <2>2, <2>3, Replaced
<1>7. CASE inst' = [inst EXCEPT ![i] = StopMachine(inst[i])] /\ inst[i].vm # None
           /\ inst[i].pc = "close"
  <2> DEFINE o == StopMachine(inst[i])
  <2>1. o \in Object /\ o.pc = "wait" /\ o.vm = inst[i].vm
        /\ o.run = inst[i].run /\ ~o.shared /\ ~o.cleanup
    BY <1>0, StopMachineIs
  <2>2. inst' = [inst EXCEPT ![i] = o]
    BY <1>7
  <2> HIDE DEF o
  <2>3. OwnsMachine(o) /\ OwnsVolume(o, config) /\ RunsOwn(o, running)
    BY <1>0, <1>7, <2>1 DEF OwnsMachine, OwnsVolume, RunsOwn
  <2> QED BY <1>0, <1>1, <1>5, <2>1, <2>2, <2>3, Replaced
<1>8. CASE Wait(i)
  <2> DEFINE o == [inst[i] EXCEPT !.pc = "delete"]
  <2>1. "delete" \in Location
    BY DEF Location
  <2>2. /\ o \in Object /\ o.pc = "delete"
        /\ o.kind = inst[i].kind /\ o.use = inst[i].use
        /\ o.shared = inst[i].shared /\ o.vm = inst[i].vm
        /\ o.run = inst[i].run /\ o.cleanup = inst[i].cleanup
    BY <1>0, <2>1, PcSet
  <2>3. inst' = [inst EXCEPT ![i] = o] /\ inst[i].pc = "wait"
        /\ inst[i].run \in {"none", "done"}
    BY <1>8 DEF Wait, At, Goto
  <2> HIDE DEF o
  <2>4. OwnsMachine(o) /\ OwnsVolume(o, config) /\ RunsOwn(o, running)
    BY <1>0, <2>2, <2>3 DEF OwnsMachine, OwnsVolume, RunsOwn
  <2> QED BY <1>0, <1>1, <1>5, <2>2, <2>3, <2>4, Replaced
<1>9. CloseVolumes(i) => \/ inst' = [inst EXCEPT ![i] = Closed(inst[i])]
                         \/ /\ inst' = [inst EXCEPT ![i] = StopMachine(inst[i])]
                            /\ inst[i].vm # None /\ inst[i].pc = "close"
  BY DEF CloseVolumes, At
<1> QED BY <1>6, <1>7, <1>8, <1>9 DEF Close, Delete

LEMMA UpdateStandbyKept ==
    ASSUME IndType, NEW kind \in Standbys, UpdateStandby(kind)
    PROVE  IndType'
<1>0. TypeOK /\ Owners /\ inst \in [Instance -> Object] /\ phase = "up"
      /\ running \subseteq VM /\ config \in Config
  BY DEF IndType, TypeOK, UpdateStandby, Idle
<1> DEFINE Own(i) == IF inst[i].shared
                     THEN [inst[i] EXCEPT !.cleanup = config.cleanup,
                                          !.shared = FALSE]
                     ELSE inst[i]
           Upd(i) == IF i \in Standby /\ ~Matches(kind)
                     THEN [Own(i) EXCEPT !.pc = "close"] ELSE Own(i)
<1>1. inst' = [i \in Instance |-> Upd(i)] /\ config' = Declared(kind)
      /\ UNCHANGED <<host, phase, todo, lost>>
  BY DEF UpdateStandby
<1>2. ASSUME NEW i \in Instance
      PROVE  /\ Own(i) \in Object /\ ~Own(i).shared
             /\ Own(i).pc = inst[i].pc /\ Own(i).vm = inst[i].vm
             /\ Own(i).run = inst[i].run /\ Own(i).kind = inst[i].kind
             /\ Own(i).use = inst[i].use
             /\ Own(i).cleanup = Removes(i)
  <2>1. inst[i] \in Object /\ config.cleanup \in BOOLEAN /\ FALSE \in BOOLEAN
    BY <1>0 DEF Config
  <2>2. CASE inst[i].shared
    BY <2>1, <2>2 DEF Object, Removes
  <2>3. CASE ~inst[i].shared
    BY <2>1, <2>3 DEF Removes
  <2> QED BY <2>2, <2>3
<1>3. ASSUME NEW i \in Instance
      PROVE  /\ OwnsMachine(Own(i)) /\ OwnsVolume(Own(i), config')
             /\ Own(i).pc \in {"ready"} => inst[i].pc = "ready"
  <2>1. OwnsMachine(inst[i]) /\ OwnsVolume(inst[i], config)
        /\ (config.cleanup => config.kind = "tart")
    BY <1>0 DEF Owners
  <2>2. inst[i].use = "standby" => inst[i].pc \in {"none", "ready"}
    BY DEF UpdateStandby, Idle
  <2>3. inst[i].use \in {"standby", "task"}
    BY <1>0, Fields
  <2> HIDE DEF Own
  <2>4. OwnsMachine(Own(i))
    BY <1>2, <2>1 DEF OwnsMachine
  <2>5. OwnsVolume(Own(i), config')
    BY <1>2, <2>1, <2>2, <2>3 DEF OwnsVolume, Removes
  <2> QED BY <1>2, <2>4, <2>5
<1>4. ASSUME NEW i \in Instance
      PROVE  /\ Upd(i) \in Object /\ Upd(i).vm = inst[i].vm
             /\ Upd(i).run = inst[i].run
             /\ OwnsMachine(Upd(i)) /\ OwnsVolume(Upd(i), config')
  <2> HIDE DEF Own
  <2>1. CASE i \in Standby /\ ~Matches(kind)
    <3> DEFINE p == [Own(i) EXCEPT !.pc = "close"]
    <3>1. Upd(i) = p
      BY <2>1
    <3>2. "close" \in Location
      BY DEF Location
    <3>3. /\ p \in Object /\ p.pc = "close"
          /\ p.kind = Own(i).kind /\ p.use = Own(i).use
          /\ p.shared = Own(i).shared /\ p.vm = Own(i).vm
          /\ p.run = Own(i).run /\ p.cleanup = Own(i).cleanup
      BY <1>2, <3>2, PcSet
    <3>4. inst[i].pc = "ready"
      BY <2>1 DEF Standby, At
    <3> HIDE DEF p, Upd
    <3>5. OwnsMachine(p) /\ OwnsVolume(p, config')
      BY <1>2, <1>3, <3>3, <3>4 DEF OwnsMachine, OwnsVolume
    <3> QED BY <1>2, <3>1, <3>3, <3>5
  <2>2. CASE ~(i \in Standby /\ ~Matches(kind))
    <3>1. Upd(i) = Own(i)
      BY <2>2
    <3> QED BY <1>2, <1>3, <3>1
  <2> QED BY <2>1, <2>2
<1> HIDE DEF Own, Upd
<1>5. inst' \in [Instance -> Object] /\ \A i \in Instance : inst'[i] = Upd(i)
  BY <1>1, <1>4
<1>6. config' \in Config /\ config'.cleanup = FALSE
  BY <1>1, DeclaredIs
<1>7. running' = running
  BY <1>1 DEF host
<1>8. Apart'
  BY <1>0, <1>4, <1>5 DEF Owners, Apart
<1>9. \A i \in Instance : /\ OwnsMachine(inst'[i])
                          /\ OwnsVolume(inst'[i], config')
                          /\ RunsOwn(inst'[i], running')
  BY <1>0, <1>4, <1>5, <1>7 DEF Owners, RunsOwn
<1>10. Owners'
  BY <1>6, <1>8, <1>9 DEF Owners
<1>11. TypeOK'
  BY <1>0, <1>1, <1>5, <1>6 DEF TypeOK, host
<1>12. NoneYet'
  BY <1>0, <1>1 DEF NoneYet
<1> QED BY <1>10, <1>11, <1>12 DEF IndType

LEMMA ExitKept ==
    ASSUME IndType, Exit
    PROVE  IndType'
<1>0. TypeOK /\ Owners
  BY DEF IndType
<1>1. phase' = "down" /\ todo' = {} /\ running' = {}
      /\ UNCHANGED <<disk, dir, config, lost>>
  BY DEF Exit
<1>2. inst' = [i \in Instance |-> NoObject]
  BY DEF Exit
<1>3. inst' \in [Instance -> Object] /\ \A i \in Instance : inst'[i] = NoObject
  BY <1>2, NoObjectIs
<1>4. strays' \subseteq VM \X Kind
  <2>1. PICK left \in SUBSET {i \in Instance : At(i, "clone")} :
          \E name \in Injection(left, VM \ Named) :
            strays' = strays \cup {<<name[i], inst[i].kind>> : i \in left}
    BY DEF Exit
  <2>2. PICK name \in Injection(left, VM \ Named) :
          strays' = strays \cup {<<name[i], inst[i].kind>> : i \in left}
    BY <2>1
  <2>3. name \in [left -> VM \ Named]
    BY DEF Injection
  <2>4. ASSUME NEW i \in left PROVE <<name[i], inst[i].kind>> \in VM \X Kind
    <3>1. i \in Instance
      BY DEF At
    <3>2. inst[i].kind \in Kind
      BY <1>0, <3>1, Fields DEF TypeOK
    <3> QED BY <2>3, <3>2
  <2> QED BY <1>0, <2>2, <2>4 DEF TypeOK
<1>5. TypeOK'
  BY <1>0, <1>1, <1>3, <1>4 DEF TypeOK
<1>6. Owners'
  BY <1>0, <1>1, <1>3, NoObjectIs DEF Owners, Apart, OwnsMachine, OwnsVolume,
                                      RunsOwn
<1>7. NoneYet'
  BY <1>3, NoObjectIs DEF NoneYet, Exists, At
<1> QED BY <1>5, <1>6, <1>7 DEF IndType

LEMMA IndTypeNext == IndType /\ [Next]_vars => IndType'
<1> SUFFICES ASSUME IndType, [Next]_vars PROVE IndType'
  OBVIOUS
<1>1. CASE UNCHANGED vars
  BY <1>1 DEF vars, host, IndType, TypeOK, Owners, Apart, NoneYet, Exists, At
<1>2. CASE Exit
  BY <1>2, ExitKept
<1>3. ASSUME NEW i \in Instance,
             CreateStandby(i) \/ Cancel(i)
             \/ (\E kind \in Tasks : StartTask(i, kind) \/ GetInstance(i, kind))
             \/ Boot(i) \/ Runner(i) \/ Close(i)
      PROVE  IndType'
  BY <1>3, Creates, CancelKept, GetInstanceKept, CloneKept, Moves,
     ConfigureAndStartKept, RetrieveIPLoopKept, RunnerKept, CloseKept DEF Boot
<1>4. ASSUME NEW kind \in Standbys, UpdateStandby(kind) PROVE IndType'
  BY <1>4, UpdateStandbyKept
<1> QED BY <1>1, <1>2, <1>3, <1>4, WorkerSteps DEF Next

(* Every reachable state of VirtualMachines is well typed. *)
THEOREM TypeCorrect == Spec => []TypeOK
<1>1. IndType => TypeOK
  BY DEF IndType
<1> QED BY <1>1, IndTypeInit, IndTypeNext, PTL DEF Spec

(* Close() deletes a machine only after the command that runs it has       *)
(* ended: vm.wg.Wait() comes before `delete`, and nobody else runs the     *)
(* machine of an instance.                                                 *)
THEOREM MachinesDeletedAfterRun == Spec => []DeletedAfterRun
<1>1. IndType => DeletedAfterRun
  BY DEF IndType, Owners, OwnsMachine, RunsOwn, DeletedAfterRun, At
<1> QED BY <1>1, IndTypeInit, IndTypeNext, PTL DEF Spec

-----------------------------------------------------------------------------
(* Nothing is left behind                                                  *)

(* What Removes() says of an object. *)
RemovesDir(o, c) == IF o.shared THEN c.cleanup ELSE o.cleanup

LEMMA LeftoversAre ==
    NoLeftovers <=>
        (phase = "up" =>
           /\ \A v \in VM : disk[v] # None => v \in lost \/
                \E j \in Instance : inst[j].pc # "none" /\ inst[j].vm = v
           /\ dir = "made" =>
                \E j \in Instance : inst[j].pc # "none"
                                    /\ RemovesDir(inst[j], config))
BY DEF NoLeftovers, Exists, At, Removes, RemovesDir

LEMMA RemovesTart ==
    ASSUME IndType, NEW i \in Instance, Removes(i)
    PROVE  inst[i].kind = "tart"
BY DEF IndType, Owners, OwnsVolume, Removes

(* An action that makes no machine and no directory and closes nothing. *)
LEMMA NothingDropped ==
    ASSUME NoLeftovers, phase = "up", lost' = lost,
           \A j \in Instance : inst[j].pc # "none" =>
             /\ inst'[j].pc # "none" /\ inst'[j].vm = inst[j].vm
             /\ RemovesDir(inst[j], config) => RemovesDir(inst'[j], config'),
           disk' = disk, dir' = dir
    PROVE  NoLeftovers'
<1> SUFFICES ASSUME phase' = "up"
             PROVE  /\ \A v \in VM : disk[v] # None => v \in lost \/
                         \E j \in Instance : inst'[j].pc # "none"
                                             /\ inst'[j].vm = v
                    /\ dir = "made" =>
                         \E j \in Instance : inst'[j].pc # "none"
                                             /\ RemovesDir(inst'[j], config')
  BY DEF NoLeftovers, Exists, At, Removes, RemovesDir
<1>1. /\ \A v \in VM : disk[v] # None => v \in lost \/
           \E j \in Instance : inst[j].pc # "none" /\ inst[j].vm = v
      /\ dir = "made" =>
           \E j \in Instance : inst[j].pc # "none"
                               /\ RemovesDir(inst[j], config)
  BY LeftoversAre
<1> QED BY <1>1

LEMMA InstancesLeaveNothing ==
    ASSUME IndType, NoLeftovers, NEW i \in Instance,
           \/ CreateStandby(i) \/ Cancel(i) \/ CloneFails(i) \/ ConfigureFails(i)
           \/ VolumeFails(i) \/ FinishWarmup(i) \/ FinishRun(i)
           \/ RetrieveIPLoop(i) \/ RunStarts(i) \/ RunEnds(i) \/ Wait(i)
           \/ \E kind \in Tasks : StartTask(i, kind) \/ GetInstance(i, kind)
    PROVE  NoLeftovers'
<1>0. inst \in [Instance -> Object]
  BY DEF IndType, TypeOK
<1>1. UNCHANGED <<disk, dir, phase, lost>>
  BY DEF CreateStandby, Cancel, CloneFails, ConfigureFails, VolumeFails,
         FinishWarmup, FinishRun, RetrieveIPLoop, RunStarts, RunEnds, Wait,
         StartTask, GetInstance, host
<1>2. config'.cleanup = config.cleanup
  <2>1. config \in Config
    BY DEF IndType, TypeOK
  <2>2. VolumeFails(i) => config'.cleanup = config.cleanup
    BY <2>1 DEF VolumeFails, Config
  <2> QED BY <2>2 DEF CreateStandby, Cancel, CloneFails, ConfigureFails,
                FinishWarmup, FinishRun, RetrieveIPLoop, RunStarts, RunEnds, Wait,
                StartTask, GetInstance
<1>3. ASSUME NEW j \in Instance, inst[j].pc # "none"
      PROVE  /\ inst'[j].pc # "none" /\ inst'[j].vm = inst[j].vm
             /\ inst'[j].shared = inst[j].shared
             /\ inst'[j].cleanup = inst[j].cleanup
  <2>1. CASE CreateStandby(i) \/ \E kind \in Tasks : StartTask(i, kind)
    <3>1. j # i
      BY <1>3, <2>1 DEF CreateStandby, StartTask, NewObject, Exists, At
    <3>2. inst'[j] = inst[j]
      BY <1>0, <2>1, <3>1 DEF CreateStandby, StartTask
    <3> QED BY <1>3, <3>2
  <2>2. CASE Cancel(i)
    BY <1>0, <1>3, <2>2 DEF Cancel, Object
  <2>3. CASE CloneFails(i) \/ ConfigureFails(i) \/ VolumeFails(i) \/ FinishRun(i)
    BY <1>0, <1>3, <2>3 DEF CloneFails, ConfigureFails, VolumeFails, FinishRun,
                            Goto, Object
  <2>4. CASE FinishWarmup(i) \/ Wait(i)
    BY <1>0, <1>3, <2>4 DEF FinishWarmup, Wait, Goto, Object
  <2>5. CASE RetrieveIPLoop(i)
    BY <1>0, <1>3, <2>5 DEF RetrieveIPLoop, Booted, Goto, Object
  <2>6. CASE RunStarts(i) \/ RunEnds(i)
    BY <1>0, <1>3, <2>6 DEF RunStarts, RunEnds, RunDone, Object
  <2>7. ASSUME NEW kind \in Tasks, GetInstance(i, kind)
        PROVE  /\ inst'[j].pc # "none" /\ inst'[j].vm = inst[j].vm
               /\ inst'[j].shared = inst[j].shared
               /\ inst'[j].cleanup = inst[j].cleanup
    <3>1. \/ inst'[j] = inst[j]
          \/ inst'[j] = [inst[j] EXCEPT !.use = "task", !.pc = "agent"]
          \/ inst'[j] = [inst[j] EXCEPT !.pc = "close", !.next = kind]
      BY <1>0, <2>7 DEF GetInstance
    <3> QED BY <1>0, <1>3, <3>1 DEF Object
  <2> QED BY <2>1, <2>2, <2>3, <2>4, <2>5, <2>6, <2>7
<1>4. \A j \in Instance : inst[j].pc # "none" =>
        /\ inst'[j].pc # "none" /\ inst'[j].vm = inst[j].vm
        /\ RemovesDir(inst[j], config) => RemovesDir(inst'[j], config')
  BY <1>2, <1>3 DEF RemovesDir
<1>5. CASE phase = "up"
  BY <1>1, <1>4, <1>5, NothingDropped
<1>6. CASE phase # "up"
  BY <1>1, <1>6 DEF NoLeftovers
<1> QED BY <1>5, <1>6

LEMMA UpdateLeavesNothing ==
    ASSUME IndType, NoLeftovers, NEW kind \in Standbys, UpdateStandby(kind)
    PROVE  NoLeftovers'
<1>0. inst \in [Instance -> Object] /\ config \in Config /\ phase = "up"
  BY DEF IndType, TypeOK, UpdateStandby, Idle
<1>1. UNCHANGED <<disk, dir, phase, lost>>
  BY DEF UpdateStandby, host
<1>2. ASSUME NEW j \in Instance, inst[j].pc # "none"
      PROVE  /\ inst'[j].pc # "none" /\ inst'[j].vm = inst[j].vm
             /\ RemovesDir(inst[j], config) => RemovesDir(inst'[j], config')
  <2> DEFINE own == IF inst[j].shared
                    THEN [inst[j] EXCEPT !.cleanup = config.cleanup,
                                         !.shared = FALSE]
                    ELSE inst[j]
  <2>1. inst'[j] \in {own, [own EXCEPT !.pc = "close"]}
    BY DEF UpdateStandby
  <2>2. inst[j] \in Object /\ config.cleanup \in BOOLEAN /\ FALSE \in BOOLEAN
    BY <1>0 DEF Config
  <2>3. own \in Object /\ own.pc = inst[j].pc /\ own.vm = inst[j].vm
        /\ (RemovesDir(inst[j], config) => ~own.shared /\ own.cleanup)
    <3>1. CASE inst[j].shared
      BY <2>2, <3>1 DEF Object, RemovesDir
    <3>2. CASE ~inst[j].shared
      BY <2>2, <3>2 DEF RemovesDir
    <3> QED BY <3>1, <3>2
  <2> HIDE DEF own
  <2>4. CASE inst'[j] = own
    BY <1>2, <2>3, <2>4 DEF RemovesDir
  <2>5. CASE inst'[j] = [own EXCEPT !.pc = "close"]
    <3>1. /\ inst'[j].pc = "close" /\ inst'[j].vm = own.vm
          /\ inst'[j].shared = own.shared /\ inst'[j].cleanup = own.cleanup
      BY <2>3, <2>5 DEF Object
    <3> QED BY <2>3, <3>1 DEF RemovesDir
  <2> QED BY <2>1, <2>4, <2>5
<1> QED BY <1>0, <1>1, <1>2, NothingDropped

(* What is left when the state of instance i is replaced by o. *)
LEMMA OneLeavesNothing ==
    ASSUME IndType, NoLeftovers, phase = "up", lost \subseteq lost',
           NEW i \in Instance, NEW o, inst' = [inst EXCEPT ![i] = o],
           config.cleanup => config'.cleanup,
           \A v \in VM : disk'[v] # None =>
             \/ disk[v] # None /\ v # inst[i].vm
             \/ o.pc # "none" /\ o.vm = v
             \/ v \in lost',
           dir' = "made" =>
             \/ dir = "made" /\ ~RemovesDir(inst[i], config)
             \/ o.pc # "none" /\ RemovesDir(o, config')
    PROVE  NoLeftovers'
<1>0. \A j \in Instance : inst'[j] = IF j = i THEN o ELSE inst[j]
  BY DEF IndType, TypeOK
<1> SUFFICES ASSUME phase' = "up"
             PROVE  /\ \A v \in VM : disk'[v] # None => v \in lost' \/
                         \E j \in Instance : inst'[j].pc # "none"
                                             /\ inst'[j].vm = v
                    /\ dir' = "made" =>
                         \E j \in Instance : inst'[j].pc # "none"
                                             /\ RemovesDir(inst'[j], config')
  BY DEF NoLeftovers, Exists, At, Removes, RemovesDir
<1>1. /\ \A v \in VM : disk[v] # None => v \in lost \/
           \E j \in Instance : inst[j].pc # "none" /\ inst[j].vm = v
      /\ dir = "made" =>
           \E j \in Instance : inst[j].pc # "none"
                               /\ RemovesDir(inst[j], config)
  BY LeftoversAre
<1>2. \A j \in Instance : RemovesDir(inst[j], config) =>
                            RemovesDir(inst[j], config')
  BY DEF RemovesDir
<1> QED BY <1>0, <1>1, <1>2

LEMMA CloneLeavesNothing ==
    ASSUME IndType, NoLeftovers, NEW i \in Instance, NEW v \in VM, Clone(i, v)
    PROVE  NoLeftovers'
<1>0. /\ inst[i] \in Object /\ None \notin VM /\ OwnsMachine(inst[i])
      /\ disk \in [VM -> Kind \cup {None}] /\ inst[i].pc = "clone"
  BY VMAssumption DEF IndType, TypeOK, Owners, Clone, At
<1>1. phase = "up" /\ inst[i].vm = None
  BY <1>0 DEF IndType, NoneYet, Exists, At, OwnsMachine
<1>2. CASE Goto(i, "close") /\ lost' = lost \cup {v}
  <2> DEFINE o == [inst[i] EXCEPT !.pc = "close"]
  <2>1. o.pc = "close"
        /\ o.shared = inst[i].shared /\ o.cleanup = inst[i].cleanup
    BY <1>0 DEF Object
  <2>2. inst' = [inst EXCEPT ![i] = o]
    BY <1>2 DEF Goto
  <2> HIDE DEF o
  <2>3. \A w \in VM : disk'[w] # None =>
          (disk[w] # None /\ w # inst[i].vm) \/ w \in lost'
    BY <1>0, <1>1, <1>2 DEF Clone
  <2>4. dir' = dir /\ config' = config /\ lost \subseteq lost'
    BY <1>2 DEF Clone
  <2>5. ~RemovesDir(inst[i], config) \/ (o.pc # "none" /\ RemovesDir(o, config'))
    BY <2>1, <2>4 DEF RemovesDir
  <2> QED BY <1>1, <2>2, <2>3, <2>4, <2>5, OneLeavesNothing
<1>3. CASE inst' = [inst EXCEPT ![i].vm = v, ![i].pc = "configure"]
           /\ UNCHANGED lost
  <2> DEFINE o == [inst[i] EXCEPT !.vm = v, !.pc = "configure"]
  <2>1. o.pc = "configure" /\ o.vm = v
        /\ o.shared = inst[i].shared /\ o.cleanup = inst[i].cleanup
    BY <1>0 DEF Object
  <2>2. inst' = [inst EXCEPT ![i] = o]
    BY <1>3 DEF IndType, TypeOK
  <2> HIDE DEF o
  <2>3. \A w \in VM : disk'[w] # None =>
          (disk[w] # None /\ w # inst[i].vm) \/ (o.pc # "none" /\ o.vm = w)
    BY <1>0, <1>1, <2>1 DEF Clone
  <2>4. dir' = dir /\ config' = config
    BY DEF Clone
  <2>5. ~RemovesDir(inst[i], config) \/ (o.pc # "none" /\ RemovesDir(o, config'))
    BY <2>1, <2>4 DEF RemovesDir
  <2> QED BY <1>1, <1>3, <2>2, <2>3, <2>4, <2>5, OneLeavesNothing
<1> QED BY <1>2, <1>3 DEF Clone

LEMMA ConfigureLeavesNothing ==
    ASSUME IndType, NoLeftovers, NEW i \in Instance, ConfigureAndStart(i)
    PROVE  NoLeftovers'
<1>0. /\ inst[i] \in Object /\ OwnsVolume(inst[i], config) /\ config \in Config
      /\ inst[i].pc = "configure"
  BY DEF IndType, TypeOK, Owners, ConfigureAndStart, At
<1>1. phase = "up" /\ lost' = lost /\ disk' = disk
  BY <1>0 DEF IndType, NoneYet, Exists, At, ConfigureAndStart
<1> DEFINE o == [inst[i] EXCEPT !.pc = "ip", !.run = "starting"]
           made == (dir = "absent")
           p == [inst[i] EXCEPT !.pc = "ip", !.run = "starting",
                                !.cleanup = made]
<1>2. o.pc = "ip" /\ o.vm = inst[i].vm
      /\ o.shared = inst[i].shared /\ o.cleanup = inst[i].cleanup
  BY <1>0 DEF Object
<1>3. p.pc = "ip" /\ p.vm = inst[i].vm
      /\ p.shared = inst[i].shared /\ p.cleanup = made
  BY <1>0 DEF Object
<1>4. \/ /\ inst' = [inst EXCEPT ![i] = o] /\ config' = config /\ dir' = dir
      \/ /\ inst[i].shared
         /\ inst' = [inst EXCEPT ![i] = o]
         /\ config' = [config EXCEPT !.named = TRUE,
                                     !.cleanup = config.cleanup \/ made]
         /\ dir' = IF made THEN "made" ELSE dir
      \/ /\ ~inst[i].shared
         /\ inst' = [inst EXCEPT ![i] = p] /\ config' = config
         /\ dir' = IF made THEN "made" ELSE dir
  BY <1>0 DEF ConfigureAndStart, SetVolume, IndType, TypeOK
<1> HIDE DEF o, p, made
<1>5. CASE inst' = [inst EXCEPT ![i] = o] /\ config' = config /\ dir' = dir
  <2>1. ~RemovesDir(inst[i], config) \/ (o.pc # "none" /\ RemovesDir(o, config'))
    BY <1>2, <1>5 DEF RemovesDir
  <2> QED BY <1>1, <1>2, <1>5, <2>1, OneLeavesNothing
<1>6. CASE /\ inst[i].shared
           /\ inst' = [inst EXCEPT ![i] = o]
           /\ config' = [config EXCEPT !.named = TRUE,
                                       !.cleanup = config.cleanup \/ made]
           /\ dir' = IF made THEN "made" ELSE dir
  <2>1. config'.cleanup = (config.cleanup \/ made)
    BY <1>0, <1>6 DEF Config
  <2>2. (config.cleanup => config'.cleanup) /\ (made => config'.cleanup)
    BY <2>1
  <2>3. RemovesDir(inst[i], config) => RemovesDir(o, config')
    BY <1>2, <1>6, <2>2 DEF RemovesDir
  <2>4. made => RemovesDir(o, config')
    BY <1>2, <1>6, <2>2 DEF RemovesDir
  <2>5. dir' = "made" => made \/ dir = "made"
    BY <1>6
  <2> QED BY <1>1, <1>2, <1>6, <2>2, <2>3, <2>4, <2>5, OneLeavesNothing
<1>7. CASE /\ ~inst[i].shared
           /\ inst' = [inst EXCEPT ![i] = p] /\ config' = config
           /\ dir' = IF made THEN "made" ELSE dir
  <2>1. ~RemovesDir(inst[i], config)
    BY <1>0, <1>7 DEF OwnsVolume, RemovesDir
  <2>2. made => RemovesDir(p, config')
    BY <1>3, <1>7 DEF RemovesDir
  <2>3. dir' = "made" => made \/ dir = "made"
    BY <1>7
  <2> QED BY <1>1, <1>3, <1>7, <2>1, <2>2, <2>3, OneLeavesNothing
<1> QED BY <1>4, <1>5, <1>6, <1>7

LEMMA CloseLeavesNothing ==
    ASSUME IndType, NoLeftovers, NEW i \in Instance,
           CloseVolumes(i) \/ Delete(i)
    PROVE  NoLeftovers'
<1>0. /\ inst[i] \in Object /\ None \notin VM /\ OwnsMachine(inst[i])
      /\ OwnsVolume(inst[i], config) /\ disk \in [VM -> Kind \cup {None}]
      /\ inst \in [Instance -> Object]
  BY VMAssumption DEF IndType, TypeOK, Owners
<1>1. phase = "up" /\ config' = config
  BY DEF IndType, NoneYet, Exists, CloseVolumes, Delete, At
<1> DEFINE c == Closed(inst[i])
           s == StopMachine(inst[i])
<1>2. s.pc = "wait" /\ s.vm = inst[i].vm
  BY <1>0, StopMachineIs
<1>3. CASE /\ CloseVolumes(i) /\ lost' = lost
           /\ dir' = IF inst[i].kind = "tart" /\ Removes(i) THEN "absent" ELSE dir
           /\ \/ inst[i].vm = None /\ inst' = [inst EXCEPT ![i] = c]
              \/ inst[i].vm # None /\ inst' = [inst EXCEPT ![i] = s]
  <2>1. disk' = disk
    BY <1>3 DEF CloseVolumes
  <2>2. dir' = "made" => dir = "made" /\ ~RemovesDir(inst[i], config)
    BY <1>3, RemovesTart DEF Removes, RemovesDir
  <2>3. CASE inst[i].vm = None /\ inst' = [inst EXCEPT ![i] = c]
    <3> HIDE DEF c
    <3>1. \A v \in VM : disk'[v] # None => disk[v] # None /\ v # inst[i].vm
      BY <1>0, <2>1, <2>3
    <3> QED BY <1>1, <1>3, <2>2, <2>3, <3>1, OneLeavesNothing
  <2>4. CASE inst[i].vm # None /\ inst' = [inst EXCEPT ![i] = s]
    <3> HIDE DEF s
    <3>1. \A v \in VM : disk'[v] # None =>
            (disk[v] # None /\ v # inst[i].vm) \/ (s.pc # "none" /\ s.vm = v)
      BY <1>2, <2>1
    <3> QED BY <1>1, <1>3, <2>2, <2>4, <3>1, OneLeavesNothing
  <2> QED BY <1>3, <2>3, <2>4
<1>4. CASE /\ CloseVolumes(i) /\ inst' = [inst EXCEPT ![i] = c]
           /\ lost' = IF inst[i].vm = None THEN lost ELSE lost \cup {inst[i].vm}
           /\ dir' = IF dir = "made" THEN "stuck" ELSE dir
  <2>1. disk' = disk /\ dir' # "made" /\ lost \subseteq lost'
    BY <1>4 DEF CloseVolumes
  <2> HIDE DEF c
  <2>2. \A v \in VM : disk'[v] # None =>
          (disk[v] # None /\ v # inst[i].vm) \/ v \in lost'
    BY <1>0, <1>4, <2>1
  <2> QED BY <1>1, <1>4, <2>1, <2>2, OneLeavesNothing
<1>5. CASE Delete(i)
  <2>1. /\ inst' = [inst EXCEPT ![i] = c] /\ dir' = dir
        /\ inst[i].pc = "delete" /\ lost \subseteq lost'
    BY <1>5 DEF Delete, At
  <2> HIDE DEF c
  <2>2. ~RemovesDir(inst[i], config)
    BY <1>0, <2>1 DEF OwnsVolume, RemovesDir
  <2>3. \A v \in VM : disk'[v] # None =>
          (disk[v] # None /\ v # inst[i].vm) \/ v \in lost'
    BY <1>0, <1>5 DEF Delete
  <2> QED BY <1>1, <2>1, <2>2, <2>3, OneLeavesNothing
<1>6. CloseVolumes(i) =>
        \/ /\ lost' = lost
           /\ dir' = IF inst[i].kind = "tart" /\ Removes(i) THEN "absent" ELSE dir
           /\ \/ inst[i].vm = None /\ inst' = [inst EXCEPT ![i] = c]
              \/ inst[i].vm # None /\ inst' = [inst EXCEPT ![i] = s]
        \/ /\ inst' = [inst EXCEPT ![i] = c]
           /\ lost' = IF inst[i].vm = None THEN lost ELSE lost \cup {inst[i].vm}
           /\ dir' = IF dir = "made" THEN "stuck" ELSE dir
  BY DEF CloseVolumes
<1> QED BY <1>3, <1>4, <1>5, <1>6

-----------------------------------------------------------------------------
(* What Cleanup() achieves                                                 *)

LEMMA CleanUpKept ==
    ASSUME IndType, CleanedUp, Cleanup
    PROVE  CleanedUp'
<1>0. /\ disk \in [VM -> Kind \cup {None}] /\ None \notin Kind /\ todo \subseteq VM
      /\ phase \in Kind \cup {"down", "up"}
  BY VMAssumption DEF IndType, TypeOK, Kind
<1>1. phase \in Kind /\ dir' = dir
  BY DEF Cleanup, List, DeleteListed, CleanedUp, host
<1>2. /\ phase' \in Kind => dir' # "made"
      /\ phase' \notin Kind => todo' = {}
  BY <1>1 DEF Cleanup, List, DeleteListed, CleanedUp, After, Kind
<1>3. CASE List
  <2>1. disk' = disk /\ todo = {} /\ lost \subseteq lost'
    BY <1>3 DEF List, host
  <2>2. todo' # {} => \A v \in VM : disk'[v] = phase' => v \in todo' \cup lost'
    BY <1>3, <2>1 DEF List
  <2>3. ASSUME phase' = "vetu", NEW v \in VM, disk'[v] = "tart"
        PROVE  v \in lost'
    <3>1. CASE phase = "tart"
      BY <1>3, <2>1, <2>3, <3>1 DEF List
    <3>2. CASE phase = "vetu"
      BY <2>1, <2>3, <3>2 DEF CleanedUp
    <3> QED BY <1>1, <3>1, <3>2 DEF Kind
  <2> QED BY <1>2, <2>2, <2>3 DEF CleanedUp
<1>4. ASSUME NEW v \in todo, DeleteListed(v) PROVE CleanedUp'
  <2>1. /\ \A w \in VM : disk'[w] # None => disk'[w] = disk[w]
        /\ lost \subseteq lost'
    BY <1>0, <1>4 DEF DeleteListed
  <2>2. \A w \in VM : disk[w] = phase => w \in todo \cup lost
    BY <1>4 DEF CleanedUp
  <2>3. \A w \in VM : disk'[w] = phase => w \in todo' \cup lost'
    <3>1. CASE disk' = [disk EXCEPT ![v] = None] /\ todo' = todo \ {v}
               /\ UNCHANGED lost
      BY <1>0, <1>1, <2>2, <3>1
    <3>2. CASE lost' = lost \cup todo /\ UNCHANGED disk
      BY <2>2, <3>2
    <3> QED BY <1>4, <3>1, <3>2 DEF DeleteListed
  <2>4. todo' # {} => phase' = phase
    BY <1>4 DEF DeleteListed
  <2>5. ASSUME phase' = "vetu", NEW w \in VM, disk'[w] = "tart"
        PROVE  w \in lost'
    <3>1. CASE phase = "tart"
      <4>1. todo' = {}
        BY <1>4, <2>5, <3>1 DEF DeleteListed
      <4> QED BY <2>3, <2>5, <3>1, <4>1
    <3>2. CASE phase = "vetu"
      <4>1. disk[w] = "tart"
        BY <1>0, <2>1, <2>5 DEF Kind
      <4> QED BY <2>1, <3>2, <4>1 DEF CleanedUp
    <3> QED BY <1>1, <3>1, <3>2 DEF Kind
  <2> QED BY <1>2, <2>3, <2>4, <2>5 DEF CleanedUp
<1> QED BY <1>3, <1>4 DEF Cleanup

(* All that Cleanup() has left when the worker begins to poll is lost. *)
LEMMA CleanUpLeavesNothing ==
    ASSUME IndType, CleanedUp, Cleanup
    PROVE  NoLeftovers'
<1>0. /\ disk \in [VM -> Kind \cup {None}] /\ None \notin Kind /\ todo \subseteq VM
      /\ phase \in Kind /\ dir # "made" /\ dir' = dir
  BY VMAssumption DEF IndType, TypeOK, Kind, Cleanup, List, DeleteListed,
                      CleanedUp, host
<1> SUFFICES ASSUME phase' = "up", NEW w \in VM, disk'[w] # None
             PROVE  w \in lost'
  BY <1>0 DEF NoLeftovers
<1>1. phase = "vetu" /\ (disk[w] = "tart" => w \in lost)
  BY <1>0 DEF Cleanup, List, DeleteListed, CleanedUp, After, Kind
<1>2. CASE List
  <2>1. /\ disk' = disk /\ lost \subseteq lost'
        /\ (disk[w] = phase => w \in lost')
    BY <1>0, <1>2 DEF List, host, Kind
  <2> QED BY <1>0, <1>1, <2>1 DEF Kind
<1>3. ASSUME NEW v \in todo, DeleteListed(v) PROVE w \in lost'
  <2>1. disk[w] = phase => w \in todo \cup lost
    BY <1>3 DEF CleanedUp
  <2>2. lost \subseteq lost' /\ disk[w] \in Kind
    BY <1>0, <1>3 DEF DeleteListed
  <2>3. disk[w] = phase => w \in lost'
    <3>1. CASE disk' = [disk EXCEPT ![v] = None] /\ todo \ {v} = {}
      BY <1>0, <2>1, <2>2, <3>1
    <3>2. CASE lost' = lost \cup todo
      BY <2>1, <3>2
    <3> QED BY <1>1, <1>3, <3>1, <3>2 DEF DeleteListed
  <2> QED BY <1>1, <2>2, <2>3 DEF Kind
<1> QED BY <1>2, <1>3 DEF Cleanup

LEMMA IndInvInit == Init => IndInv
<1> SUFFICES ASSUME Init PROVE CleanedUp /\ NoLeftovers
  BY IndTypeInit DEF IndInv
<1> QED BY DEF Init, CleanedUp, NoLeftovers, Kind

LEMMA IndInvNext == IndInv /\ [Next]_vars => IndInv'
<1> SUFFICES ASSUME IndInv, [Next]_vars PROVE CleanedUp' /\ NoLeftovers'
  BY IndTypeNext DEF IndInv
<1>0. IndType /\ CleanedUp /\ NoLeftovers
  BY DEF IndInv
<1>1. CASE UNCHANGED vars
  BY <1>0, <1>1 DEF vars, host, CleanedUp, NoLeftovers, Exists, At, Removes
<1>2. CASE Start
  <2>1. phase' = "tart" /\ dir' # "made" /\ todo' = {}
    BY <1>0, <1>2 DEF Start, CleanedUp, Kind
  <2> QED BY <2>1 DEF CleanedUp, NoLeftovers, Kind
<1>3. CASE Cleanup
  BY <1>0, <1>3, CleanUpKept, CleanUpLeavesNothing
<1>4. CASE Exit
  <2>1. phase' = "down" /\ todo' = {}
    BY <1>4 DEF Exit
  <2> QED BY <2>1 DEF CleanedUp, NoLeftovers, Kind
<1>5. ASSUME NEW s \in strays, StrayCloneEnds(s) PROVE CleanedUp' /\ NoLeftovers'
  <2>1. UNCHANGED <<dir, phase, todo, config, inst>> /\ lost \subseteq lost'
    BY <1>5 DEF StrayCloneEnds
  <2>2. s[1] \in VM /\ s[2] \in Kind /\ disk \in [VM -> Kind \cup {None}]
    BY <1>0 DEF IndType, TypeOK
  <2>3. \A v \in VM : disk'[v] = IF v = s[1] THEN s[2] ELSE disk[v]
    BY <1>5, <2>2 DEF StrayCloneEnds
  <2>4. Listed(s[2]) => s[1] \in lost'
    BY <1>5 DEF StrayCloneEnds
  <2>5. todo # {} => \A v \in VM : disk'[v] = phase => v \in todo \cup lost'
    BY <1>0, <2>1, <2>3, <2>4 DEF CleanedUp, Listed
  <2>6. phase = "vetu" => \A v \in VM : disk'[v] = "tart" => v \in lost'
    BY <1>0, <2>1, <2>3, <2>4 DEF CleanedUp, Listed
  <2>7. CleanedUp'
    BY <1>0, <2>1, <2>5, <2>6 DEF CleanedUp
  <2>8. NoLeftovers'
    BY <1>0, <2>1, <2>3, <2>4 DEF NoLeftovers, Listed, Exists, At, Removes
  <2> QED BY <2>7, <2>8
<1>6. ASSUME NEW kind \in Standbys, UpdateStandby(kind)
      PROVE  CleanedUp' /\ NoLeftovers'
  <2>1. UNCHANGED <<phase, todo>> /\ phase = "up"
    BY <1>6 DEF UpdateStandby, Idle
  <2>2. CleanedUp'
    BY <1>0, <2>1 DEF CleanedUp, Kind
  <2> QED BY <1>0, <1>6, <2>2, UpdateLeavesNothing
<1>7. ASSUME NEW i \in Instance,
             CreateStandby(i) \/ Cancel(i)
             \/ (\E kind \in Tasks : StartTask(i, kind) \/ GetInstance(i, kind))
             \/ Boot(i) \/ Runner(i) \/ Close(i)
      PROVE  CleanedUp' /\ NoLeftovers'
  <2>1. UNCHANGED <<phase, todo>>
    BY <1>7 DEF CreateStandby, Cancel, StartTask, GetInstance, Boot, CloneFails,
         Clone, ConfigureAndStart, ConfigureFails, VolumeFails, RetrieveIPLoop,
         FinishWarmup, FinishRun, Runner, RunStarts, RunEnds, Close,
         CloseVolumes, Wait, Delete
  <2>2. phase = "up"
    <3>1. Idle \/ inst[i].pc # "none" \/ inst[i].run # "none"
      BY <1>7 DEF CreateStandby, Cancel, StartTask, GetInstance, Boot, CloneFails,
         Clone, ConfigureAndStart, ConfigureFails, VolumeFails, RetrieveIPLoop,
         FinishWarmup, FinishRun, Runner, RunStarts, RunEnds, Close,
         CloseVolumes, Wait, Delete, At
    <3> QED BY <1>0, <3>1 DEF Idle, IndType, NoneYet, Owners, OwnsMachine,
                              Exists, At
  <2>3. CleanedUp'
    BY <1>0, <2>1, <2>2 DEF CleanedUp, Kind
  <2>4. NoLeftovers'
    BY <1>0, <1>7, InstancesLeaveNothing, CloneLeavesNothing,
       ConfigureLeavesNothing, CloseLeavesNothing DEF Boot, Runner, Close
  <2> QED BY <2>3, <2>4
<1> QED BY <1>1, <1>2, <1>3, <1>4, <1>5, <1>6, <1>7 DEF Next

(* While the worker polls, every machine in the stores that the worker has *)
(* not lost in one of the ways NoLeftovers names belongs to an instance    *)
(* that will close it, and so does a directory made for a volume whose     *)
(* removal has not failed: bootVM(), the ways a boot may fail after its    *)
(* clone, Close() and UpdateStandby() lose nothing else, and Cleanup()     *)
(* removes every machine that was there when it asked for them.            *)
THEOREM NothingIsLeftBehind == Spec => []NoLeftovers
<1>1. IndInv => NoLeftovers
  BY DEF IndInv
<1> QED BY <1>1, IndInvInit, IndInvNext, PTL DEF Spec
=============================================================================
