# A TLA+ model of cirrus-cli

This directory holds a formal model of the parts of cirrus-cli where several
actors share state, where messages get lost or late, or where an order has to be
kept: TLA+ modules translated from the Go code, TLC configurations that check
them on small instances, and proofs that TLAPS checks for every instance.

    tlc -workers 2 -config Worker.cfg WorkerMC      # one of the runs
    tlapm WorkerProofs.tla                          # the proofs about a module

## 1. The system

cirrus-cli runs the tasks of a `.cirrus.yml` on the user's machine
(`cirrus run`), or serves Cirrus CI as a *persistent worker*
(`cirrus worker run`). Both start an *agent* inside of the container, the VM or
the process in which a task runs; the agent asks for the task's commands over
gRPC, runs them and reports what became of them.

| Part | State | Operations | Talks to |
|---|---|---|---|
| parser (`pkg/parser`) | tasks, their `RequiredGroups`, the IDs handed out | parse, check dependencies, create service tasks for Dockerfiles | larker (Starlark), file systems |
| task filter (`internal/executor/taskfilter`) | - | choose tasks by name and labels, with or without their dependencies | parser's result |
| build and executor (`internal/executor`, `.../build`) | tasks, commands and their statuses, first error | `Run`, `runSingleTask`, `GetNextTask`, `Status` | instances, RPC service |
| RPC service of the host (`internal/executor/rpc`) | the build's commands, last heartbeat, log renderers | `InitialCommands`, `ReportCommandUpdates`, `Heartbeat`, `StreamLogs`, caches, artifacts, `Stop` | agents |
| instances (`internal/executor/instance/...`) | containers, VMs, volumes | `Run`, `Close`, `Warmup` | Docker, Podman, Tart, Vetu, Parallels, QEMU |
| agent (`internal/agent`) | position in the commands, `failedAtLeastOnce`, unflushed updates, caches | `RunBuild`, `performStep`, update batches, heartbeats, signals | RPC service, shells |
| scripts and logs (`internal/agent/executor/{shell,logs}.go`, `piper`) | process tree, pipe, log channel, stored output, stream | run scripts, pump output, stream and upload logs | processes, `StreamLogs` |
| persistent worker (`internal/worker`) | known tasks, standby instance and parameters, completions, sessions with upstreams, locked resource modifiers | poll loop, start and stop tasks, standby instances | Cirrus CI, isolations |
| caches and artifacts (`cache.go`, `internal/executor/cache`, `rpc/{cache,gha_cache,artifacts}.go`) | blobs, temporary blobs, fingerprints of folders | download, populate, upload | file system, HTTP, GitHub |
| evaluator, larker (`internal/evaluator`, `pkg/larker`) | module and HTTP caches | evaluate configurations and functions | GitHub |

What is hard in it:

* *concurrency*: the worker's poll loop against the goroutines of tasks; RPC
  handlers against the main loop of `cirrus run`; a log channel with two writers
  and a closing reader; processes that outlive their script;
* *failure*: agents crash, reports are lost, repeated or handled late, log
  streams break, containers cannot be deleted, instances cannot be created;
* *time*: the task's timeout on the host and in the agent, missing heartbeats, an
  extension for `always` commands, a standby instance that has to be warmed up;
* *order*: dependencies between tasks, stages of a pipe, batches of updates.

What makes each part correct: the worker neither loses nor shares instances,
keeps to its resources and keeps polling; a task succeeds only when its commands
did and the verdict stands; what the host knows about commands is true, whatever
happened to the reports; tasks run in the order of their dependencies and all of
them get to run; the log holds the output, in order and once; and every run
ends. `PROJECT.json` lists these hazards at the lines where they bite, and all
components, those without a model too.

## 2. Modules

| Module | Models | Proofs |
|---|---|---|
| `Worker` | `internal/worker/{worker,task}.go`, `resourcemodifier`, the factory of persistent worker instances, `upstream` as its callers see it | `WorkerProofs`, `NatLemmas` |
| `TaskRun` | `runSingleTask` and the rest of `internal/executor/executor.go`, `build/task.go`, the RPC handlers, container, pipe and prebuilt instances, the agent's `RunBuild` and `UpdateBatcher` | `TaskRunProofs`, `TaskVerdictProofs` |
| `Scheduler` | `validateDependenciesDeep`, `createServiceTasks`, the task filter, `GetNextTask`, `Executor.Run` | `SchedulerProofs` |
| `ScriptStep` | `ShellCommandsAndWait`, `Piper`, `LogUploader`, background scripts | `ScriptStepProofs` |
| `LogSink` | what a `LogUploader` promises to those who write to it | refined by `ScriptStep` |
| `BlobStore` | what the cache promises: whole entries, replaced at once | refined by `AgentCache` |
| `BlobCache` | `internal/executor/cache`, `rpc/cache.go`, `rpc/gha_cache.go` | `AgentCacheProofs` |
| `AgentCache` | the agent's cache instructions (`internal/agent/executor/cache.go`), composed with `BlobCache` | `AgentCacheProofs` |
| `VirtualMachines` | the Tart and Vetu isolations, the standby machine, the clean-up at the worker's start | `VirtualMachinesProofs` |

The `...MC` modules only hold values for constants. Definitions headed *Mutant*
are wrong versions of the definition that follows them: with them in its place
the property that guards it must fail, which is how we know that a property can
fail at all. They are used nowhere else.

### Worker

`pc` is where the poll loop is: `Run` first makes sure that there is a standby
instance (`CreateStandby`, `WarmupSucceeds`, `WarmupFails`), then goes through
its upstreams in order, registers (`Register`), drains completions
(`ReceiveCompletion`, `NoCompletions`), polls (`Poll`, `PollFails`) and applies
the response: stops first, then starts one by one (`StartTask` and the ways
`getInstance` ends), then a shutdown, then new standby parameters
(`ResponseApplied` with `UpdateStandby`). One goroutine per task goes through
`runner[t]`; it hands its completion over an unbuffered channel, so
`ReceiveCompletion` is a joint step of both. Instances are identities;
`isolationOf` says what an open one is. The order in which Go's maps are
traversed is a nondeterministic choice.

The server is external. A poll may be answered by any response whose tasks fit
into what the worker reported (`Admissible`, quoting the documentation), tasks
that the worker already runs included.

Resources are counted in units: `ResourcesInUse` is the cardinality of a set of
pairs, so that proofs need no sums. Amounts are natural numbers where the code
has floats.

### TaskRun

One task with `N` commands. `hpc` is where `runSingleTask` is, with one action
for each early return, for `Instance.Run` and for each half of `task.Status()`,
whose two passes take the commands' mutexes one by one while handlers may run in
between. `agent` is where the agent is, in the container of the current `stage`.
A report of updates is a `call`; the handler applies it one update at a time
(`HandleUpdate`). An attempt fails before, while or after it is handled:
`RetryAttempt` is the client's interceptor, `FlushFails` an error that reaches
`UpdateBatcher`, and attempts whose client gave up stay in `abandoned` and may be
handled later. Two ghosts: `result` is what really became of a command, and
`undelivered` holds the failures whose agent went away before the host knew of
them. `StagesOverlap` names the pipes in which a later stage begins with the
clone instruction that `NewFromProto` removes: `BoundedCommands` then finds
neither end of the range, and both stages are given commands of the other (see
5, *Host*). Such a pipe is among the tasks of `task_run`. `Stop` is
`GracefulStop`, which waits for the handlers; since the log stream of a background
script is one as well, it is bound to return only when the agent is gone.

The constants say which environment is considered: whether handlers may outlive
the agent that called them (`HandlersOutliveAgent`), whether the backend may fail
to delete a container (`DeletionFails`), whether heartbeats are watched.

### Scheduler

`Init` holds any graph that names could be resolved to, cyclic ones included, any
assignment of Dockerfiles, and any set of tasks that are skipped (their status was
`SKIPPED` in what the parser made) or have nothing to do: without a command once
the clone is removed, or with `on_failure` ones only, `Status()` is Succeeded
before the task has run. (`only_if` needs no state: the parser drops such
tasks.) `Satisfy` is an iteration of the loop of `validateDependenciesDeep`, `Reject` its error. The
filter chooses any set of matching tasks; `CollectDependencies` is the least
closed set, against which the recursion of the code was read. Then
`GetNextTask` and `Run` take turns. `round` and `order` are ghosts.

### ScriptStep and LogSink

Output is a sequence of numbered chunks, so that loss, repetition and
reordering can be seen; the agent's own messages are chunks numbered 0. Three
kinds of processes hold the pipe: the shell, a child in its group, and one in a
session of its own that no kill reaches. `Write()` takes two steps, the read
lock and the send, and `Finalize()` three: it asks for the lock (Go's RWMutex
makes new readers wait behind it), gets it and closes the channel, and waits for
`StreamLogs`. `LogSink` knows only what was handed over and what is stored. The disk takes
every chunk of the stored output: the code ignores what `Write` to it returns.

### AgentCache, BlobCache and BlobStore

`BlobCache` is the directory on the host: an upload writes a temporary file
(`Put`, `WriteChunk`), closes it (`Flush`, which dates it) and moves it to the
path of its key (`Rename`), or breaks off (`BreakUpload`); a download opens the
file that is at the path (`Get`) and reads it piece by piece (`ReadChunk`,
`Close`, `Discard`), while others may move new files there. Files are named by
the client that writes them, pieces by the archive they belong to, so that a
truncated or mixed archive can be told from a whole one. `Flush` takes the end of
the stream for the end of the archive, as `RPC.Write` does with any `io.EOF`: that
a client ends its stream only behind the last piece is assumed of the agent's
proxy. `BlobStore` has none of
that: an entry appears at once and is delivered whole or not at all.

`AgentCache` adds the tasks. `task[c]` is where the instructions of task `c` are:
`DownloadCache` (key, fetch, unpack, one more attempt when the archive cannot be
unpacked, `findLatestAvailableCache`, populate script), its scripts, and
`UploadCache` (hash, `HEAD` request, upload). An upload that the agent gave up
goes on at the host. `Fail` marks the steps in which a request, a script or the
disk fails; `StatFails` is a folder that was unpacked and cannot be found, which
is no hit; a folder that cannot be hashed is only not uploaded. `Die` is a task
that goes away. `seen` and `faulty` are ghosts.

### VirtualMachines

`disk`, `running`, `strays` and `dir` are on the host and outlive the worker;
`Exit` drops everything else, at any point of a boot, of a task or of a
clean-up. An action is what an instance does between two points at which it
waits for a command, a guest or another goroutine; commands that follow each
other with the same outcome on failure (the `set` commands of `Configure`) are
one. `inst[i]` is an object of type `Tart` or `Vetu` with the goroutine of
`Start()` beside it (`run`, `errChan`, `killed`). `config` is
`worker.standbyParameters` as `bootVM` has changed it: the instances made from
it share its volume (`shared`) until `UpdateStandby` puts another object in its
place. `next` is the task for which `getInstance` closes a standby machine that
does not match. `lost` is a ghost, a set of machines: those that nobody of this
life will delete, put there by the step that loses them. `dir = "stuck"` is the
directory of a volume whose removal has failed. Left out: `pull`, whose failure is
ignored; the dirty mode, which workers do not use; `run` commands that outlive the worker, which at worst make
a `delete` of the clean-up fail, a failure that is modelled. A task that ends
before `Run()` is reached has the same trace as one whose clone fails.

## 3. Runs

| Run | Shows | Instance |
|---|---|---|
| `worker_safety` | instances have one owner and are closed once; none is leaked while `Run()` runs, and afterwards only the standby is; tasks get the isolation they asked for; runners are tracked; resources and devices are not overcommitted | 1 upstream, 3 tasks, 3 isolations of which one is forbidden, 3 standby configurations, 1 modifier, 3 instances |
| `worker_liveness` | stopped and finished tasks leave and every upstream is polled again and again, unless one of the causes that the properties name keeps the loop from it | 2 upstreams, 1 task, 2 instances |
| `worker_leaked_task` | *violation*, see 5 | 1 upstream |
| `task_run` | success is earned, the verdict stands, commands run once, except where the stages of a pipe overlap, and there only in a later stage | 2 commands with every pair of behaviours in one container, and those without `on_timeout` in a pipe, 2 failed attempts; clone, exit, prebuilt, unsupported; a pipe whose stages overlap |
| `task_run_late` | although handlers finish late, what is recorded is true and without gaps and no `on_success` command runs after a failure, unless the agent of an earlier stage took the report of it along; `runSingleTask` returns | 3 commands in 2 stages, 1 failed attempt |
| `task_run_torn_status` | *violation* | 2 commands |
| `scheduler` | no dangling dependency, nothing left behind, dependencies first, no task twice and none that was skipped or had nothing to do, it ends | all graphs over 3 tasks and 1 Dockerfile |
| `script_step` | no send on the closed channel, nothing lost, live log in order, `LogSink` implemented, the step returns | 2 chunks, capacity 1, all modes |
| `agent_cache` | `BlobStore` implemented; a missed entry is filled; tasks keep their sources and report what happened; entries are replaced only by those who may; the instructions end | 2 tasks with each pair of 4 instructions, 2 keys of one command, archives of 2 pieces, 2 failures |
| `agent_cache_latest` | *violation* | 3 tasks, 2 keys |
| `vm_lifecycle` | what is left behind was lost in one of the ways that `NoLeftovers` names; machines are deleted after they stopped; stopped tasks give their machine up | 2 instances, 2 machines, a Tart standby with a named volume or a Vetu standby, Tart tasks, any number of lives of the worker |
| `vm_standby_volume` | *violation* | 1 instance |

Why the bounds are enough. *Worker*: two tasks and a standby of different
isolations, and a third task that is refused, are what it takes to take a wrong instance, to share one, to exceed
the resources or a modifier; three instances are as many as can be open. Several
upstreams matter to who is polled, which the liveness run checks. The
instances are interchangeable, so the safety run uses symmetry; the liveness run
does not. `Worker` may stop (`pc = "stopped"`) and the tasks of `AgentCache` end, so
deadlock is not checked there; a virtual machine host never ends;
everywhere else a terminated system stutters explicitly and TLC checks for
deadlock. *TaskRun*: two commands are enough for a failure and what depends on
it, three for a gap inside of a stage and for a batch that is retried in front of
later updates; two failed attempts let one request be lost and its retry be
handled late. *Scheduler*: three tasks have chains, forks, joins, cycles of
length one to three and tasks behind a cycle; the proofs have no bound.
*ScriptStep*: with capacity 1 the second chunk finds a full channel, and two
chunks can be lost, repeated or swapped; the proofs have no bound on either.
*AgentCache*: two tasks overlap in every way two uploads, or an upload and a
download, of one key or of two keys of a command can; archives of two pieces can
be truncated or mixed; two failures let a retry fail as well. Which entry is the
latest needs two entries and a third task that looks for them. *VirtualMachines*:
two instances are a standby machine beside a task, or two tasks, which share a
volume; a volume with a name lets a standby match a task or, if its directory had
to be made, not, and a standby of the other kind never matches; with two
machines one may be left over from an earlier life, or by a stray `clone`, while
the other is in use. Faults are unbounded there.

Fairness. Goroutines are scheduled and RPCs return, with a result or an error, at the
latest when the context they were given is done, so
the agent's and the worker's own steps are weakly fair. Time passes, so deadlines
occur. Nothing is assumed of scripts, image builds and processes: a script may
hang, and ends only by its context (`StepFails` once timed out or signalled,
`RunFails` once the context is done). In `Worker`, nothing is assumed of the
upstreams and of the standby instance: `Register`, `Poll` and the `TaskFailed` of
a task that is refused are calls without a deadline, and the warm-up waits for SSH
without a limit, all on the goroutine of the loop. So the loop is weakly fair only
where it does not await one of these answers (`AwaitsAnswer`), or once the worker
is stopped, and an answer may be an error every time. What that does to the tasks
and the other upstreams is said by the properties: an upstream that is no longer
polled, in a worker that is not stopped, means that the loop hangs (`Hangs`), that
no standby can be had again and again (`NoStandbyInfinitelyOften`), that the
upstream itself keeps refusing the worker, or that the polls of one before it keep
failing, since a failed `Poll` returns from the pass; nothing else does. `Executor.Run` is one thread, and that a
task ends is `TaskRun`'s `Returns`. In `AgentCache` requests are answered or time
out and scripts end (they have the task's deadline). In `VirtualMachines` the
`clone` and `set` commands end, `stop` and `delete`, for which the code has no
limit, return, and `run` ends once it is killed; the loop that asks for an address has a limit of ten minutes; SSH, the
warm-up script and the agent are only assumed to end once their context is done,
and the guest never. For SSH that is an assumption about the guest:
`ssh.NewClientConn` (`remoteagent.go:312`) has neither a deadline nor a context,
and what watches the context starts behind it (the dial and the session are
covered), so a guest that accepts a connection and never ends the handshake is
outside of `StoppedIsClosed`.

## 4. Proofs

All theorems hold for every value of the constants that satisfies the modules'
`ASSUME`s: finite sets, natural numbers, maps of the right shape, values that
stand for "none" apart from the others, a channel with room for at least one
chunk, archives of at least one piece, and folders that are maps from finitely
many, ordered paths (`FolderAssumption`; an empty folder is not archived). TLC
evaluates them in every run. Some theorems of `TaskRun` have a hypothesis more,
which is named below. No safety invariant, action property or refinement that a run
checks is without a theorem.

Each proof has the same shape: an inductive invariant, which TLC has checked on
the instance of the module's run before; a lemma per action, or per group of
actions that touch the same state; and a last step that combines them. Frame
lemmas (`ProcFrame`, `StoreFrame`, ...) say once what a group of actions leaves
alone. `NatLemmas` has the one form of induction in use: a non-empty set of
natural numbers has a least element.

* `WorkerProofs`: `TypeCorrect`, `InstancesNotStale`, `InstancesNotLeaked`,
  `TasksGetTheirIsolation`, `RunnersAlwaysTracked`, `SecurityRespected`,
  `DevicesNotShared`, `CapacityCorrect`. The properties are not inductive by
  themselves. `Bookkeeping` adds how `pc`, `starting` and `runner` hang together
  (the loop creates an instance only for a task that has no goroutine),
  `Instances` that the standby instance has the isolation of `standbyParameters`
  whenever there is one, which is why comparing parameters is enough, and
  `ModifiersLocked` that a modifier in use is locked. `InstancesNotLeaked` counts
  the loop as the owner of the standby only until `Run()` returns, so it says both
  that nothing leaks before and that nothing but the standby does then. Capacity needs that what
  the loop is about to start fits together with what is known, and that the
  standby is dropped before a task takes its place; the arithmetic is that of
  cardinalities of finite sets.
* `SchedulerProofs`: `TypeCorrect`, `DependenciesExist`, `AllTasksDone`,
  `DependenciesRunFirst`, `VerdictIsRight`, `NoTaskTwice`. `AllTasksDone` is the
  interesting one: `Ranked` says that the iteration in which
  `validateDependenciesDeep` satisfied a task is larger than those of all its
  dependencies, so among the tasks that have not run one of least rank has none
  that is unresolved, and `GetNextTask` finds it. `ClosedBuild` carries the
  result of the filter. `NoTaskTwice` is about a task that ran as well as about
  one that was never to run: only a New one is run, and none becomes New again.
* `ScriptStepProofs`: `TypeCorrect`, `NoPanic` and `UploaderIsLogSink`, the
  refinement `Spec => Sink!Spec`. `ReadersBusy` and `Drained` are the
  strengthening: who holds the read lock has a chunk to send, the channel is
  closed exactly when the step is past `CloseLocked`, and where `StreamLogs` is
  tells whether batch and channel are empty. The three lemmas on sequences say
  that moving the head of the channel to the end of the batch changes nothing,
  that a chunk appended to the channel comes last of both, and that a batch is a
  prefix of both.

  `OutputIsComplete` and `LiveLogInOrder` need to know which chunks are where
  (`IndLog`): the pipe holds the last ones that were written, the goroutine of
  `Piper` at most the one before them, and `Log`, what is stored followed by the
  batch and the channel, ends before that one (`PipeIsOutput`, `LogsInOrder`).
  `Write()` does drop chunks once the uploader is closed; `AllPassed` and
  `PiperDone` say why that does not hurt: the end of the pipe is seen by
  `Piper.Close()`, which is called before `Finalize()` or not at all, so whoever
  still has a chunk to drop is a goroutine whose end will not be seen. A
  broken stream takes a batch out of the middle of the live log, which keeps the
  order of the rest (`HoleKeepsOrder`).
* `TaskRunProofs`: `TypeCorrect`, `CommandsRunOnce`, `RecordedStatusesAreTrue`,
  `ReportsHaveNoGaps`, for any number of commands, stages and failed attempts,
  and with handlers that finish after their agent is gone. `CommandsRunOnce` is
  about every task: `FirstUntouched` says that, whatever the stages are, the agent
  of the first one has nothing ahead of it that was touched. The other two are about the
  behaviours of tasks whose stages lie apart (`StagesApart`, which no step
  changes): where they overlap, a later agent does run commands again and
  what was recorded is no longer what became of them (see 5, *Host*). That a
  status is true rests on every update
  being true wherever it is: waiting in `UpdateBatcher`, in a request, or in an
  attempt that was given up (`UpdatesTrue`), and on no agent touching the commands
  of another stage (`Untouched`). `NoGaps` needs in addition that in each of these
  batches an update comes behind those of the earlier commands of its stage, or
  the host has them (`UpdatesOrdered`), and that what the agent has left behind is
  recorded or still to be sent (`AgentReports`, `CallReports`): a failed flush
  keeps its updates, and they go in front of the next ones.
* `TaskVerdictProofs`: `FailuresAreKnown`, with late handlers and for stages that
  lie apart; `VerdictsStand` and `SuccessesAreEarned`, for executors whose
  handlers do not outlive the agent that called them (`~HandlersOutliveAgent`).
  Without that the last one is false: `task_run_torn_status` is the
  counterexample. `FailuresAreKnown` is about what really failed and not about
  what the host knows: `FailuresAccounted` says of every failed command that its
  failure is recorded, on its way from an agent that is still there, or in
  `undelivered`, and `FailuresKnown` that an agent which knows of no failure was
  given none and had none. `HostState` says
  that the requests of an agent go with it, that `Instance.Run` returns without an
  error only when the last container has exited, and hence that what the first
  pass of `task.Status()` saw still holds in the second. A command is skipped only
  for a failure that was recorded or precedes it in its stage (`SkippedForCause`).
* `AgentCacheProofs` (of `AgentCache` and `BlobCache`): `TypeCorrect`,
  `SourcesAreKept`, `ReportsAreTrue`, `MissesAreFilled`, the action property
  `OnlyUnseenReplaced`, and `CacheIsBlobStore`, the refinement
  `Spec => Store!Spec`. The heart is `Blobs`: a file that holds all its pieces is
  one whole archive, only files that nobody writes any more are at a path or open,
  and what a download has received is the beginning of the file that it opened. A
  download that is taken for whole is thus the archive that the key held when it
  began, and `Rename` is the put of the abstract store. For a task, `Control`,
  `Folders` and `Honest` hold whatever fails; `Intact`, `Looked` and `Filled` hold
  as long as nothing has failed for it.
* `VirtualMachinesProofs`: `TypeCorrect`, `MachinesDeletedAfterRun` and
  `NothingIsLeftBehind`, for any number of instances and machines and any number
  of lives of the worker. `Owners` says which instance a machine, a `run` command
  and the directory of a volume belong to: no two instances have the same machine,
  what runs a machine is its owner's goroutine, and `delete` is reached only when
  that is done. `CleanedUp` is what `Cleanup()` has achieved half-way: the
  machines that earlier lives left are still on its list, gone or `lost`. The
  theorem says that a machine without an instance was lost in this life by one of
  four steps; which ones is up to the actions that extend `lost`.

`SecurityRespected` (of `OnlyAllowedIsolations`) and `VerdictIsRight` (of
`ErrorIffFailure`) have no run: the proofs cover them for every instance.

Checked by TLC only: everything about liveness (`StoppedTasksLeave`,
`EveryUpstreamPolled`, `Returns`, `Terminates`, `StepReturns`, `CacheStepsEnd`,
`StoppedIsClosed`, and the fairness part of `ImplementsLogSink`), which the prover
does not do. What the least closed set of `CollectDependencies` has to do with the
recursion in the code was read and not proved.

## 5. Where code and comments disagree

Each has a run in which TLC finds the violation.

* `worker_leaked_task`: a task whose instance cannot be created stays in
  `worker.tasks` for ever (`internal/worker/task.go:71`).
* `task_run_torn_status`: a failure recorded between the two passes of
  `task.Status()` makes the task succeed (`internal/executor/build/task.go:156`).
* `agent_cache_latest`: `FindByPrefix` sorts the oldest entry first, so an
  optimistic restoration begins with the oldest one where the code says "latest"
  (`internal/executor/cache/cache.go:78`).
* `vm_standby_volume`: booting a Tart standby machine names its volumes in the
  standby parameters themselves, so that the machine never matches a task
  (`.../isolation/tart/tart.go:278`).

Seen while reading, without a run.

*Worker*: resource modifiers stay locked when the isolation is not Vetu or cannot
be created (`internal/worker/task.go:121`), and are handed out first-fit, so that
a small request may take the device of a big one; a standby instance that can
never be created keeps the worker from polling (`internal/worker/worker.go:317`),
and so does an upstream that never answers, or a guest that never answers the
warm-up; an upstream whose polls fail keeps it from polling the later ones
(`worker.go:325`). `Run()` returns with the standby instance open and `Close()`
does nothing about it (`worker.go:216`): its machine stays until the next start of
the worker cleans up (`NoLeakedInstance` says that this is all that stays). Only
Tart and Vetu have a `Warmup`: the configuration file is checked for that
(`internal/worker/standby.go:46`), the standby parameters that a poll response may
bring are not, and would fail a type assertion (`worker.go:294`). The model has
only standbys that can be warmed up.

*Host*: `NewFromProto` removes the first command named `clone`
(`internal/executor/build/task.go:60`), and if a later stage of a pipe begins with
it, `BoundedCommands` does not find the name. The comment says
"BoundedCommands bounds a slice of commands with unique names to a half-open range
[fromName, toName)." (`internal/agent/executor/executor.go:444`), but both stages
then get more than theirs: commands run a second time in the later stage, and a
command that failed in the first stage may be skipped in the second, which is
recorded as a success, so that the task succeeds. That is why `RunOnce` excepts
`StagesOverlap`, with such a pipe in the run, and why `SuccessIsEarned` is not about
these tasks. An agent that crashes, or whose last report is lost, takes a failure
along, and the pipe goes on: the next stage runs its `on_success` commands,
although "TestDockerPipeTermination ensures that the failure in some stage of the
Docker Pipe is propagated to the next stages."
(`internal/executor/executor_test.go:319`); `undelivered` holds exactly these
failures, and `NoSuccessAfterFailure` says that there is no other way. The monitor of heartbeats
does not end with its task (`internal/executor/executor.go:318`);
`ReportAgentFinished` ignores the history that it gets
(`internal/executor/rpc/rpc.go:219`); a broken upload leaves its temporary blob in
the cache directory (`internal/executor/rpc/cache.go:48`); an upload whose client
ends the stream early is kept as if it were whole (`rpc/cache.go:43`).

*Agent*: the comment at `internal/agent/executor/executor.go:248` extends the
timeout by five minutes for `always` and `on_timeout` commands, but the extension
runs from the first such command on; with `CIRRUS_ESCAPING_PROCESSES` the end of
the output may be thrown away, and each script leaves a goroutine
(`shell.go:79`, `shell.go:52`); `UploadStoredOutput` takes `io.EOF` for success
(`logs.go:251`); the hash that decides whether a cache is uploaded again covers the
data of the files and not their names (`hasher.go:114`), which `SHA` keeps; a folder
that cannot be hashed counts as uploaded (`cache.go:419`); the stored output's write
errors are ignored (`logs.go:205`); a background script for which `cirrusenv.New`
fails leaves its uploader open (`executor.go:517`).

*Virtual machines*: the directory of a volume is removed by the instance that made
it while another still has it mounted, and `Cleanup`, once set in the standby
parameters, stays set for directories that were found (`tart.go:421`);
`retrieveIPLoop` takes a `run` that ended without an error for a boot
(`tart.go:329`); the warm-up waits for SSH without a limit, on the goroutine that
polls, and a handshake that hangs is not ended by the task's context
(`remoteagent.go:312`). Machines that stay until the next start of the worker,
though nothing went wrong in this life: the one that the `clone` command of an
earlier life makes when the clean-up has already listed the machines, and the one
of a `clone` that an ordinary stop of its task kills when it has made it, since
`bootVM` has no instance to close then.

## 6. Plan

What a model could be extended by, in this order; a module gets its runs, mutants
and proofs.

1. *Time in the agent*: the timeout and its extension, step by step, and the
   interactive terminal.
2. *Parser*: numbering and names of tasks, the matrix modifier and the merge of
   nodes as functions against their definitions, the expansion of variables.
3. *Evaluator and larker*: loader and caching layers under concurrent requests.
4. *Artifacts* and their upload streams.

## 7. Not modelled

Formats (YAML, archives, log renderers, metrics), the command line, logging and
telemetry have no state that the properties are about. Docker, Podman, the
hypervisors, GitHub and Cirrus CI are external: the models have the outcomes the
code tells apart. `SetDisabled` and `QueryRunningTasks` (pause and resume) are
left out of `Worker`; additional containers, mounts and image builds out of
`TaskRun`. Windows-specific paths are left out. Parallels and QEMU follow the pattern of
`VirtualMachines` and have no model of their own; the hooks that run in a guest,
the step timeouts and the interactive terminal have none either.
