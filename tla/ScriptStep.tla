----------------------------- MODULE ScriptStep -----------------------------
(***************************************************************************)
(* A script of a task and its output: the shell and the processes it       *)
(* leaves behind, the pipe they write to (internal/agent/executor/piper),  *)
(* ShellCommandsAndWait() (shell.go), the LogUploader with its two         *)
(* writers, its channel and its goroutine (logs.go), and the end of a      *)
(* background script (executor.go).  Output is a sequence of chunks,       *)
(* numbered as the processes write them; messages of the agent are chunks  *)
(* numbered 0.                                                             *)
(***************************************************************************)
EXTENDS Integers, Sequences, FiniteSets

CONSTANTS
    Modes,      \* of "kill", "escape" and "background"
    Capacity,   \* of LogUploader.logsChannel
    MaxOutput   \* bound: how many chunks the processes write

VARIABLES
    mode,       \* a script, one with CIRRUS_ESCAPING_PROCESSES, or a background script
    holders,    \* who holds the writing end of the pipe
    written,    \* how many chunks were written to it
    byShell,    \* ghost: those that the shell itself wrote
    pipe,       \* what is in it
    readClosed, \* Piper.Close() closed the reading end
    piper,      \* the goroutine of Piper
    main,       \* the goroutine that runs the step
    ctxDone,    \* the step's context is done
    writing,    \* the chunk that each writer has in Write(), or None
    readers,    \* the writers that hold the mutex for reading
    lockWanted, \* Finalize() waits for the mutex
    closed,     \* uploader.closed, and logsChannel is closed
    channel,    \* logsChannel
    streamer,   \* the goroutine of LogUploader
    batch,      \* what ReadAvailableChunks() has read
    finished,   \* it found the channel closed
    stream,     \* the client of the StreamLogs() call
    stored,     \* storedOutput
    live        \* ghost: what was sent to StreamLogs()

procVars == <<mode, holders, written, byShell, pipe>>
shellVars == <<readClosed, piper, main, ctxDone>>
lockVars == <<writing, readers, lockWanted, closed>>
logVars == <<streamer, batch, finished, stream, stored, live>>
vars == <<procVars, shellVars, lockVars, channel, logVars>>

ASSUME ScriptStepAssumption ==
    /\ Modes \subseteq {"kill", "escape", "background"}
    /\ Capacity \in Nat \ {0} /\ MaxOutput \in Nat

Process == {"shell", "group", "session"}
Writer == {"piper", "main"}
Message == 0
None == -1
Chunk == 0..MaxOutput

(* NewLogUploader() and piper.New() have succeeded; the agent still holds  *)
(* its own descriptor of the writing end.                                  *)
Init ==
    /\ mode \in Modes
    /\ holders = {"agent"} /\ written = 0 /\ byShell = {} /\ pipe = <<>>
    /\ readClosed = FALSE /\ piper = "reading" /\ main = "start"
    /\ ctxDone = FALSE
    /\ writing = [w \in Writer |-> None] /\ readers = {}
    /\ lockWanted = FALSE /\ closed = FALSE /\ channel = <<>>
    /\ streamer = "idle" /\ batch = <<>> /\ finished = FALSE /\ stream = "open"
    /\ stored = <<>> /\ live = <<>>

Idle(w) == writing[w] = None

(* The step's goroutine calls Write() with a message of its own. *)
Say == writing' = [writing EXCEPT !["main"] = Message]
SayOrNot == Say \/ UNCHANGED writing

-----------------------------------------------------------------------------
(* The shell and its children                                              *)

(* cmd.Start() *)
Start ==
    /\ main = "start"
    /\ holders' = {"shell"}
    /\ main' = "wait"
    /\ UNCHANGED <<mode, written, byShell, pipe, readClosed, piper, ctxDone,
                   lockVars, channel, logVars>>

(* cmd.Start() fails: the pipe is closed on both ends. *)
StartFails ==
    /\ main = "start"
    /\ holders' = {} /\ readClosed' = TRUE
    /\ main' = "closing"
    /\ UNCHANGED <<mode, written, byShell, pipe, piper, ctxDone, lockVars,
                   channel, logVars>>

(* The shell starts a process, in its own group or in a session of its     *)
(* own, that inherits the descriptor.                                      *)
Fork(p) ==
    /\ "shell" \in holders /\ p \in Process \ holders
    /\ holders' = holders \cup {p}
    /\ UNCHANGED <<mode, written, byShell, pipe, shellVars, lockVars, channel,
                   logVars>>

Emit(p) ==
    /\ p \in holders \cap Process /\ written < MaxOutput /\ ~readClosed
    /\ written' = written + 1
    /\ byShell' = IF p = "shell" THEN byShell \cup {written + 1} ELSE byShell
    /\ pipe' = Append(pipe, written + 1)
    /\ UNCHANGED <<mode, holders, shellVars, lockVars, channel, logVars>>

Exit(p) ==
    /\ p \in holders \cap Process
    /\ holders' = holders \ {p}
    /\ UNCHANGED <<mode, written, byShell, pipe, shellVars, lockVars, channel,
                   logVars>>

(* The task's time is up, or the agent was signalled. *)
CtxDone ==
    /\ ~ctxDone /\ main # "returned"
    /\ ctxDone' = TRUE
    /\ UNCHANGED <<procVars, readClosed, piper, main, lockVars, channel, logVars>>

-----------------------------------------------------------------------------
(* The goroutine of Piper: io.Copy() from the pipe into Write()            *)

PiperReads ==
    /\ piper = "reading" /\ Idle("piper")
    /\ pipe # <<>> /\ ~readClosed
    /\ writing' = [writing EXCEPT !["piper"] = Head(pipe)]
    /\ pipe' = Tail(pipe)
    /\ UNCHANGED <<mode, holders, written, byShell, shellVars, readers,
                   lockWanted, closed, channel, logVars>>

(* Mutant: the end is not awaited when nobody can write any more. *)
PiperEndsEarly ==
    /\ piper = "reading" /\ Idle("piper")
    /\ readClosed \/ holders = {}
    /\ piper' = "reporting"
    /\ UNCHANGED <<procVars, readClosed, main, ctxDone, lockVars, channel, logVars>>

PiperEnds ==
    /\ piper = "reading" /\ Idle("piper")
    /\ readClosed \/ (pipe = <<>> /\ holders = {})
    /\ piper' = "reporting"
    /\ UNCHANGED <<procVars, readClosed, main, ctxDone, lockVars, channel, logVars>>

-----------------------------------------------------------------------------
(* ShellCommandsAndWait()                                                  *)

(* done: the shell exited.  Its group is killed, or with                   *)
(* CIRRUS_ESCAPING_PROCESSES the reading end of the pipe is closed.        *)
WaitReturns ==
    /\ main = "wait" /\ mode # "background" /\ "shell" \notin holders
    /\ IF mode = "kill"
         THEN holders' = holders \ {"group"} /\ UNCHANGED readClosed
         ELSE readClosed' = TRUE /\ UNCHANGED holders
    /\ main' = "closing"
    /\ UNCHANGED <<mode, written, byShell, pipe, piper, ctxDone, lockVars,
                   channel, logVars>>

(* Piper.Close() receives what the goroutine has to say. *)
PiperReports ==
    /\ main = "closing" /\ piper = "reporting"
    /\ piper' = "ended" /\ main' = "status"
    /\ UNCHANGED <<procVars, readClosed, ctxDone, lockVars, channel, logVars>>

(* Mutant: Close() waits for the goroutine alone. *)
CloseWaits == FALSE /\ UNCHANGED vars

(* ... or finds its context done first. *)
CloseTimesOut ==
    /\ main = "closing" /\ ctxDone
    /\ Say /\ main' = "status"
    /\ UNCHANGED <<procVars, readClosed, piper, ctxDone, readers, lockWanted,
                   closed, channel, logVars>>

(* The exit status is told, if there is something to tell. *)
TellStatus ==
    /\ main = "status" /\ Idle("main")
    /\ SayOrNot /\ main' = "finalize"
    /\ UNCHANGED <<procVars, readClosed, piper, ctxDone, readers, lockWanted,
                   closed, channel, logVars>>

(* ctx.Done(): told, and the shell and its group are killed.  The pipe is  *)
(* left to its goroutine.                                                  *)
WaitTimesOut ==
    /\ main = "wait" /\ mode # "background" /\ ctxDone
    /\ Say /\ main' = "killing"
    /\ UNCHANGED <<procVars, readClosed, piper, ctxDone, readers, lockWanted,
                   closed, channel, logVars>>

Kill ==
    /\ main = "killing" /\ Idle("main")
    /\ holders' = holders \ {"shell", "group"}
    /\ IF holders \cap {"shell", "group"} = {} THEN Say ELSE UNCHANGED writing
    /\ main' = "finalize"
    /\ UNCHANGED <<mode, written, byShell, pipe, readClosed, piper, ctxDone,
                   readers, lockWanted, closed, channel, logVars>>

(* The end of RunBuild(): the shell of a background script is killed, and  *)
(* nobody closes its pipe.                                                 *)
StopBackground ==
    /\ main = "wait" /\ mode = "background"
    /\ holders' = holders \ {"shell"}
    /\ SayOrNot /\ main' = "finalize"
    /\ UNCHANGED <<mode, written, byShell, pipe, readClosed, piper, ctxDone,
                   readers, lockWanted, closed, channel, logVars>>

-----------------------------------------------------------------------------
(* LogUploader.Write() and Finalize()                                      *)

(* RLock(), which waits behind a pending Lock().  Once the uploader is     *)
(* closed a chunk is dropped.                                              *)
RLock(w) ==
    /\ ~Idle(w) /\ w \notin readers /\ ~lockWanted
    /\ IF closed THEN /\ writing' = [writing EXCEPT ![w] = None]
                      /\ UNCHANGED readers
                 ELSE readers' = readers \cup {w} /\ UNCHANGED writing
    /\ UNCHANGED <<procVars, shellVars, lockWanted, closed, channel, logVars>>

(* Mutant: the channel has no limit. *)
SendUnbounded(w) ==
    /\ w \in readers
    /\ channel' = Append(channel, writing[w])
    /\ writing' = [writing EXCEPT ![w] = None]
    /\ readers' = readers \ {w}
    /\ UNCHANGED <<procVars, shellVars, lockWanted, closed, logVars>>

(* The chunk goes into the channel as soon as there is room. *)
Send(w) ==
    /\ w \in readers /\ Len(channel) < Capacity
    /\ channel' = Append(channel, writing[w])
    /\ writing' = [writing EXCEPT ![w] = None]
    /\ readers' = readers \ {w}
    /\ UNCHANGED <<procVars, shellVars, lockWanted, closed, logVars>>

Finalize ==
    /\ main = "finalize" /\ Idle("main")
    /\ lockWanted' = TRUE /\ main' = "locking"
    /\ UNCHANGED <<procVars, readClosed, piper, ctxDone, writing, readers, closed,
                   channel, logVars>>

(* Mutant: the channel is closed without the mutex. *)
CloseUnlocked ==
    /\ main = "locking"
    /\ closed' = TRUE /\ lockWanted' = FALSE /\ main' = "draining"
    /\ UNCHANGED <<procVars, readClosed, piper, ctxDone, writing, readers,
                   channel, logVars>>

CloseLocked ==
    /\ main = "locking" /\ readers = {}
    /\ closed' = TRUE /\ lockWanted' = FALSE /\ main' = "draining"
    /\ UNCHANGED <<procVars, readClosed, piper, ctxDone, writing, readers,
                   channel, logVars>>

FinalizeReturns ==
    /\ main = "draining" /\ streamer = "done"
    /\ main' = "returned" /\ streamer' = "ended"
    /\ UNCHANGED <<procVars, readClosed, piper, ctxDone, lockVars, channel, batch,
                   finished, stream, stored, live>>

-----------------------------------------------------------------------------
(* LogUploader.StreamLogs()                                                *)

(* ReadAvailableChunks() waits for the first chunk or the channel's end. *)
ReadFirst ==
    /\ streamer = "idle"
    /\ \/ channel # <<>> /\ batch' = <<Head(channel)>> /\ channel' = Tail(channel)
       \/ channel = <<>> /\ closed /\ UNCHANGED <<batch, channel>>
    /\ streamer' = "reading"
    /\ UNCHANGED <<procVars, shellVars, lockVars, finished, stream, stored, live>>

(* It takes what else there is, up to a size. *)
ReadMore ==
    /\ streamer = "reading" /\ channel # <<>>
    /\ batch' = Append(batch, Head(channel)) /\ channel' = Tail(channel)
    /\ streamer' \in {"reading", "writing"}
    /\ UNCHANGED <<procVars, shellVars, lockVars, finished, stream, stored, live>>

ReadEnd ==
    /\ streamer = "reading" /\ channel = <<>>
    /\ finished' = closed /\ streamer' = "writing"
    /\ UNCHANGED <<procVars, shellVars, lockVars, channel, batch, stream, stored,
                   live>>

AfterWrite(eof) ==
    CASE finished -> "upload" [] ~finished /\ eof -> "reinit" [] OTHER -> "idle"

(* Mutant: a chunk that could not be sent is kept for another attempt. *)
WriteChunkRetried ==
    /\ streamer = "writing"
    /\ stored' = stored \o batch
    /\ IF batch = <<>> \/ stream = "open"
         THEN live' = live \o batch /\ batch' = <<>>
              /\ streamer' = AfterWrite(FALSE)
         ELSE UNCHANGED <<live, batch>> /\ streamer' = AfterWrite(stream = "broken")
    /\ UNCHANGED <<procVars, shellVars, lockVars, channel, finished, stream>>

(* WriteChunk() stores and sends.  A stream that broke yields io.EOF, one  *)
(* on which CloseSend() was called another error.  The code ignores an     *)
(* error of the file of the stored output; the model assumes that the disk *)
(* takes all of it.                                                        *)
WriteChunk ==
    /\ streamer = "writing"
    /\ stored' = stored \o batch /\ batch' = <<>>
    /\ IF batch = <<>> \/ stream = "open"
         THEN live' = live \o batch /\ streamer' = AfterWrite(FALSE)
         ELSE UNCHANGED live /\ streamer' = AfterWrite(stream = "broken")
    /\ UNCHANGED <<procVars, shellVars, lockVars, channel, finished, stream>>

(* Mutant: the stored output is sent again on the new stream. *)
ReInitializeReplays ==
    /\ streamer = "reinit"
    /\ stream' = "open" /\ live' = live \o stored /\ streamer' = "idle"
    /\ UNCHANGED <<procVars, shellVars, lockVars, channel, batch, finished, stored>>

(* reInitializeClient(); its three attempts may fail. *)
ReInitializeClient ==
    /\ streamer = "reinit"
    /\ stream' \in {"open", "closed"} /\ streamer' = "idle"
    /\ UNCHANGED <<procVars, shellVars, lockVars, channel, batch, finished, stored,
                   live>>

(* UploadStoredOutput() sends the stored output once more, or what it can  *)
(* of it; its errors are logged.                                           *)
UploadStoredOutput ==
    /\ streamer = "upload"
    /\ streamer' = "done"
    /\ UNCHANGED <<procVars, shellVars, lockVars, channel, batch, finished, stream,
                   stored, live>>

(* The connection to the server, or the server's handler, is gone. *)
StreamBreaks ==
    /\ stream = "open" /\ streamer \notin {"upload", "done", "ended"}
    /\ stream' = "broken"
    /\ UNCHANGED <<procVars, shellVars, lockVars, channel, streamer, batch,
                   finished, stored, live>>

-----------------------------------------------------------------------------
Terminated == main = "returned" /\ UNCHANGED vars

MainStep ==
    \/ Start \/ StartFails \/ WaitReturns \/ PiperReports \/ CloseTimesOut
    \/ TellStatus \/ WaitTimesOut \/ Kill \/ StopBackground
    \/ Finalize \/ CloseLocked \/ FinalizeReturns

WriteStep(w) == RLock(w) \/ Send(w)

StreamStep ==
    \/ ReadFirst \/ ReadMore \/ ReadEnd \/ WriteChunk \/ ReInitializeClient
    \/ UploadStoredOutput

Next ==
    \/ \E p \in Process : Fork(p) \/ Emit(p) \/ Exit(p)
    \/ CtxDone
    \/ PiperReads \/ PiperEnds
    \/ MainStep
    \/ \E w \in Writer : WriteStep(w)
    \/ StreamStep
    \/ StreamBreaks
    \/ Terminated

Spec == Init /\ [][Next]_vars

(* The agent's goroutines run on, RPCs return, and the contexts of steps   *)
(* are bounded by the task's timeout.  Processes promise nothing.          *)
FairSpec ==
    /\ Spec
    /\ WF_vars(CtxDone) /\ WF_vars(MainStep)
    /\ WF_vars(PiperReads \/ PiperEnds)
    /\ \A w \in Writer : WF_vars(WriteStep(w))
    /\ WF_vars(StreamStep)

-----------------------------------------------------------------------------
TypeOK ==
    /\ mode \in Modes
    /\ holders \subseteq Process \cup {"agent"}
    /\ written \in 0..MaxOutput /\ byShell \subseteq 1..MaxOutput
    /\ pipe \in Seq(Chunk)
    /\ readClosed \in BOOLEAN /\ piper \in {"reading", "reporting", "ended"}
    /\ main \in {"start", "wait", "closing", "status", "killing", "finalize",
                 "locking", "draining", "returned"}
    /\ ctxDone \in BOOLEAN
    /\ writing \in [Writer -> Chunk \cup {None}] /\ readers \subseteq Writer
    /\ lockWanted \in BOOLEAN /\ closed \in BOOLEAN
    /\ channel \in Seq(Chunk) /\ Len(channel) <= Capacity
    /\ streamer \in {"idle", "reading", "writing", "reinit", "upload", "done",
                     "ended"}
    /\ batch \in Seq(Chunk) /\ finished \in BOOLEAN
    /\ stream \in {"open", "broken", "closed"}
    /\ stored \in Seq(Chunk) /\ live \in Seq(Chunk)

(* No goroutine is about to send on the channel that Finalize() closed,    *)
(* which would panic, the goroutine of a pipe that outlives the step       *)
(* included.                                                               *)
NoSendOnClosedChannel == closed => readers = {}

InOrder(s) ==
    \A i, j \in DOMAIN s : (i < j /\ s[i] # Message /\ s[j] # Message) => s[i] < s[j]

Contains(s, c) == \E i \in DOMAIN s : s[i] = c

(* When the step's goroutine has seen the end of the pipe, all that was    *)
(* written to it, by whichever process, is in the stored log when          *)
(* Finalize() returns, in order and once (on a disk that takes it).        *)
NothingLost ==
    (main = "returned" /\ piper = "ended" /\ ~readClosed) =>
        InOrder(stored) /\ \A c \in 1..written : Contains(stored, c)

(* The live log may have holes where the stream broke, and never repeats   *)
(* or reorders output, in whatever way writers, streamer and               *)
(* reinitialisations interleave.                                           *)
LiveInOrder == InOrder(live)

Sink == INSTANCE LogSink WITH
            log <- stored,
            pending <- batch \o channel,
            open <- ~closed,
            done <- main = "returned"

(* LogUploader is a LogSink: chunks pass through the channel and the       *)
(* batches of StreamLogs() in order, none is lost or stored twice when a   *)
(* stream breaks, and Finalize() returns when all of them are stored.      *)
ImplementsLogSink == Sink!FairSpec

(* The step returns, although scripts may hang and processes may keep the  *)
(* pipe open for ever.                                                     *)
StepReturns == <>(main = "returned")

=============================================================================
