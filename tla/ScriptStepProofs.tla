-------------------------- MODULE ScriptStepProofs --------------------------
(***************************************************************************)
(* Proofs about ScriptStep, for every capacity of the channel and every    *)
(* amount of output: its goroutines keep to the protocol of the mutex and  *)
(* the channel, the log uploader implements the safety part of LogSink,    *)
(* output is complete in the stored log when the end of the pipe was seen, *)
(* and in order in both.                                                   *)
(***************************************************************************)
EXTENDS ScriptStep, TLAPS, SequenceTheorems

(* A writer that holds the mutex has a chunk to send. *)
ReadersBusy == \A w \in readers : writing[w] # None

(* Where StreamLogs() is tells what is left in its batch and the channel.  *)
Drained ==
    /\ finished => closed /\ channel = <<>>
    /\ streamer \in {"upload", "done", "ended"} => finished
    /\ streamer \notin {"reading", "writing"} => batch = <<>>
    /\ streamer \in {"idle", "reading", "reinit"} => ~finished
    /\ main = "returned" => streamer = "ended"
    /\ main \in {"draining", "returned"} <=> closed

IndInv == TypeOK /\ ReadersBusy /\ NoSendOnClosedChannel /\ Drained

-----------------------------------------------------------------------------
(* What a reader takes from the front of the channel it appends to the     *)
(* batch, and the two together stay what they were.                        *)
LEMMA MoveHead ==
    ASSUME NEW S, NEW s \in Seq(S), NEW t \in Seq(S), t # <<>>
    PROVE  /\ Append(s, Head(t)) \in Seq(S)
           /\ Append(s, Head(t)) \o Tail(t) = s \o t
<1> DEFINE a == Append(s, Head(t))
<1>1. Head(t) \in S /\ Head(t) = t[1] /\ Tail(t) \in Seq(S)
      /\ Len(Tail(t)) = Len(t) - 1 /\ Len(t) \in Nat \ {0}
      /\ \A i \in 1..Len(Tail(t)) : Tail(t)[i] = t[i + 1]
  BY HeadTailProperties, EmptySeq
<1>2. a \in Seq(S) /\ Len(a) = Len(s) + 1 /\ Len(s) \in Nat
      /\ (\A i \in 1..Len(s) : a[i] = s[i]) /\ a[Len(s) + 1] = t[1]
  BY <1>1, AppendProperties, LenProperties
<1>3. a \o Tail(t) \in Seq(S) /\ Len(a \o Tail(t)) = Len(s) + Len(t)
      /\ \A i \in 1..Len(s) + Len(t) : (a \o Tail(t))[i] =
            IF i <= Len(s) + 1 THEN a[i] ELSE Tail(t)[i - (Len(s) + 1)]
  BY <1>1, <1>2, ConcatProperties
<1>4. s \o t \in Seq(S) /\ Len(s \o t) = Len(s) + Len(t)
      /\ \A i \in 1..Len(s) + Len(t) : (s \o t)[i] =
            IF i <= Len(s) THEN s[i] ELSE t[i - Len(s)]
  BY ConcatProperties
<1> HIDE DEF a
<1>5. ASSUME NEW i \in 1..Len(s) + Len(t)
      PROVE  (a \o Tail(t))[i] = (s \o t)[i]
  <2>1. CASE i <= Len(s)
    BY <1>1, <1>2, <1>3, <1>4, <2>1
  <2>2. CASE i = Len(s) + 1
    BY <1>1, <1>2, <1>3, <1>4, <2>2
  <2>3. CASE i > Len(s) + 1
    <3>1. i - (Len(s) + 1) \in 1..Len(Tail(t))
      BY <1>1, <1>2, <2>3
    <3>2. Tail(t)[i - (Len(s) + 1)] = t[i - Len(s)]
      BY <1>1, <1>2, <3>1
    <3> QED BY <1>2, <1>3, <1>4, <2>3, <3>2
  <2> QED BY <1>1, <1>2, <2>1, <2>2, <2>3
<1>6. a \o Tail(t) = s \o t
  BY <1>1, <1>2, <1>3, <1>4, <1>5, SeqEqual
<1> QED BY <1>2, <1>6 DEF a

(* A chunk that is appended to the channel comes last of all. *)
LEMMA AppendAssociates ==
    ASSUME NEW S, NEW s \in Seq(S), NEW t \in Seq(S), NEW c \in S
    PROVE  s \o Append(t, c) = Append(s \o t, c)
<1>1. <<c>> \in Seq(S)
  OBVIOUS
<1>2. Append(t, c) = t \o <<c>>
  BY AppendIsConcat
<1>3. s \o t \in Seq(S)
  BY ConcatProperties
<1>4. Append(s \o t, c) = (s \o t) \o <<c>>
  BY <1>3, AppendIsConcat
<1> QED BY <1>1, <1>2, <1>4, ConcatAssociative

(* A batch is what can be cut off the front of the batch and the channel.  *)
LEMMA CutFront ==
    ASSUME NEW S, NEW s \in Seq(S), NEW t \in Seq(S), s # <<>>
    PROVE  /\ Len(s) \in 1..Len(s \o t)
           /\ SubSeq(s \o t, 1, Len(s)) = s
           /\ SubSeq(s \o t, Len(s) + 1, Len(s \o t)) = t
<1>1. Len(s) \in Nat \ {0} /\ Len(t) \in Nat /\ Len(s \o t) = Len(s) + Len(t)
  BY EmptySeq, LenProperties, ConcatProperties
<1>2. SubSeq(s \o t, 1, Len(s)) = s
  <2>1. 1 \in 1..Len(s) /\ Len(s) \in 1..Len(s)
    BY <1>1
  <2>2. SubSeq(s \o t, 1, Len(s)) = SubSeq(s, 1, Len(s))
    BY <2>1, SubSeqOfConcat1
  <2> QED BY <2>2, SubSeqFull
<1>3. CASE t = <<>>
  <2>1. Len(s) + 1 > Len(s \o t)
    BY <1>1, <1>3, EmptySeq
  <2>2. SubSeq(s \o t, Len(s) + 1, Len(s \o t)) = <<>>
    BY <1>1, <2>1, SubSeqEmpty
  <2> QED BY <1>1, <1>2, <1>3, <2>2
<1>4. CASE t # <<>>
  <2>1. Len(t) \in Nat \ {0}
    BY <1>4, EmptySeq
  <2>2. Len(s) + 1 \in Len(s) + 1..Len(s) + Len(t)
        /\ Len(s) + Len(t) \in Len(s) + 1..Len(s) + Len(t)
    BY <1>1, <2>1
  <2>3. SubSeq(s \o t, Len(s) + 1, Len(s) + Len(t))
          = SubSeq(t, (Len(s) + 1) - Len(s), (Len(s) + Len(t)) - Len(s))
    BY <2>2, SubSeqOfConcat2
  <2>4. (Len(s) + 1) - Len(s) = 1 /\ (Len(s) + Len(t)) - Len(s) = Len(t)
    BY <1>1
  <2>5. SubSeq(t, 1, Len(t)) = t
    BY SubSeqFull
  <2> QED BY <1>1, <1>2, <2>3, <2>4, <2>5
<1> QED BY <1>3, <1>4
-----------------------------------------------------------------------------
(* The actions that touch neither the channel nor what StreamLogs() keeps. *)
ProcStep ==
    \/ \E p \in Process : Fork(p) \/ Emit(p) \/ Exit(p)
    \/ CtxDone \/ PiperReads \/ PiperEnds \/ Start \/ StartFails \/ WaitReturns
    \/ PiperReports \/ CloseTimesOut \/ TellStatus \/ WaitTimesOut \/ Kill
    \/ StopBackground \/ Finalize

(* The initial state satisfies the invariant. *)
LEMMA IndInit == Init => IndInv
<1> SUFFICES ASSUME Init PROVE IndInv
  OBVIOUS
<1>1. <<>> \in Seq(Chunk) /\ Len(<<>>) = 0
  BY EmptySeq
<1>2. Capacity >= 0 /\ 0 \in 0..MaxOutput
  BY ScriptStepAssumption
<1>3. writing \in [Writer -> Chunk \cup {None}]
  BY DEF Init
<1>4. mode \in Modes /\ holders \subseteq Process \cup {"agent"}
      /\ readers \subseteq Writer /\ byShell \subseteq 1..MaxOutput
  BY DEF Init
<1>5. TypeOK
  BY <1>1, <1>2, <1>3, <1>4 DEF Init, TypeOK
<1> QED BY <1>5 DEF IndInv, Init, ReadersBusy, NoSendOnClosedChannel, Drained

(* Steps of the processes, the pipe and the shell keep the types. *)
LEMMA ProcType ==
    ASSUME IndInv, ProcStep
    PROVE  TypeOK'
<1> USE ScriptStepAssumption
    DEF IndInv, TypeOK, procVars, shellVars, lockVars, logVars, Say, SayOrNot
<1>0. Message \in Chunk /\ None \in Chunk \cup {None}
  BY DEF Message, Chunk
<1>1. ASSUME NEW p \in Process, Fork(p) PROVE TypeOK'
  BY <1>1 DEF Fork
<1>2. ASSUME NEW p \in Process, Emit(p) PROVE TypeOK'
  <2>1. written + 1 \in Chunk /\ written + 1 \in 1..MaxOutput
    BY <1>2 DEF Emit, Chunk
  <2>2. Append(pipe, written + 1) \in Seq(Chunk)
    BY <2>1, AppendProperties
  <2> QED BY <1>2, <2>1, <2>2 DEF Emit
<1>3. ASSUME NEW p \in Process, Exit(p) PROVE TypeOK'
  BY <1>3 DEF Exit
<1>4. CASE PiperReads
  <2>1. Head(pipe) \in Chunk /\ Tail(pipe) \in Seq(Chunk)
    BY <1>4, HeadTailProperties DEF PiperReads
  <2>2. pipe' \in Seq(Chunk)
    BY <1>4, <2>1 DEF PiperReads
  <2>3. writing' \in [Writer -> Chunk \cup {None}]
    BY <1>4, <2>1 DEF PiperReads
  <2>4. UNCHANGED <<mode, holders, written, byShell, shellVars, readers,
                    lockWanted, closed, channel, logVars>>
    BY <1>4 DEF PiperReads
  <2> QED BY <2>2, <2>3, <2>4
<1>5. CASE CtxDone
  BY <1>5 DEF CtxDone
<1>6. CASE PiperEnds
  BY <1>6 DEF PiperEnds
<1>7. CASE Start
  BY <1>7 DEF Start, Process
<1>8. CASE StartFails
  BY <1>8 DEF StartFails
<1>9. CASE WaitReturns
  <2>1. holders' \subseteq holders /\ readClosed' \in BOOLEAN
    BY <1>9 DEF WaitReturns
  <2> QED BY <1>9, <2>1 DEF WaitReturns
<1>10. CASE PiperReports
  BY <1>10 DEF PiperReports
<1>11. SayOrNot => writing' \in [Writer -> Chunk \cup {None}]
  BY <1>0
<1>12. CASE CloseTimesOut
  BY <1>11, <1>12 DEF CloseTimesOut
<1>13. CASE TellStatus
  BY <1>11, <1>13 DEF TellStatus
<1>14. CASE WaitTimesOut
  BY <1>11, <1>14 DEF WaitTimesOut
<1>15. CASE Kill
  <2>1. SayOrNot
    BY <1>15 DEF Kill
  <2> QED BY <1>11, <1>15, <2>1 DEF Kill
<1>16. CASE StopBackground
  <2>1. SayOrNot
    BY <1>16 DEF StopBackground
  <2> QED BY <1>11, <1>16, <2>1 DEF StopBackground
<1>17. CASE Finalize
  BY <1>17 DEF Finalize
<1> QED BY <1>1, <1>2, <1>3, <1>4, <1>5, <1>6, <1>7, <1>8, <1>9, <1>10, <1>12,
           <1>13, <1>14, <1>15, <1>16, <1>17 DEF ProcStep

(* Steps of the processes, the pipe and the shell leave the mutex's        *)
(* holders and the uploader's goroutine alone.                             *)
LEMMA ProcFrame ==
    ASSUME IndInv, ProcStep
    PROVE  /\ UNCHANGED <<readers, closed, channel, logVars>>
           /\ main' \notin {"draining", "returned"}
                \/ main' = main
           /\ main' # main => main \notin {"draining", "returned"}
           /\ \A w \in readers : writing'[w] # None
<1> USE DEF procVars, shellVars, lockVars, logVars
<1>1. Message # None /\ Message \in Int /\ None \in Int
  BY DEF Message, None
<1>2. UNCHANGED <<readers, closed, channel, logVars>>
  BY DEF ProcStep, Fork, Emit, Exit, CtxDone, PiperReads, PiperEnds, Start,
     StartFails, WaitReturns, PiperReports, CloseTimesOut, TellStatus,
     WaitTimesOut, Kill, StopBackground, Finalize
<1>3. /\ main' \notin {"draining", "returned"} \/ main' = main
      /\ main' # main => main \notin {"draining", "returned"}
  BY DEF ProcStep, Fork, Emit, Exit, CtxDone, PiperReads, PiperEnds, Start,
     StartFails, WaitReturns, PiperReports, CloseTimesOut, TellStatus,
     WaitTimesOut, Kill, StopBackground, Finalize
<1>4. \/ UNCHANGED writing
      \/ writing' = [writing EXCEPT !["main"] = Message]
      \/ Idle("piper") /\ writing' = [writing EXCEPT !["piper"] = Head(pipe)]
  BY DEF ProcStep, Fork, Emit, Exit, CtxDone, PiperReads, PiperEnds, Start,
     StartFails, WaitReturns, PiperReports, CloseTimesOut, TellStatus,
     WaitTimesOut, Kill, StopBackground, Finalize, Say, SayOrNot
<1>5. writing \in [Writer -> Chunk \cup {None}] /\ readers \subseteq Writer
      /\ \A w \in readers : writing[w] # None
  BY DEF IndInv, TypeOK, ReadersBusy
<1>6. \A w \in readers : writing'[w] # None
  BY <1>1, <1>4, <1>5 DEF Idle
<1> QED BY <1>2, <1>3, <1>6

(* ... so they keep the invariant. *)
LEMMA ProcInd ==
    ASSUME IndInv, ProcStep
    PROVE  IndInv'
<1>1. TypeOK'
  BY ProcType
<1>2. ReadersBusy' /\ NoSendOnClosedChannel'
  BY ProcFrame DEF IndInv, ReadersBusy, NoSendOnClosedChannel
<1>3. Drained'
  BY ProcFrame DEF IndInv, Drained, logVars
<1> QED BY <1>1, <1>2, <1>3 DEF IndInv

(* Writers and Finalize() keep the invariant: a writer sends only while it *)
(* holds the mutex, and the channel is closed when none does.              *)
LEMMA WriteInd ==
    ASSUME IndInv,
           (\E w \in Writer : WriteStep(w)) \/ CloseLocked \/ FinalizeReturns
    PROVE  IndInv'
<1> USE DEF IndInv, TypeOK, ReadersBusy, NoSendOnClosedChannel, Drained,
            procVars, shellVars, lockVars, logVars
<1>1. ASSUME NEW w \in Writer, RLock(w) PROVE IndInv'
  <2>1. CASE closed
    BY <1>1, <2>1 DEF RLock
  <2>2. CASE ~closed
    BY <1>1, <2>2 DEF RLock, Idle
  <2> QED BY <2>1, <2>2
<1>2. ASSUME NEW w \in Writer, Send(w) PROVE IndInv'
  <2>1. writing[w] \in Chunk /\ ~closed
    BY <1>2 DEF Send
  <2>2. Append(channel, writing[w]) \in Seq(Chunk)
        /\ Len(Append(channel, writing[w])) = Len(channel) + 1
    BY <2>1, AppendProperties
  <2>3. Len(channel) \in Nat
    BY LenProperties
  <2>4. TypeOK'
    BY <1>2, <2>2, <2>3, ScriptStepAssumption DEF Send
  <2>5. ReadersBusy' /\ NoSendOnClosedChannel'
    BY <1>2 DEF Send
  <2>6. Drained'
    BY <1>2, <2>1 DEF Send
  <2> QED BY <2>4, <2>5, <2>6
<1>3. CASE CloseLocked
  BY <1>3 DEF CloseLocked
<1>4. CASE FinalizeReturns
  BY <1>4 DEF FinalizeReturns
<1> QED BY <1>1, <1>2, <1>3, <1>4 DEF WriteStep

(* StreamLogs() keeps the invariant: it ends when the channel is closed,   *)
(* and nothing is sent to a closed channel.                                *)
LEMMA StreamInd ==
    ASSUME IndInv, StreamStep \/ StreamBreaks
    PROVE  IndInv'
<1> USE DEF IndInv, procVars, shellVars, lockVars, logVars
<1>1. ReadersBusy' /\ NoSendOnClosedChannel'
  <2>1. UNCHANGED <<readers, writing, closed>>
    BY DEF StreamStep, ReadFirst, ReadMore, ReadEnd, WriteChunk,
       ReInitializeClient, UploadStoredOutput, StreamBreaks
  <2> QED BY <2>1 DEF ReadersBusy, NoSendOnClosedChannel
<1>2. CASE ReadFirst
  <2>1. CASE channel # <<>>
    <3>1. Head(channel) \in Chunk /\ Tail(channel) \in Seq(Chunk)
          /\ Len(Tail(channel)) = Len(channel) - 1 /\ Len(channel) \in Nat
      BY <2>1, HeadTailProperties, LenProperties DEF TypeOK
    <3>2. <<Head(channel)>> \in Seq(Chunk)
      BY <3>1
    <3>3. Len(Tail(channel)) <= Capacity
      BY <3>1, ScriptStepAssumption DEF TypeOK
    <3>4. batch' = <<Head(channel)>> /\ channel' = Tail(channel)
      BY <1>2, <2>1 DEF ReadFirst
    <3>5. batch' \in Seq(Chunk) /\ channel' \in Seq(Chunk)
          /\ Len(channel') <= Capacity
      BY <3>1, <3>2, <3>3, <3>4
    <3>6. TypeOK'
      BY <1>2, <3>5 DEF ReadFirst, TypeOK
    <3> QED BY <1>1, <1>2, <2>1, <3>6 DEF ReadFirst, Drained
  <2>2. CASE channel = <<>>
    BY <1>1, <1>2, <2>2 DEF ReadFirst, TypeOK, Drained
  <2> QED BY <2>1, <2>2
<1>3. CASE ReadMore
  <2>1. channel # <<>>
    BY <1>3 DEF ReadMore
  <2>2. Append(batch, Head(channel)) \in Seq(Chunk)
    BY <2>1, MoveHead DEF TypeOK
  <2>3. Tail(channel) \in Seq(Chunk) /\ Len(Tail(channel)) = Len(channel) - 1
        /\ Len(channel) \in Nat
    BY <2>1, HeadTailProperties, LenProperties DEF TypeOK
  <2>4. TypeOK'
    BY <1>3, <2>2, <2>3, ScriptStepAssumption DEF ReadMore, TypeOK
  <2> QED BY <1>1, <1>3, <2>4 DEF ReadMore, Drained
<1>4. CASE ReadEnd
  BY <1>1, <1>4 DEF ReadEnd, TypeOK, Drained
<1>5. CASE WriteChunk
  <2>1. stored \o batch \in Seq(Chunk) /\ live \o batch \in Seq(Chunk)
        /\ <<>> \in Seq(Chunk)
    BY ConcatProperties, EmptySeq DEF TypeOK
  <2>2. \E eof \in BOOLEAN : streamer' = AfterWrite(eof)
    BY <1>5 DEF WriteChunk
  <2>3. streamer' \in {"upload", "reinit", "idle"}
        /\ (finished <=> streamer' = "upload")
    BY <2>2 DEF AfterWrite
  <2>4. stored' \in Seq(Chunk) /\ batch' \in Seq(Chunk) /\ live' \in Seq(Chunk)
    BY <1>5, <2>1 DEF WriteChunk, TypeOK
  <2>5. UNCHANGED <<procVars, shellVars, lockVars, channel, finished, stream>>
    BY <1>5 DEF WriteChunk
  <2>6. TypeOK'
    BY <2>3, <2>4, <2>5 DEF TypeOK
  <2> QED BY <1>1, <1>5, <2>3, <2>6 DEF WriteChunk, Drained
<1>6. CASE ReInitializeClient
  BY <1>1, <1>6 DEF ReInitializeClient, TypeOK, Drained
<1>7. CASE UploadStoredOutput
  BY <1>1, <1>7 DEF UploadStoredOutput, TypeOK, Drained
<1>8. CASE StreamBreaks
  BY <1>1, <1>8 DEF StreamBreaks, TypeOK, Drained
<1> QED BY <1>2, <1>3, <1>4, <1>5, <1>6, <1>7, <1>8 DEF StreamStep

(* Next is one of the three kinds of steps, or changes nothing. *)
LEMMA NextKinds ==
    [Next]_vars => \/ ProcStep
                   \/ (\E w \in Writer : WriteStep(w)) \/ CloseLocked
                   \/ FinalizeReturns
                   \/ StreamStep \/ StreamBreaks
                   \/ UNCHANGED vars
BY DEF Next, MainStep, ProcStep, Terminated

(* Every step keeps the invariant. *)
LEMMA IndNext == IndInv /\ [Next]_vars => IndInv'
<1> SUFFICES ASSUME IndInv, [Next]_vars PROVE IndInv'
  OBVIOUS
<1>1. CASE UNCHANGED vars
  BY <1>1 DEF IndInv, TypeOK, ReadersBusy, NoSendOnClosedChannel, Drained, vars,
     procVars, shellVars, lockVars, logVars
<1> QED BY <1>1, NextKinds, ProcInd, WriteInd, StreamInd

(* IndInv holds in every reachable state. *)
THEOREM IndInvCorrect == Spec => []IndInv
BY IndInit, IndNext, PTL DEF Spec

(* The variables keep their types, the channel its capacity included, for  *)
(* every capacity and every amount of output.                              *)
THEOREM TypeCorrect == Spec => []TypeOK
<1>1. IndInv => TypeOK
  BY DEF IndInv
<1> QED BY <1>1, IndInvCorrect, PTL

(* No writer ever sends on the channel that Finalize() closed. *)
THEOREM NoPanic == Spec => []NoSendOnClosedChannel
<1>1. IndInv => NoSendOnClosedChannel
  BY DEF IndInv
<1> QED BY <1>1, IndInvCorrect, PTL
-----------------------------------------------------------------------------
(* A step that changes nothing of it is a stuttering step of LogSink. *)
LEMMA Stutters ==
    ASSUME UNCHANGED <<stored, batch, channel, closed>>,
           main' = "returned" <=> main = "returned"
    PROVE  UNCHANGED Sink!vars
BY DEF Sink!vars

(* Chunks enter the sink in the order in which Write() sends them. *)
LEMMA SendIsPut ==
    ASSUME IndInv, NEW w \in Writer, Send(w)
    PROVE  Sink!Put
<1>1. w \in readers /\ channel' = Append(channel, writing[w])
  BY DEF Send
<1>2. writing[w] \in Chunk /\ ~closed
  BY <1>1 DEF IndInv, TypeOK, ReadersBusy, NoSendOnClosedChannel
<1>3. UNCHANGED <<stored, batch, closed, main>>
  BY DEF Send, procVars, shellVars, logVars
<1>4. batch \in Seq(Chunk) /\ channel \in Seq(Chunk)
  BY DEF IndInv, TypeOK
<1>5. batch \o Append(channel, writing[w]) = Append(batch \o channel, writing[w])
  BY <1>2, <1>4, AppendAssociates
<1> QED BY <1>1, <1>2, <1>3, <1>5 DEF Sink!Put

(* Taking chunks from the channel into a batch is invisible. *)
LEMMA ReadStutters ==
    ASSUME IndInv, ReadFirst \/ ReadMore
    PROVE  UNCHANGED Sink!vars
<1>1. UNCHANGED <<stored, closed, main>>
  BY DEF ReadFirst, ReadMore, shellVars, lockVars
<1>2. batch \in Seq(Chunk) /\ channel \in Seq(Chunk)
  BY DEF IndInv, TypeOK
<1>3. CASE ReadFirst /\ channel # <<>>
  <2>1. batch = <<>> /\ batch' = <<Head(channel)>> /\ channel' = Tail(channel)
    BY <1>3 DEF ReadFirst, IndInv, Drained
  <2>2. <<>> \in Seq(Chunk) /\ Append(<<>>, Head(channel)) = <<Head(channel)>>
    OBVIOUS
  <2>3. Append(<<>>, Head(channel)) \o Tail(channel) = <<>> \o channel
    BY <1>2, <1>3, <2>2, MoveHead
  <2> QED BY <1>1, <2>1, <2>2, <2>3 DEF Sink!vars
<1>4. CASE ReadFirst /\ channel = <<>>
  BY <1>1, <1>4, Stutters DEF ReadFirst
<1>5. CASE ReadMore
  <2>1. channel # <<>> /\ batch' = Append(batch, Head(channel))
        /\ channel' = Tail(channel)
    BY <1>5 DEF ReadMore
  <2>2. batch' \o channel' = batch \o channel
    BY <1>2, <2>1, MoveHead
  <2> QED BY <1>1, <2>2 DEF Sink!vars
<1> QED BY <1>3, <1>4, <1>5

(* WriteChunk() stores what came first, whatever becomes of the stream. *)
LEMMA WriteIsStore ==
    ASSUME IndInv, WriteChunk
    PROVE  [Sink!Next]_(Sink!vars)
<1>1. UNCHANGED <<channel, closed, main>>
      /\ stored' = stored \o batch /\ batch' = <<>>
  BY DEF WriteChunk, shellVars, lockVars
<1>2. batch \in Seq(Chunk) /\ channel \in Seq(Chunk) /\ stored \in Seq(Chunk)
  BY DEF IndInv, TypeOK
<1>3. CASE batch = <<>>
  <2>1. stored \o <<>> = stored
    BY <1>2, ConcatEmptySeq
  <2> QED BY <1>1, <1>3, <2>1, Stutters
<1>4. CASE batch # <<>>
  <2> DEFINE k == Len(batch)
  <2>1. /\ k \in 1..Len(batch \o channel)
        /\ SubSeq(batch \o channel, 1, k) = batch
        /\ SubSeq(batch \o channel, k + 1, Len(batch \o channel)) = channel
    BY <1>2, <1>4, CutFront
  <2>2. <<>> \o channel = channel
    BY <1>2, ConcatEmptySeq
  <2>3. /\ stored' = stored \o SubSeq(batch \o channel, 1, k)
        /\ batch' \o channel'
             = SubSeq(batch \o channel, k + 1, Len(batch \o channel))
    BY <1>1, <2>1, <2>2
  <2>4. UNCHANGED <<~closed, main = "returned">>
    BY <1>1
  <2>5. Sink!Store
    BY <2>1, <2>3, <2>4 DEF Sink!Store
  <2> QED BY <2>5 DEF Sink!Next
<1> QED BY <1>3, <1>4

(* Finalize() returns when nothing is left to store. *)
LEMMA ReturnIsFinish ==
    ASSUME IndInv, FinalizeReturns
    PROVE  Sink!Finish
<1>1. closed /\ batch = <<>> /\ channel = <<>>
  BY DEF IndInv, Drained, FinalizeReturns
<1>2. batch \o channel = <<>>
  BY <1>1, ConcatEmptySeq
<1>3. UNCHANGED <<stored, batch, channel, closed>> /\ main' = "returned"
  BY DEF FinalizeReturns, lockVars
<1> QED BY <1>1, <1>2, <1>3 DEF Sink!Finish

(* Every step of the script step is a step of LogSink or invisible to it. *)
LEMMA StepRefines ==
    ASSUME IndInv, [Next]_vars
    PROVE  [Sink!Next]_(Sink!vars)
<1>1. CASE ProcStep
  <2>1. UNCHANGED <<stored, batch, channel, closed>>
        /\ (main' = "returned" <=> main = "returned")
    BY <1>1, ProcFrame DEF logVars
  <2> QED BY <2>1, Stutters
<1>2. ASSUME NEW w \in Writer, WriteStep(w) PROVE [Sink!Next]_(Sink!vars)
  <2>1. CASE RLock(w)
    BY <2>1, Stutters DEF RLock, shellVars, logVars
  <2>2. CASE Send(w)
    BY <2>2, SendIsPut DEF Sink!Next
  <2> QED BY <1>2, <2>1, <2>2 DEF WriteStep
<1>3. CASE CloseLocked
  <2>1. ~closed
    BY <1>3 DEF CloseLocked, IndInv, Drained
  <2>2. Sink!Shut
    BY <1>3, <2>1 DEF CloseLocked, logVars, Sink!Shut
  <2> QED BY <2>2 DEF Sink!Next
<1>4. CASE FinalizeReturns
  BY <1>4, ReturnIsFinish DEF Sink!Next
<1>5. CASE StreamStep
  <2>1. CASE ReadFirst \/ ReadMore
    BY <2>1, ReadStutters
  <2>2. CASE WriteChunk
    BY <2>2, WriteIsStore
  <2>3. CASE ReadEnd \/ ReInitializeClient \/ UploadStoredOutput
    BY <2>3, Stutters
       DEF ReadEnd, ReInitializeClient, UploadStoredOutput, shellVars, lockVars
  <2> QED BY <1>5, <2>1, <2>2, <2>3 DEF StreamStep
<1>6. CASE StreamBreaks
  BY <1>6, Stutters DEF StreamBreaks, shellVars, lockVars
<1>7. CASE UNCHANGED vars
  BY <1>7, Stutters DEF vars, shellVars, lockVars, logVars
<1> QED BY <1>1, <1>2, <1>3, <1>4, <1>5, <1>6, <1>7, NextKinds

(* The log uploader implements LogSink: for every capacity of the channel  *)
(* and in every interleaving of writers, Finalize(), StreamLogs() and      *)
(* broken streams, what Write() accepts is stored in order and once, and   *)
(* Finalize() returns only when all of it is stored.                       *)
THEOREM UploaderIsLogSink == Spec => Sink!Spec
<1>1. Init => Sink!Init
  <2>1. <<>> \o <<>> = <<>>
    BY ConcatEmptySeq
  <2> QED BY <2>1 DEF Init, Sink!Init
<1>2. IndInv /\ [Next]_vars => [Sink!Next]_(Sink!vars)
  BY StepRefines
<1> QED BY <1>1, <1>2, IndInvCorrect, PTL DEF Spec, Sink!Spec

-----------------------------------------------------------------------------
(* The order of the output, and its completeness                           *)

UpTo(s, n) == \A i \in DOMAIN s : s[i] <= n

(* What is stored and what will be, and the same for the live log. *)
Log == stored \o (batch \o channel)
LiveLog == live \o (batch \o channel)

(* How many chunks the goroutine of Piper has read, and how many it has    *)
(* passed on or dropped.                                                   *)
Taken == written - Len(pipe)
Passed == IF writing["piper"] = None THEN Taken ELSE Taken - 1

(* The pipe holds the last chunks that were written, in order; the one     *)
(* before them is the last that was read.                                  *)
PipeIsOutput ==
    /\ Taken >= 0
    /\ \A i \in 1..Len(pipe) : pipe[i] = Taken + i
    /\ writing["piper"] # None => writing["piper"] = Taken /\ Taken >= 1
    /\ writing["main"] \in {None, Message}

(* Both logs are in order and hold nothing that was not passed on. *)
LogsInOrder ==
    /\ InOrder(Log) /\ UpTo(Log, Passed)
    /\ InOrder(LiveLog) /\ UpTo(LiveLog, Passed)

(* Nothing that was passed on is missing, before the uploader is closed    *)
(* and when the end of the pipe was seen.                                  *)
AllPassed ==
    ~closed \/ piper = "ended" => \A c \in 1..Passed : Contains(Log, c)

(* When the goroutine of Piper has ended, nobody can write any more.       *)
PiperDone ==
    /\ piper # "reading" => /\ writing["piper"] = None
                            /\ readClosed \/ (pipe = <<>> /\ holders = {})
    /\ main = "start" => holders = {"agent"} /\ ~readClosed

IndLog == IndInv /\ PipeIsOutput /\ LogsInOrder /\ AllPassed /\ PiperDone

(* A chunk that is later than all others, or a message, may be appended. *)
LEMMA AppendKeepsOrder ==
    ASSUME NEW s \in Seq(Chunk), NEW n \in Int, InOrder(s), UpTo(s, n),
           NEW c \in Chunk, c = Message \/ c > n
    PROVE  /\ InOrder(Append(s, c))
           /\ \A m \in Int : n <= m /\ c <= m => UpTo(Append(s, c), m)
           /\ Contains(Append(s, c), c)
           /\ \A d : Contains(s, d) => Contains(Append(s, c), d)
<1> DEFINE a == Append(s, c)
<1>1. /\ a \in Seq(Chunk) /\ Len(s) \in Nat /\ Len(a) = Len(s) + 1
      /\ (\A i \in 1..Len(s) : a[i] = s[i]) /\ a[Len(s) + 1] = c
  BY AppendProperties, LenProperties
<1>2. DOMAIN a = 1..Len(s) + 1 /\ DOMAIN s = 1..Len(s)
  BY <1>1, LenProperties
<1>3. \A i \in 1..Len(s) : s[i] \in Int /\ s[i] <= n
  BY <1>2, ElementOfSeq, ScriptStepAssumption DEF UpTo, Chunk
<1>4. c \in Int
  BY ScriptStepAssumption DEF Chunk
<1> HIDE DEF a
<1>5. InOrder(a)
  <2> SUFFICES ASSUME NEW i \in 1..Len(s) + 1, NEW j \in 1..Len(s) + 1,
                      i < j, a[i] # Message, a[j] # Message
               PROVE  a[i] < a[j]
    BY <1>2 DEF InOrder
  <2>1. i \in 1..Len(s) /\ a[i] = s[i]
    BY <1>1
  <2>2. CASE j \in 1..Len(s)
    BY <1>1, <1>2, <2>1, <2>2 DEF InOrder
  <2>3. CASE j = Len(s) + 1
    BY <1>1, <1>3, <1>4, <2>1, <2>3
  <2> QED BY <1>1, <2>2, <2>3
<1>6. ASSUME NEW m \in Int, n <= m, c <= m PROVE UpTo(a, m)
  <2> SUFFICES ASSUME NEW i \in 1..Len(s) + 1 PROVE a[i] <= m
    BY <1>2 DEF UpTo
  <2>1. CASE i \in 1..Len(s)
    BY <1>1, <1>3, <1>6, <2>1
  <2>2. CASE i = Len(s) + 1
    BY <1>1, <1>6, <2>2
  <2> QED BY <1>1, <2>1, <2>2
<1>7. Contains(a, c) /\ \A d : Contains(s, d) => Contains(a, d)
  BY <1>1, <1>2 DEF Contains
<1> QED BY <1>5, <1>6, <1>7 DEF a

(* The front of a log that is in order is in order. *)
LEMMA FrontInOrder ==
    ASSUME NEW s \in Seq(Chunk), NEW t \in Seq(Chunk), InOrder(s \o t)
    PROVE  InOrder(s)
<1>1. /\ Len(s) \in Nat /\ Len(t) \in Nat /\ Len(s \o t) = Len(s) + Len(t)
      /\ s \o t \in Seq(Chunk)
      /\ \A i \in 1..Len(s) + Len(t) : (s \o t)[i] =
            IF i <= Len(s) THEN s[i] ELSE t[i - Len(s)]
  BY ConcatProperties, LenProperties
<1>2. DOMAIN s = 1..Len(s) /\ DOMAIN (s \o t) = 1..Len(s) + Len(t)
  BY <1>1, LenProperties
<1>3. \A i \in 1..Len(s) : i \in 1..Len(s) + Len(t) /\ (s \o t)[i] = s[i]
  BY <1>1
<1> QED BY <1>2, <1>3 DEF InOrder

(* A batch that could not be sent leaves a hole, and no disorder. *)
LEMMA HoleKeepsOrder ==
    ASSUME NEW s \in Seq(Chunk), NEW b \in Seq(Chunk), NEW t \in Seq(Chunk),
           NEW n \in Int, InOrder(s \o (b \o t)), UpTo(s \o (b \o t), n)
    PROVE  InOrder(s \o t) /\ UpTo(s \o t, n)
<1> DEFINE u == s \o (b \o t)
           v == s \o t
           At(i) == IF i <= Len(s) THEN i ELSE i + Len(b)
<1>1. /\ Len(s) \in Nat /\ Len(t) \in Nat /\ Len(b) \in Nat
      /\ b \o t \in Seq(Chunk) /\ Len(b \o t) = Len(b) + Len(t)
      /\ \A i \in 1..Len(b) + Len(t) : (b \o t)[i] =
            IF i <= Len(b) THEN b[i] ELSE t[i - Len(b)]
  BY ConcatProperties, LenProperties
<1>2. /\ u \in Seq(Chunk) /\ Len(u) = Len(s) + (Len(b) + Len(t))
      /\ \A i \in 1..Len(s) + (Len(b) + Len(t)) : u[i] =
            IF i <= Len(s) THEN s[i] ELSE (b \o t)[i - Len(s)]
  <2>1. \A x \in Seq(Chunk) : /\ s \o x \in Seq(Chunk)
                              /\ Len(s \o x) = Len(s) + Len(x)
                              /\ \A i \in 1..Len(s) + Len(x) : (s \o x)[i] =
                                    IF i <= Len(s) THEN s[i] ELSE x[i - Len(s)]
    BY ConcatProperties
  <2> QED BY <1>1, <2>1
<1>3. /\ v \in Seq(Chunk) /\ Len(v) = Len(s) + Len(t)
      /\ \A i \in 1..Len(s) + Len(t) : v[i] =
            IF i <= Len(s) THEN s[i] ELSE t[i - Len(s)]
  BY ConcatProperties
<1>4. /\ DOMAIN u = 1..Len(s) + (Len(b) + Len(t))
      /\ DOMAIN v = 1..Len(s) + Len(t)
  BY <1>2, <1>3, LenProperties
<1> HIDE DEF u, v
<1>5. ASSUME NEW i \in DOMAIN v PROVE At(i) \in DOMAIN u /\ v[i] = u[At(i)]
  <2>1. CASE i <= Len(s)
    <3>1. i \in 1..Len(s) + Len(t) /\ i \in 1..Len(s) + (Len(b) + Len(t))
      BY <1>1, <1>4, <2>1
    <3>2. u[i] = s[i] /\ v[i] = s[i]
      BY <1>2, <1>3, <2>1, <3>1
    <3> QED BY <1>4, <2>1, <3>1, <3>2
  <2>2. CASE ~(i <= Len(s))
    <3>1. i + Len(b) \in 1..Len(s) + (Len(b) + Len(t)) /\ ~(i + Len(b) <= Len(s))
      BY <1>1, <1>4, <2>2
    <3>2. /\ (i + Len(b)) - Len(s) \in 1..Len(b) + Len(t)
          /\ ~((i + Len(b)) - Len(s) <= Len(b))
          /\ ((i + Len(b)) - Len(s)) - Len(b) = i - Len(s)
      BY <1>1, <1>4, <2>2
    <3>3. u[i + Len(b)] = (b \o t)[(i + Len(b)) - Len(s)]
      BY <1>2, <3>1
    <3>4. (b \o t)[(i + Len(b)) - Len(s)] = t[i - Len(s)]
      BY <1>1, <3>2
    <3>5. v[i] = t[i - Len(s)]
      BY <1>3, <1>4, <2>2
    <3> QED BY <1>4, <2>2, <3>1, <3>3, <3>4, <3>5
  <2> QED BY <2>1, <2>2
<1>6. \A i, j \in DOMAIN v : i < j => At(i) < At(j)
  BY <1>1, <1>4
<1> HIDE DEF At
<1>7. InOrder(u) /\ UpTo(u, n)
  BY DEF u
<1>8. InOrder(v)
  BY <1>5, <1>6, <1>7 DEF InOrder
<1>9. UpTo(v, n)
  BY <1>5, <1>7 DEF UpTo
<1> QED BY <1>8, <1>9 DEF v

(* The initial state satisfies it. *)
LEMMA IndLogInit == Init => IndLog
<1> SUFFICES ASSUME Init PROVE IndLog
  OBVIOUS
<1>1. IndInv
  BY IndInit
<1>2. <<>> \o <<>> = <<>> /\ Len(<<>>) = 0 /\ DOMAIN <<>> = {}
  BY ConcatEmptySeq
<1>3. Log = <<>> /\ LiveLog = <<>>
  BY <1>2 DEF Init, Log, LiveLog
<1>4. Taken = 0 /\ Passed = 0
  <2>1. written = 0 /\ Len(pipe) = 0
    BY <1>2 DEF Init
  <2>2. writing["piper"] = None
    BY DEF Init, Writer
  <2>3. Taken = 0
    BY <2>1 DEF Taken
  <2> QED BY <2>2, <2>3 DEF Passed
<1>5. PipeIsOutput
  BY <1>2, <1>4 DEF Init, PipeIsOutput, Writer
<1>6. LogsInOrder
  BY <1>2, <1>3 DEF LogsInOrder, InOrder, UpTo
<1>7. AllPassed
  BY <1>4 DEF AllPassed
<1>8. PiperDone
  BY DEF Init, PiperDone
<1> QED BY <1>1, <1>5, <1>6, <1>7, <1>8 DEF IndLog

(* The types of the counts and the logs. *)
LEMMA LogTypes ==
    ASSUME IndLog
    PROVE  /\ Log \in Seq(Chunk) /\ LiveLog \in Seq(Chunk)
           /\ Len(pipe) \in Nat /\ Taken \in Nat /\ Passed \in Nat
           /\ writing \in [Writer -> Chunk \cup {None}]
<1>1. TypeOK /\ PipeIsOutput
  BY DEF IndLog, IndInv
<1>2. batch \o channel \in Seq(Chunk)
  BY <1>1, ConcatProperties DEF TypeOK
<1>3. Log \in Seq(Chunk) /\ LiveLog \in Seq(Chunk)
  BY <1>1, <1>2, ConcatProperties DEF TypeOK, Log, LiveLog
<1>4. Len(pipe) \in Nat /\ Taken \in Nat
  BY <1>1, LenProperties, ScriptStepAssumption DEF TypeOK, Taken, PipeIsOutput
<1>5. Passed \in Nat
  BY <1>1, <1>4 DEF Passed, PipeIsOutput
<1> QED BY <1>1, <1>3, <1>4, <1>5 DEF TypeOK

(* Reading from the pipe and writing to it keep its order; nothing is      *)
(* passed on by it.                                                        *)
LEMMA PipeKept ==
    ASSUME IndLog, ProcStep
    PROVE  PipeIsOutput' /\ Passed' = Passed
<1>0. /\ PipeIsOutput /\ Len(pipe) \in Nat /\ Taken \in Nat /\ written \in Nat
      /\ writing \in [Writer -> Chunk \cup {None}] /\ pipe \in Seq(Chunk)
      /\ "piper" \in Writer /\ "main" \in Writer /\ Chunk \subseteq Nat
  BY LogTypes, ScriptStepAssumption DEF IndLog, IndInv, TypeOK, Writer, Chunk
<1>1. \/ UNCHANGED <<written, pipe>>
         /\ (UNCHANGED writing \/ writing' = [writing EXCEPT !["main"] = Message])
      \/ PiperReads
      \/ \E p \in Process : Emit(p)
  BY DEF ProcStep, Fork, Emit, Exit, CtxDone, PiperReads, PiperEnds, Start,
     StartFails, WaitReturns, PiperReports, CloseTimesOut, TellStatus,
     WaitTimesOut, Kill, StopBackground, Finalize, Say, SayOrNot, procVars,
     lockVars
<1>2. CASE UNCHANGED <<written, pipe>>
           /\ (UNCHANGED writing \/ writing' = [writing EXCEPT !["main"] = Message])
  <2>1. writing'["piper"] = writing["piper"]
        /\ writing'["main"] \in {None, Message}
    BY <1>0, <1>2 DEF PipeIsOutput
  <2>2. Taken' = Taken
    BY <1>2 DEF Taken
  <2> QED BY <1>0, <1>2, <2>1, <2>2 DEF PipeIsOutput, Passed
<1>3. CASE PiperReads
  <2>1. /\ pipe # <<>> /\ pipe' = Tail(pipe) /\ written' = written
        /\ writing["piper"] = None
        /\ writing' = [writing EXCEPT !["piper"] = Head(pipe)]
    BY <1>3 DEF PiperReads, Idle
  <2>2. /\ Len(pipe) >= 1 /\ Head(pipe) = pipe[1]
        /\ Len(Tail(pipe)) = Len(pipe) - 1
        /\ \A i \in 1..Len(Tail(pipe)) : Tail(pipe)[i] = pipe[i + 1]
    BY <1>0, <2>1, HeadTailProperties, EmptySeq
  <2>3. Taken' = Taken + 1
    BY <1>0, <2>1, <2>2 DEF Taken
  <2>4. pipe[1] = Taken + 1
    BY <1>0, <2>2 DEF PipeIsOutput
  <2>5. writing'["piper"] = Taken + 1 /\ writing'["main"] = writing["main"]
    BY <1>0, <2>1, <2>2, <2>4
  <2>6. Passed' = Passed
    BY <1>0, <2>1, <2>3, <2>5 DEF Passed, None
  <2>7. ASSUME NEW i \in 1..Len(pipe') PROVE pipe'[i] = Taken' + i
    <3>1. i + 1 \in 1..Len(pipe) /\ pipe'[i] = pipe[i + 1] /\ i \in Int
      BY <1>0, <2>1, <2>2, <2>7
    <3>2. pipe[i + 1] = Taken + (i + 1)
      BY <1>0, <3>1 DEF PipeIsOutput
    <3> QED BY <1>0, <2>3, <3>1, <3>2
  <2> QED BY <1>0, <2>3, <2>5, <2>6, <2>7 DEF PipeIsOutput
<1>4. ASSUME NEW p \in Process, Emit(p) PROVE PipeIsOutput' /\ Passed' = Passed
  <2>1. /\ pipe' = Append(pipe, written + 1) /\ written' = written + 1
        /\ writing' = writing /\ written + 1 \in Chunk
    BY <1>0, <1>4, ScriptStepAssumption DEF Emit, lockVars, Chunk
  <2>2. /\ Len(pipe') = Len(pipe) + 1 /\ pipe'[Len(pipe) + 1] = written + 1
        /\ \A i \in 1..Len(pipe) : pipe'[i] = pipe[i]
    BY <1>0, <2>1, AppendProperties
  <2>3. Taken' = Taken
    BY <1>0, <2>1, <2>2 DEF Taken
  <2>4. Taken + (Len(pipe) + 1) = written + 1
    BY <1>0 DEF Taken
  <2>5. ASSUME NEW i \in 1..Len(pipe') PROVE pipe'[i] = Taken' + i
    <3>1. CASE i \in 1..Len(pipe)
      BY <1>0, <2>2, <2>3, <3>1 DEF PipeIsOutput
    <3>2. CASE i = Len(pipe) + 1
      BY <1>0, <2>2, <2>3, <2>4, <3>2
    <3> QED BY <1>0, <2>2, <3>1, <3>2
  <2> QED BY <1>0, <2>1, <2>3, <2>5 DEF PipeIsOutput, Passed
<1> QED BY <1>1, <1>2, <1>3, <1>4

(* Once the goroutine of Piper has ended nobody writes, starts or forks. *)
LEMMA PiperDoneKept ==
    ASSUME IndLog, ProcStep
    PROVE  PiperDone'
<1> USE DEF procVars, shellVars, lockVars, logVars, SayOrNot, Say
<1>0. /\ PiperDone /\ writing \in [Writer -> Chunk \cup {None}]
      /\ "piper" \in Writer /\ "main" \in Writer
  BY LogTypes DEF IndLog, Writer
<1>1. ASSUME NEW p \in Process, Fork(p) \/ Emit(p) \/ Exit(p) PROVE PiperDone'
  BY <1>0, <1>1 DEF PiperDone, Fork, Emit, Exit, Process
<1>2. CASE PiperReads
  BY <1>0, <1>2 DEF PiperDone, PiperReads
<1>3. CASE PiperEnds
  BY <1>0, <1>3 DEF PiperDone, PiperEnds, Idle
<1>4. CASE CtxDone \/ PiperReports \/ Finalize
  BY <1>0, <1>4 DEF PiperDone, CtxDone, PiperReports, Finalize
<1>5. CASE Start \/ StartFails
  BY <1>0, <1>5 DEF PiperDone, Start, StartFails
<1>6. CASE WaitReturns
  BY <1>0, <1>6 DEF PiperDone, WaitReturns
<1>7. CASE CloseTimesOut \/ TellStatus \/ WaitTimesOut \/ Kill \/ StopBackground
  <2>1. /\ UNCHANGED <<readClosed, piper, pipe>> /\ holders' \subseteq holders
        /\ main' # "start"
        /\ UNCHANGED writing \/ writing' = [writing EXCEPT !["main"] = Message]
    BY <1>7 DEF CloseTimesOut, TellStatus, WaitTimesOut, Kill, StopBackground
  <2>2. writing'["piper"] = writing["piper"]
    BY <1>0, <2>1
  <2> QED BY <1>0, <2>1, <2>2 DEF PiperDone
<1> QED BY <1>1, <1>2, <1>3, <1>4, <1>5, <1>6, <1>7 DEF ProcStep

(* Processes, the pipe and the shell keep the invariant. *)
LEMMA ProcLog ==
    ASSUME IndLog, ProcStep
    PROVE  IndLog'
<1>1. IndInv /\ IndInv'
  BY ProcInd DEF IndLog
<1>2. Log' = Log /\ LiveLog' = LiveLog /\ closed' = closed
  BY <1>1, ProcFrame DEF Log, LiveLog, logVars
<1>3. PipeIsOutput' /\ Passed' = Passed /\ PiperDone'
  BY PipeKept, PiperDoneKept
<1>4. LogsInOrder'
  BY <1>2, <1>3 DEF IndLog, LogsInOrder
<1>5. piper' = "ended" => piper = "ended" \/ ~closed
  BY <1>1 DEF ProcStep, Fork, Emit, Exit, CtxDone, PiperReads, PiperEnds, Start,
     StartFails, WaitReturns, PiperReports, CloseTimesOut, TellStatus,
     WaitTimesOut, Kill, StopBackground, Finalize, shellVars, IndInv, Drained
<1>6. AllPassed'
  BY <1>2, <1>3, <1>5 DEF IndLog, AllPassed
<1> QED BY <1>1, <1>3, <1>4, <1>6 DEF IndLog

(* Write() appends the last chunk that was read, or a message, to both     *)
(* logs; a chunk that comes too late is dropped, and then the end of the   *)
(* pipe has not been seen.                                                 *)
LEMMA WriteLog ==
    ASSUME IndLog, NEW w \in Writer, WriteStep(w)
    PROVE  IndLog'
<1>0. /\ PipeIsOutput /\ LogsInOrder /\ AllPassed /\ PiperDone /\ IndInv
      /\ Log \in Seq(Chunk) /\ LiveLog \in Seq(Chunk)
      /\ Taken \in Nat /\ Passed \in Nat
      /\ writing \in [Writer -> Chunk \cup {None}]
      /\ batch \in Seq(Chunk) /\ channel \in Seq(Chunk)
      /\ stored \in Seq(Chunk) /\ live \in Seq(Chunk)
  BY LogTypes DEF IndLog, IndInv, TypeOK
<1>1. IndInv'
  BY <1>0, WriteInd
<1>2. w = "piper" \/ w = "main"
  BY DEF Writer
<1>3. /\ UNCHANGED <<procVars, shellVars, closed, logVars>>
      /\ (writing' = writing /\ channel' = channel)
         \/ writing' = [writing EXCEPT ![w] = None]
  BY DEF WriteStep, RLock, Send
<1>4. Taken' = Taken
  BY <1>3 DEF Taken, procVars
<1>5. PipeIsOutput' /\ PiperDone'
  <2>1. writing'["piper"] \in {writing["piper"], None}
        /\ writing'["main"] \in {writing["main"], None}
    BY <1>0, <1>3 DEF Writer
  <2>2. PipeIsOutput'
    BY <1>0, <1>3, <1>4, <2>1 DEF PipeIsOutput, procVars
  <2>3. PiperDone'
    BY <1>0, <1>3, <2>1 DEF PiperDone, procVars, shellVars
  <2> QED BY <2>2, <2>3
<1>6. CASE RLock(w)
  <2>1. Log' = Log /\ LiveLog' = LiveLog
    BY <1>3, <1>6 DEF RLock, Log, LiveLog, logVars
  <2>2. CASE writing' = writing
    <3>1. Passed' = Passed
      BY <1>4, <2>2 DEF Passed
    <3> QED BY <1>0, <1>1, <1>3, <1>5, <2>1, <3>1
            DEF IndLog, LogsInOrder, AllPassed, shellVars
  <2>3. CASE writing' # writing
    <3>1. closed /\ writing' = [writing EXCEPT ![w] = None] /\ writing[w] # None
      BY <1>6, <2>3 DEF RLock, Idle
    <3>2. Passed' >= Passed /\ Passed' \in Int
      BY <1>0, <1>4, <3>1 DEF Passed, Writer
    <3>3. /\ \A i \in DOMAIN Log : Log[i] \in Int
          /\ \A i \in DOMAIN LiveLog : LiveLog[i] \in Int
      <4>1. /\ \A i \in DOMAIN Log : Log[i] \in Chunk
            /\ \A i \in DOMAIN LiveLog : LiveLog[i] \in Chunk
        BY <1>0, LenProperties, ElementOfSeq
      <4> QED BY <4>1, ScriptStepAssumption DEF Chunk
    <3>4. LogsInOrder'
      <4>1. UpTo(Log, Passed')
        BY <1>0, <3>2, <3>3 DEF LogsInOrder, UpTo
      <4>2. UpTo(LiveLog, Passed')
        BY <1>0, <3>2, <3>3 DEF LogsInOrder, UpTo
      <4> QED BY <1>0, <2>1, <4>1, <4>2 DEF LogsInOrder
    <3>5. AllPassed'
      <4>1. CASE w = "piper"
        <5>1. piper' = "reading"
          BY <1>0, <1>3, <3>1, <4>1 DEF PiperDone, IndInv, TypeOK, shellVars
        <5> QED BY <1>3, <3>1, <5>1 DEF AllPassed
      <4>2. CASE w = "main"
        <5>1. Passed' = Passed
          BY <1>0, <1>4, <3>1, <4>2 DEF Passed, Writer
        <5> QED BY <1>0, <1>3, <2>1, <5>1 DEF AllPassed, shellVars
      <4> QED BY <1>2, <4>1, <4>2
    <3> QED BY <1>1, <1>5, <3>4, <3>5 DEF IndLog
  <2> QED BY <2>2, <2>3
<1>7. CASE Send(w)
  <2>1. /\ w \in readers /\ channel' = Append(channel, writing[w])
        /\ writing' = [writing EXCEPT ![w] = None]
    BY <1>7 DEF Send
  <2>2. writing[w] \in Chunk /\ writing[w] # None /\ ~closed
    BY <1>0, <2>1 DEF IndInv, ReadersBusy, NoSendOnClosedChannel
  <2>3. PICK c \in Chunk : c = writing[w]
    BY <2>2
  <2>4. c \in Nat
    BY ScriptStepAssumption DEF Chunk
  <2>5. /\ c = Message \/ c > Passed
        /\ Passed' \in Int /\ Passed <= Passed' /\ c <= Passed'
        /\ \A d \in 1..Passed' : d \in 1..Passed \/ d = c
    <3>1. CASE w = "piper"
      <4>1. c = Taken /\ Passed = Taken - 1
        BY <1>0, <2>2, <2>3, <3>1 DEF PipeIsOutput, Passed
      <4>2. Passed' = Taken
        BY <1>0, <1>4, <2>1, <3>1 DEF Passed, Writer
      <4> QED BY <1>0, <4>1, <4>2
    <3>2. CASE w = "main"
      <4>1. c = 0
        BY <1>0, <2>2, <2>3, <3>2 DEF PipeIsOutput, Message
      <4>2. Passed' = Passed
        BY <1>0, <1>4, <2>1, <3>2 DEF Passed, Writer
      <4> QED BY <1>0, <4>1, <4>2 DEF Message
    <3> QED BY <1>2, <3>1, <3>2
  <2>6. Log' = Append(Log, c) /\ LiveLog' = Append(LiveLog, c)
    <3>1. batch \o channel \in Seq(Chunk)
          /\ batch \o Append(channel, c) = Append(batch \o channel, c)
      BY <1>0, ConcatProperties, AppendAssociates
    <3>2. \A s, t \in Seq(Chunk) : s \o Append(t, c) = Append(s \o t, c)
      BY AppendAssociates
    <3>3. stored' = stored /\ live' = live /\ batch' = batch
      BY <1>3 DEF logVars
    <3>4. /\ stored \o Append(batch \o channel, c) = Append(Log, c)
          /\ live \o Append(batch \o channel, c) = Append(LiveLog, c)
      BY <1>0, <3>1, <3>2 DEF Log, LiveLog
    <3>5. batch' \o channel' = Append(batch \o channel, c)
      BY <2>1, <2>3, <3>1, <3>3
    <3> QED BY <3>3, <3>4, <3>5 DEF Log, LiveLog
  <2>7. \A s \in Seq(Chunk) :
            InOrder(s) /\ UpTo(s, Passed) =>
                /\ InOrder(Append(s, c)) /\ UpTo(Append(s, c), Passed')
                /\ Contains(Append(s, c), c)
                /\ \A d : Contains(s, d) => Contains(Append(s, c), d)
    BY <1>0, <2>5, AppendKeepsOrder
  <2>8. LogsInOrder'
    BY <1>0, <2>6, <2>7 DEF LogsInOrder
  <2>9. AllPassed'
    <3>1. \A d \in 1..Passed : Contains(Log, d)
      BY <1>0, <2>2 DEF AllPassed
    <3>2. \A d \in 1..Passed' : Contains(Log', d)
      BY <1>0, <2>5, <2>6, <2>7, <3>1 DEF LogsInOrder
    <3> QED BY <3>2 DEF AllPassed
  <2> QED BY <1>1, <1>5, <2>8, <2>9 DEF IndLog
<1> QED BY <1>6, <1>7 DEF WriteStep

(* Finalize() touches neither log. *)
LEMMA FinalizeLog ==
    ASSUME IndLog, CloseLocked \/ FinalizeReturns
    PROVE  IndLog'
<1>1. IndInv /\ IndInv'
  BY WriteInd DEF IndLog
<1>2. /\ UNCHANGED <<procVars, readClosed, piper, writing, channel, batch,
                     stored, live>>
      /\ main' # "start" /\ (closed => closed')
  BY DEF CloseLocked, FinalizeReturns, lockVars, logVars
<1>3. Taken' = Taken /\ Passed' = Passed /\ Log' = Log /\ LiveLog' = LiveLog
  BY <1>2 DEF Taken, Passed, Log, LiveLog, procVars
<1>4. PipeIsOutput' /\ LogsInOrder' /\ AllPassed' /\ PiperDone'
  BY <1>2, <1>3 DEF IndLog, PipeIsOutput, LogsInOrder, AllPassed, PiperDone,
     procVars
<1> QED BY <1>1, <1>4 DEF IndLog

(* StreamLogs() moves chunks from the channel through the batch into the   *)
(* logs; where the stream is broken a batch is left out of the live log.   *)
LEMMA StreamLog ==
    ASSUME IndLog, StreamStep \/ StreamBreaks
    PROVE  IndLog'
<1>0. /\ IndInv /\ PipeIsOutput /\ LogsInOrder /\ AllPassed /\ PiperDone
      /\ batch \in Seq(Chunk) /\ channel \in Seq(Chunk)
      /\ stored \in Seq(Chunk) /\ live \in Seq(Chunk) /\ Passed \in Int
  BY LogTypes DEF IndLog, IndInv, TypeOK
<1>1. IndInv'
  BY <1>0, StreamInd
<1>2. UNCHANGED <<procVars, shellVars, lockVars>>
  BY DEF StreamStep, ReadFirst, ReadMore, ReadEnd, WriteChunk,
     ReInitializeClient, UploadStoredOutput, StreamBreaks
<1>3. Taken' = Taken /\ Passed' = Passed /\ PipeIsOutput' /\ PiperDone'
  BY <1>0, <1>2 DEF Taken, Passed, PipeIsOutput, PiperDone, procVars, shellVars,
     lockVars
<1>4. /\ Log' = Log
      /\ LiveLog' = LiveLog \/ LiveLog' = live \o channel
  <2>1. CASE ReadFirst \/ ReadMore
    <3>1. UNCHANGED Sink!vars
      BY <1>0, <2>1, ReadStutters
    <3>2. stored' = stored /\ live' = live
      BY <2>1 DEF ReadFirst, ReadMore
    <3>3. batch' \o channel' = batch \o channel
      BY <3>1 DEF Sink!vars
    <3> QED BY <3>2, <3>3 DEF Log, LiveLog
  <2>2. CASE WriteChunk
    <3>1. /\ stored' = stored \o batch /\ batch' = <<>> /\ channel' = channel
          /\ live' = live \o batch \/ live' = live
      BY <2>2 DEF WriteChunk
    <3>2. /\ batch \in Seq(Chunk) /\ channel \in Seq(Chunk)
          /\ stored \in Seq(Chunk) /\ live \in Seq(Chunk)
      BY <1>0
    <3>3. <<>> \o channel = channel
      BY <3>2, ConcatEmptySeq
    <3>4. \A s, t, u \in Seq(Chunk) : (s \o t) \o u = s \o (t \o u)
      BY ConcatAssociative
    <3>5. /\ (stored \o batch) \o channel = stored \o (batch \o channel)
          /\ (live \o batch) \o channel = live \o (batch \o channel)
      BY <3>2, <3>4
    <3> QED BY <3>1, <3>3, <3>5 DEF Log, LiveLog
  <2>3. CASE ReadEnd \/ ReInitializeClient \/ UploadStoredOutput \/ StreamBreaks
    BY <2>3 DEF ReadEnd, ReInitializeClient, UploadStoredOutput, StreamBreaks,
       Log, LiveLog
  <2> QED BY <2>1, <2>2, <2>3 DEF StreamStep
<1>5. InOrder(live \o channel) /\ UpTo(live \o channel, Passed)
  BY <1>0, HoleKeepsOrder DEF LogsInOrder, LiveLog
<1>6. LogsInOrder'
  BY <1>0, <1>3, <1>4, <1>5 DEF LogsInOrder
<1>7. AllPassed'
  BY <1>0, <1>2, <1>3, <1>4 DEF AllPassed, shellVars, lockVars
<1> QED BY <1>1, <1>3, <1>6, <1>7 DEF IndLog

(* IndLog holds in every reachable state. *)
THEOREM IndLogCorrect == Spec => []IndLog
<1>1. IndLog /\ [Next]_vars => IndLog'
  <2> SUFFICES ASSUME IndLog, [Next]_vars PROVE IndLog'
    OBVIOUS
  <2>1. CASE UNCHANGED vars
    <3>1. IndInv'
      BY <2>1, IndNext DEF IndLog
    <3>2. PipeIsOutput' /\ LogsInOrder' /\ AllPassed' /\ PiperDone'
      BY <2>1 DEF IndLog, PipeIsOutput, LogsInOrder, AllPassed, PiperDone,
         Taken, Passed, Log, LiveLog, vars, procVars, shellVars, lockVars,
         logVars
    <3> QED BY <3>1, <3>2 DEF IndLog
  <2> QED BY <2>1, NextKinds, ProcLog, WriteLog, FinalizeLog, StreamLog
<1> QED BY <1>1, IndLogInit, PTL DEF Spec

(* When the step's goroutine has seen the end of the pipe, all that was    *)
(* written to it is in the stored log when Finalize() returns, in order    *)
(* and once: for every capacity of the channel and amount of output.       *)
THEOREM OutputIsComplete == Spec => []NothingLost
<1>1. IndLog => NothingLost
  <2> SUFFICES ASSUME IndLog, main = "returned", piper = "ended", ~readClosed
               PROVE  InOrder(stored) /\ \A c \in 1..written : Contains(stored, c)
    BY DEF NothingLost
  <2>1. stored \in Seq(Chunk) /\ written \in Nat /\ batch = <<>> /\ channel = <<>>
    BY ScriptStepAssumption DEF IndLog, IndInv, TypeOK, Drained
  <2>2. Log = stored
    BY <2>1, ConcatEmptySeq DEF Log
  <2>3. pipe = <<>> /\ writing["piper"] = None
    BY DEF IndLog, PiperDone
  <2>4. Len(pipe) = 0
    BY <2>3, EmptySeq
  <2>5. Passed = written
    BY <2>1, <2>3, <2>4 DEF Passed, Taken
  <2> QED BY <2>2, <2>5 DEF IndLog, LogsInOrder, AllPassed
<1> QED BY <1>1, IndLogCorrect, PTL

(* The live log never repeats or reorders output, however writers, the     *)
(* streamer and reinitialisations of the stream interleave.                *)
THEOREM LiveLogInOrder == Spec => []LiveInOrder
<1>1. IndLog => LiveInOrder
  <2> SUFFICES ASSUME IndLog PROVE InOrder(live)
    BY DEF LiveInOrder
  <2>1. live \in Seq(Chunk) /\ batch \in Seq(Chunk) /\ channel \in Seq(Chunk)
    BY DEF IndLog, IndInv, TypeOK
  <2>2. batch \o channel \in Seq(Chunk)
    BY <2>1, ConcatProperties
  <2> QED BY <2>1, <2>2, FrontInOrder DEF IndLog, LogsInOrder, LiveLog
<1> QED BY <1>1, IndLogCorrect, PTL
=============================================================================
