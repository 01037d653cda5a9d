------------------------------ MODULE LogSink ------------------------------
(***************************************************************************)
(* What a LogUploader (internal/agent/executor/logs.go) promises to the    *)
(* goroutines that write to it: what they hand over is put into the stored *)
(* log in the order in which it was handed over, each chunk once, and      *)
(* Finalize() returns when all of it is there.                             *)
(***************************************************************************)
EXTENDS Integers, Sequences

CONSTANT Chunk

VARIABLES
    log,       \* the stored log
    pending,   \* handed over and not yet stored
    open,      \* Finalize() has not shut the sink
    done       \* Finalize() returned

vars == <<log, pending, open, done>>

Init == log = <<>> /\ pending = <<>> /\ open = TRUE /\ done = FALSE

Put ==
    /\ open
    /\ \E c \in Chunk : pending' = Append(pending, c)
    /\ UNCHANGED <<log, open, done>>

Store ==
    /\ \E k \in 1..Len(pending) :
          /\ log' = log \o SubSeq(pending, 1, k)
          /\ pending' = SubSeq(pending, k + 1, Len(pending))
    /\ UNCHANGED <<open, done>>

Shut == open /\ open' = FALSE /\ UNCHANGED <<log, pending, done>>

Finish ==
    /\ ~open /\ pending = <<>>
    /\ done' = TRUE
    /\ UNCHANGED <<log, pending, open>>

Next == Put \/ Store \/ Shut \/ Finish

Spec == Init /\ [][Next]_vars

(* What was handed over is stored, and a sink that was shut finishes. *)
FairSpec == Spec /\ WF_vars(Store) /\ WF_vars(Finish)
=============================================================================
