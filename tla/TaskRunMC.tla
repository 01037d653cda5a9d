----------------------------- MODULE TaskRunMC -----------------------------
(* Tasks of two or three commands for TaskRun. *)
EXTENDS TaskRun

Plain(b) ==
    [kind |-> "container", behaviour |-> b, images |-> {}, clone |-> 0,
     exit |-> {}]
Pipe(b, first) == [Plain(b) EXCEPT !.images = {1, first}]

(* Every pair of behaviours in one container, and all but those with       *)
(* ON_TIMEOUT in a pipe of two stages; a clone instruction at the          *)
(* beginning of the task or of a later stage, an exit instruction, a       *)
(* prebuilt image and an instance that is not supported.  ALWAYS is left   *)
(* out where it cannot differ from ON_SUCCESS: no failure precedes the     *)
(* first command, nor the second when the first is skipped without one.    *)
MCBehaviours ==
    {b \in [Command -> Behaviour] :
        b[1] # "ALWAYS" /\ (b[1] = "ON_FAILURE" => b[2] # "ALWAYS")}
MCPairs ==
    {Plain(b) : b \in MCBehaviours}
        \cup {Pipe(b, 2) : b \in {d \in MCBehaviours :
                                  \A c \in Command : d[c] # "ON_TIMEOUT"}}
MCOther ==
    LET b == [c \in Command |-> "ON_SUCCESS"]
    IN {[Plain(b) EXCEPT !.clone = 1],
        [Pipe(b, 2) EXCEPT !.clone = 2],
        [Plain(b) EXCEPT !.exit = {2}],
        [Plain(b) EXCEPT !.kind = "prebuilt"],
        [Plain(b) EXCEPT !.kind = "unsupported"]}
MCShapes == MCPairs \cup MCOther

(* Three commands: pipes whose first stage has two, one of which runs on   *)
(* failure, and whose second stage runs on success or always.              *)
MCTriples ==
    {Pipe(<<"ON_SUCCESS", "ON_FAILURE", "ON_SUCCESS">>, 3),
     Pipe(<<"ON_FAILURE", "ON_SUCCESS", "ALWAYS">>, 3)}

(* Two scripts. *)
MCScripts == {Plain([c \in Command |-> "ON_SUCCESS"])}
=============================================================================
