---------------------------- MODULE AgentCacheMC ----------------------------
(* Tasks with one or two keys of one command, for AgentCache. *)
EXTENDS AgentCache

CONSTANTS c1, c2, c3, k1, k2

MCClients == {c1, c2}
MCThreeClients == {c1, c2, c3}
MCKeys == {k1, k2}

(* One file, or two. *)
MCFolders == {[p \in 1 .. n |-> "x"] : n \in {1, 2}}

Plain(k) ==
    [key |-> k, prefixed |-> MCKeys, optimistic |-> FALSE, reupload |-> FALSE,
     populate |-> FALSE, wide |-> FALSE]

(* A fingerprint with a populate script, the same restoring optimistically *)
(* and uploading again, and several folders without a fingerprint.         *)
MCInstructions ==
    {[Plain(k1) EXCEPT !.populate = TRUE],
     [Plain(k2) EXCEPT !.optimistic = TRUE, !.reupload = TRUE],
     [Plain(k2) EXCEPT !.optimistic = TRUE, !.populate = TRUE],
     [Plain(k1) EXCEPT !.reupload = TRUE, !.wide = TRUE]}

(* Three builds of one cache with a fingerprint. *)
MCOptimists ==
    {[Plain(k) EXCEPT !.optimistic = TRUE, !.populate = TRUE] : k \in MCKeys}
MCOneFolder == {[p \in {1} |-> "x"]}
=============================================================================
