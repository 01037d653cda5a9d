---------------------------- MODULE ScriptStepMC ----------------------------
(* A script that writes two chunks, and a channel with room for one. *)
EXTENDS ScriptStep

MCModes == {"kill", "escape", "background"}
=============================================================================
