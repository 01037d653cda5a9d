------------------------- MODULE VirtualMachinesMC -------------------------
(* Two instances at a time on a host with room for two machines. *)
EXTENDS VirtualMachines

CONSTANTS i1, i2, v1, v2

MCInstances == {i1, i2}
MCMachines == {v1, v2}
MCOneInstance == {i1}
=============================================================================
