------------------------------ MODULE MCSmpBoot ------------------------------
(***************************************************************************)
(* A boot core and three application cores, the boot core not the first of*)
(* the MADT.  The pauses and polls keep their order but are scaled down.   *)
(***************************************************************************)
EXTENDS SmpBoot

MCMadt == <<1, 0, 2, 3>>
MCDurations == {1, 2, 5}
=============================================================================
