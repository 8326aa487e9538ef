-------------------------------- MODULE MCPit --------------------------------
(***************************************************************************)
(* The time unit is two PIT input clocks, which keeps the products of      *)
(* compute_pit_wait below 2^31: a cycle is 32768 units, a second 596591.   *)
(* The durations: zero, 1 ms and 1/144 s, which the kernel asks for, one   *)
(* cycle exactly, and two and a half cycles.                               *)
(***************************************************************************)
EXTENDS Pit

MCDurations == {0, 597, 4143, 32768, 81920}
=============================================================================
