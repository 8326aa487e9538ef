----------------------------- MODULE MCPs2Setup -----------------------------
(***************************************************************************)
(* Controllers with one or two ports, every pair of devices.  The firmware *)
(* leaves a configuration byte without the POST bit (65), one with it (69) *)
(* or one with the mouse's interrupt on (71).  Of the bytes a device sends *)
(* by itself, 21 and 68 pass for a configuration byte (one stops the first *)
(* port's clock, one turns translation on), 3 passes for the identity of a *)
(* mouse and 0 for the answer of a port's test.                            *)
(***************************************************************************)
EXTENDS Ps2Setup
=============================================================================
