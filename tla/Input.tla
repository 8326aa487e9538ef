-------------------------------- MODULE Input --------------------------------
(***************************************************************************)
(* The keyboard's handler, the mouse's handler and the event loop on the   *)
(* boot core, one user at both devices.  A handler runs with interrupts    *)
(* off: between the steps of set_leds nothing else runs on the core.       *)
(***************************************************************************)
EXTENDS KeyDecoder, Mouse

CONSTANT
  Plans   \* bound: what the user may do, [keys, strokes, moves, packets], and
          \* whether the event loop is followed

ASSUME InputAssumption ==
  Plans \subseteq [keys : SUBSET Keys, strokes : Nat, moves : SUBSET Moves, packets : Nat,
                   loop : BOOLEAN]

VARIABLE plan

vars == <<port, keyVars, mouseVars, plan>>

Init == PortInit /\ KeyInit /\ MouseInit /\ plan \in Plans

User ==
  \/ /\ Len(strokes) < plan.strokes
     /\ \E k \in plan.keys : Stroke(k)
     /\ UNCHANGED mouseVars
  \/ /\ Len(moves) < plan.packets
     /\ \E m \in plan.moves : MoveMouse(m)
     /\ UNCHANGED keyVars

Wire == (\E d \in Devices : Transfer(d)) /\ UNCHANGED <<keyVars, mouseVars>>

Keyboard == (Interrupt \/ Leds) /\ UNCHANGED mouseVars

MouseInterrupt == mode = "idle" /\ mouse_handler /\ UNCHANGED keyVars

Loop ==
  /\ mode = "idle" /\ plan.loop
  /\ cpp_event_loop /\ UNCHANGED keyVars

Next == (User \/ Wire \/ Keyboard \/ MouseInterrupt \/ Loop) /\ UNCHANGED plan

Spec == Init /\ [][Next]_vars
=============================================================================
