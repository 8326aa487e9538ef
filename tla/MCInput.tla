------------------------------- MODULE MCInput -------------------------------
(***************************************************************************)
(* Strokes whose bytes occur in the longer sequences too: left shift (42)  *)
(* and keypad * (55) in print screen's, control (29) and num lock (69) in  *)
(* pause's; with shift, control, alt (56) and num lock held or on, print   *)
(* screen, pause and the cursor key (72) have other bytes.  Lines of all   *)
(* slopes for the mouse.                                                   *)
(***************************************************************************)
EXTENDS Input

Strokes(kind, codes) == [kind : {kind}, code : codes, press : BOOLEAN]
Pause == [kind |-> "pause", code |-> 0, press |-> TRUE]
NumLock == [kind |-> "plain", code |-> 69, press |-> TRUE]
LetterA == [kind |-> "plain", code |-> 30, press |-> TRUE]

Move(dx, dy, left, right) ==
  [dx |-> dx, dy |-> dy, left |-> left, right |-> right, overflow |-> FALSE]

MCKeys == Strokes("plain", {29, 30, 42, 55, 56, 69}) \cup Strokes("extended", {29, 72})
            \cup Strokes("print", {0}) \cup {Pause}

\* They are keys of the keyboard, as the theorem about their order asks.
ASSUME MCKeysHavePlaces == \A k \in MCKeys : <<k.kind, k.code>> \in Placed

Lines == {Move(4, -1, TRUE, FALSE), Move(-2, 1, TRUE, FALSE), Move(-2, -3, TRUE, FALSE),
          Move(1, -3, TRUE, FALSE)}
Others == {Move(1, -1, FALSE, TRUE), Move(200, 0, FALSE, FALSE),
           [Move(3, 0, FALSE, FALSE) EXCEPT !.overflow = TRUE]}
Sweep == {Move(-6, -1, FALSE, FALSE)}
MCMoves == Lines \cup Others \cup Sweep

MCTest == [thickness |-> 1, column |-> 4, row |-> 5, box |-> [x |-> 1, y |-> 1, w |-> 2, h |-> 2]]

MCPlans == {[keys |-> MCKeys, strokes |-> 3, moves |-> {}, packets |-> 0, loop |-> FALSE],
            [keys |-> {}, strokes |-> 0, moves |-> Lines \cup Others, packets |-> 2, loop |-> TRUE],
            [keys |-> {NumLock, LetterA}, strokes |-> 2,
             moves |-> Sweep, packets |-> 1, loop |-> FALSE]}
=============================================================================
