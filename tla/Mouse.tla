-------------------------------- MODULE Mouse --------------------------------
(***************************************************************************)
(* The mouse's interrupt handler, which draws into the frame buffer, and   *)
(* the event loop of the boot core that shows the cursor there.  The       *)
(* handler interrupts the loop between any two of its accesses to          *)
(* g_mouse_prop.                                                           *)
(***************************************************************************)
EXTENDS OutputBuffer, FiniteSets, Framebuffer

CONSTANTS
  Moves,       \* what the user may do with the mouse in one packet
  MaxPackets   \* bound: packets

ASSUME MouseAssumption ==
  /\ Moves \subseteq [dx : -255..255, dy : -255..255, left : BOOLEAN, right : BOOLEAN,
                      overflow : BOOLEAN]
  /\ MaxPackets \in Nat

VARIABLES
  packet,      \* global_3_packet and packet_idx: the bytes of the packet so far
  x, y, pen,   \* g_mouse_prop: position and colour
  memory,      \* colour of each pixel
  at,          \* where the event loop is in LoopOrder
  read,        \* x as the loop has just read it
  current_color,
  old,         \* old_x, old_y and old_color, Nowhere on the first iteration
  moves,       \* what the user did, in order (history)
  line,        \* the points of the last line drawn, in order (history)
  picture,     \* the colours drawn, without the cursor (history)
  lost,        \* pixels a line crossed, in another colour, under the cursor (history)
  torn         \* the handler moved the cursor during an iteration (history)

mouseData == <<packet, x, y, pen, moves, line>>
loop == <<at, read, current_color, old>>
screen == <<memory, picture, lost, torn>>
mouseVars == <<mouseData, loop, screen>>

Nowhere == [x |-> 0, y |-> 0, color |-> White, first |-> TRUE]

MouseInit ==
  /\ packet = <<>> /\ x = 0 /\ y = 0 /\ pen = White
  /\ memory = do_test([i \in 0..Pixels - 1 |-> i]) /\ picture = memory
  /\ at = 1 /\ read = 0 /\ current_color = White /\ old = Nowhere
  /\ moves = <<>> /\ line = <<>> /\ lost = {} /\ torn = FALSE

-----------------------------------------------------------------------------
(* The mouse                                                                *)

Flag(b, i) == IF b THEN 2 ^ i ELSE 0

\* The three bytes of a packet: buttons, the bit that is always one, the signs
\* and the overflows, then the low bytes of the movement.
Encode(m) ==
  <<8 + Flag(m.left, 0) + Flag(m.right, 1) + Flag(m.dx < 0, 4) + Flag(m.dy < 0, 5)
      + Flag(m.overflow, 6) + Flag(m.overflow, 7),
    m.dx % 256, m.dy % 256>>

MoveMouse(m) ==
  /\ Len(moves) < MaxPackets
  /\ moves' = Append(moves, m)
  /\ Sends("mouse", Encode(m))
  /\ UNCHANGED <<buffer, pending, last, astray, packet, x, y, pen, line, loop, screen>>

-----------------------------------------------------------------------------
(* mouse_handler                                                            *)

Bit(b, i) == (b \div 2 ^ i) % 2 = 1

\* The sign is taken from the byte, not from the flags.
sign_extend_byte(val, sign) == IF val > 127 THEN val - 256 ELSE val

sign_extend(val, sign) == IF sign THEN val - 256 ELSE val

Int16(v) == ((v + 32768) % 65536) - 32768
NotBelowZero(v) == IF v < 0 THEN 0 ELSE v

\* The last byte of a packet: the position, then a line, then the pen.
Complete(p) ==
  LET dx == IF Bit(p[1], 6) THEN 0 ELSE sign_extend(p[2], Bit(p[1], 4))
      dy == IF Bit(p[1], 7) THEN 0 ELSE sign_extend(p[3], Bit(p[1], 5))
      from == [x |-> x, y |-> y]
      to == [x |-> NotBelowZero(Int16(x + dx)), y |-> NotBelowZero(Int16(y - dy))]
      points == IF Bit(p[1], 0) THEN draw_line_quick(from, to) ELSE <<>>
      drawn == {points[n] : n \in DOMAIN points}
      cells == {Cell(q.x, q.y) : q \in drawn}
      under == IF old.first THEN -1 ELSE Cell(old.x, old.y)
  IN /\ x' = to.x /\ y' = to.y
     /\ memory' = Paint(memory, drawn, pen)
     /\ pen' = IF Bit(p[1], 1) THEN get_pixel(memory', to.x + 1, to.y) ELSE pen
     /\ line' = [from |-> from, to |-> to, points |-> points]
     /\ picture' = Paint(picture, drawn, pen)
     /\ lost' = (lost \ (cells \ {under}))
                  \cup {i \in {under} \cap DOMAIN picture : picture'[i] # picture[i]}
     /\ torn' = (torn \/ at # 1)
     /\ packet' = <<>>

mouse_handler ==
  /\ HandlerReads("mouse", DataPort)
  /\ LET p == Append(packet, DataPort)
     IN \/ Len(p) = 3 /\ Complete(p)
        \/ Len(p) < 3 /\ packet' = p /\ UNCHANGED <<x, y, pen, line, screen>>
  /\ UNCHANGED <<moves, loop>>

-----------------------------------------------------------------------------
(* cpp_event_loop                                                           *)

\* The pixel under the cursor is read before the old one is put back.
LoopOrderSwapped == <<"get x", "get y", "restore", "set x", "set y", "old x", "old y">>

LoopOrder == <<"restore", "get x", "get y", "set x", "set y", "old x", "old y">>

cpp_event_loop ==
  /\ at' = IF at = Len(LoopOrder) THEN 1 ELSE at + 1
  /\ LET step == LoopOrder[at]
     IN /\ memory' = CASE step = "restore" /\ ~old.first ->
                            set_pixel(memory, old.x, old.y, old.color)
                       [] step = "set y" -> set_pixel(memory, read, y, White)
                       [] OTHER -> memory
        /\ read' = IF step \in {"get x", "set x"} THEN x ELSE read
        /\ current_color' = IF step = "get y" THEN get_pixel(memory, read, y)
                            ELSE current_color
        /\ old' = CASE step = "old x" -> [old EXCEPT !.x = x]
                    [] step = "old y" -> [x |-> old.x, y |-> y, color |-> current_color,
                                          first |-> FALSE]
                    [] OTHER -> old
  /\ UNCHANGED <<port, mouseData, picture, lost, torn>>

-----------------------------------------------------------------------------
\* Where the user's first n moves lead: the left and upper edges stop the
\* cursor, a movement too long for the mouse to count is none.
Walk(n) ==
  LET pos[i \in 0..n] ==
        IF i = 0 THEN <<0, 0>>
        ELSE IF moves[i].overflow THEN pos[i - 1]
        ELSE <<NotBelowZero(pos[i - 1][1] + moves[i].dx), NotBelowZero(pos[i - 1][2] - moves[i].dy)>>
  IN pos[n]

\* The handler keeps in step with the mouse's packets of three bytes, and the
\* cursor is where the user has moved it, as long as every reader got its own
\* bytes.
CursorFollowsMouse ==
  ~astray =>
    LET sent == 3 * Len(moves) - Len(queue["mouse"]) - IF buffer.device = "mouse" THEN 1 ELSE 0
    IN Len(packet) = sent % 3 /\ <<x, y>> = Walk(sent \div 3)

\* "The order is important": between two iterations of the event loop every
\* pixel but the cursor's has the colour drawn there, and the loop remembers
\* the colour under the cursor.  Two things break that: a packet in the middle
\* of an iteration, and a line that crosses the cursor's own pixel in another
\* colour, which the loop's next old_color paints over; such a pixel stays wrong
\* until it is drawn again, and no other pixel goes wrong with it.
CursorLeavesNoTrace ==
  at = 1 /\ ~torn =>
    LET under == IF old.first THEN -1 ELSE Cell(old.x, old.y)
    IN /\ \A i \in DOMAIN memory \ (lost \cup {under}) : memory[i] = picture[i]
       /\ under \in DOMAIN memory \ lost => old.color = Color(picture[under])

\* A line drawn by the handler is a line: from end to end without a gap or a
\* detour, no point further than half a pixel from the straight one.
LineIsStraight ==
  line # <<>> /\ line.points # <<>> =>
    LET ps == line.points
        DX == line.to.x - line.from.x
        DY == line.to.y - line.from.y
        longest == Larger(Distance(DX, 0), Distance(DY, 0))
    IN /\ ps[1] = line.from /\ ps[Len(ps)] = line.to /\ Len(ps) = longest + 1
       /\ \A n \in 1..Len(ps) - 1 : /\ Distance(ps[n].x, ps[n + 1].x) <= 1
                                    /\ Distance(ps[n].y, ps[n + 1].y) <= 1
       /\ \A n \in DOMAIN ps :
            2 * Distance((ps[n].x - line.from.x) * DY, (ps[n].y - line.from.y) * DX) <= longest
=============================================================================
