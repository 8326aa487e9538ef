----------------------------- MODULE Framebuffer -----------------------------
(***************************************************************************)
(* The frame buffer of the release build, which checks no coordinate: it   *)
(* is a stretch of memory in which a pixel past the end of a row is one of *)
(* the next row.  The drawing functions map that memory to the next.       *)
(***************************************************************************)
EXTENDS Integers, Sequences

CONSTANTS
  Width, Height,  \* of the screen, in pixels
  Pitch,          \* effective_pitch, the pixels of a row of memory
  Pixels,         \* bound: the pixels of memory modelled
  Test            \* where do_test draws: thickness 10, column 800, row 500
                  \* and the box at (50, 190) in the code

ASSUME FramebufferAssumption ==
  /\ {Width, Height, Pitch, Pixels} \subseteq Nat \ {0} /\ Width <= Pitch
  /\ Test \in [thickness : Nat, column : Nat, row : Nat, box : [x : Nat, y : Nat, w : Nat, h : Nat]]

-----------------------------------------------------------------------------
\* A color is four bytes, in memory one word.
Color(hex) == [b |-> hex % 256, g |-> (hex \div 256) % 256, r |-> (hex \div 65536) % 256,
               a |-> hex \div 16777216]
Packed(c) == c.a * 16777216 + c.r * 65536 + c.g * 256 + c.b

White == Color(16777215)

\* What memory past the pixels modelled holds.
Unknown == [White EXCEPT !.a = 255]

Cell(px, py) == py * Pitch + px

set_pixel(mem, px, py, color) ==
  IF Cell(px, py) \in DOMAIN mem THEN [mem EXCEPT ![Cell(px, py)] = Packed(color)] ELSE mem

get_pixel(mem, px, py) ==
  IF Cell(px, py) \in DOMAIN mem THEN Color(mem[Cell(px, py)]) ELSE Unknown

\* Many pixels in one color.
Paint(mem, points, color) ==
  LET cells == {Cell(p.x, p.y) : p \in points}
  IN [i \in DOMAIN mem |-> IF i \in cells THEN Packed(color) ELSE mem[i]]

Box(left, top, w, h) == [x : left .. left + w - 1, y : top .. top + h - 1]

-----------------------------------------------------------------------------
(* Straight figures                                                         *)

draw_horizontal_line(mem, top, x_start, x_end, color, thickness) ==
  Paint(mem, Box(x_start, top, x_end - x_start, thickness), color)

draw_vertical_line(mem, left, y_start, y_end, color, thickness) ==
  Paint(mem, Box(left, y_start, thickness, y_end - y_start), color)

draw_rectangle(mem, left, top, w, h, color) == Paint(mem, Box(left, top, w, h), color)

\* A red, a green and a blue line below each other.
draw_rgb_lines(mem, thickness, starting_y) ==
  LET draws(m, i, hex) ==
        draw_horizontal_line(m, i * thickness + starting_y, 0, Width, Color(hex), thickness)
  IN draws(draws(draws(mem, 0, 16711680), 1, 65280), 2, 255)

\* The picture kernel_main draws once it knows the frame buffer.
do_test(mem) ==
  LET lines == draw_rgb_lines(mem, Test.thickness, (Height \div 2) - (Test.thickness \div 2))
      box == draw_rectangle(lines, Test.box.x, Test.box.y, Test.box.w, Test.box.h, Color(16711935))
      column == draw_vertical_line(box, Test.column, 0, Height, Color(16776960), 2)
  IN draw_horizontal_line(column, Test.row, 0, Width, Color(3316980), 3)

-----------------------------------------------------------------------------
(* draw_line_quick                                                          *)

Distance(a, b) == IF a < b THEN b - a ELSE a - b
Larger(a, b) == IF a < b THEN b ELSE a

\* One axis at a time.
AdvanceOne(p, dx, dy) == [x |-> 2 * p.err > -dy, y |-> 2 * p.err < dx /\ ~(2 * p.err > -dy)]

\* The axes along which draw_line_quick goes on from a point.
Advance(p, dx, dy) == [x |-> 2 * p.err > -dy, y |-> 2 * p.err < dx]

\* The points draw_line_quick sets from a to b, in order; all of the first dx + dy
\* when it does not reach b.
draw_line_quick(a, b) ==
  LET dx == Distance(a.x, b.x)
      dy == Distance(a.y, b.y)
      sx == IF a.x < b.x THEN 1 ELSE -1
      sy == IF a.y < b.y THEN 1 ELSE -1
      step(p) == LET go == Advance(p, dx, dy)
                 IN [x |-> IF go.x THEN p.x + sx ELSE p.x,
                     y |-> IF go.y THEN p.y + sy ELSE p.y,
                     err |-> p.err - (IF go.x THEN dy ELSE 0) + (IF go.y THEN dx ELSE 0)]
      point[n \in 0..dx + dy] == IF n = 0 THEN [x |-> a.x, y |-> a.y, err |-> dx - dy]
                                ELSE step(point[n - 1])
      ends == {n \in 0..dx + dy : point[n].x = b.x /\ point[n].y = b.y}
      count == IF ends = {} THEN dx + dy ELSE CHOOSE n \in ends : \A m \in ends : n <= m
  IN [n \in 1..count + 1 |-> [x |-> point[n - 1].x, y |-> point[n - 1].y]]
=============================================================================
