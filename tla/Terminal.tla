------------------------------- MODULE Terminal -------------------------------
(***************************************************************************)
(* The VGA text terminal: a history of MemHeight rows, a window of Height  *)
(* rows of it on the screen, and the place of the next character.          *)
(*                                                                         *)
(* One context prints at a time (the print lock, module Kprintf).  The     *)
(* keyboard's handler moves the window and the writing row too, on its own *)
(* core and without the lock, so its steps fall between those of a print   *)
(* of another core.  Rows are unsigned 32-bit numbers in the code; Modulus *)
(* stands for 2^32.                                                        *)
(***************************************************************************)
EXTENDS Integers, FiniteSetsExt

CONSTANTS
  Width, Height, MemHeight,  \* VGA_WIDTH, VGA_HEIGHT, VGA_MEM_HEIGHT
  TabStop,                   \* spaces a tab stands for, 4
  Modulus,                   \* size_t wraps here
  MaxKeys                    \* bound: keys the user presses

ASSUME TerminalAssumption ==
  /\ {Width, Height, MemHeight, TabStop, Modulus} \subseteq Nat \ {0}
  /\ Height < MemHeight /\ MemHeight + Height < Modulus
  /\ MaxKeys \in Nat

VARIABLES
  row, col, scroll,  \* current_write_row, current_write_column, scroll_row
  big,               \* big_scrollable_buffer
  vga,               \* the screen's memory
  putting,           \* where terminal_putchar is
  tabs,              \* spaces of a tab still to print
  seen,              \* current_write_row as terminal_increase_row loaded it, or
                     \* as terminal_putentryat was called with it
  key,               \* the key whose function runs, and where it is
  keys,              \* keys pressed so far (history)
  arrows,            \* an arrow key was among them (history)
  outside            \* a character was written outside the history (history)

place == <<row, col, scroll>>
cells == <<big, vga>>
printer == <<putting, tabs, seen>>
handler == <<key, keys, arrows>>
terminalVars == <<place, cells, printer, handler, outside>>

Rows == 0..MemHeight - 1
Columns == 0..Width - 1
Lines == 0..Height - 1

\* clear_visible_terminal writes the space and the colour into the wrong
\* halves: a cell that is neither blank nor a letter.
Blank == "blank"
Cleared == "cleared"
Letter == "letter"
Cell == {Blank, Cleared, Letter}

NoKey == [name |-> "none", at |-> 0]
KeyNames == {"arrow_up", "arrow_down", "ctrl_f", "ctrl_r"}

-----------------------------------------------------------------------------
(* The window                                                               *)

\* A sum or difference of two numbers of type size_t, as a size_t.
Size(n) == IF n < 0 THEN n + Modulus ELSE IF n >= Modulus THEN n - Modulus ELSE n

LastScroll == MemHeight - Height

\* A limit one row too far.
SetScrollFar(r) == IF Size(r) > LastScroll + 1 THEN LastScroll + 1 ELSE Size(r)

\* terminal_set_scroll's limit; row < 0 never holds of a size_t.
SetScroll(r) == IF Size(r) > LastScroll THEN LastScroll ELSE Size(r)

\* terminal_update_vga_mem
Window(b, s) == [y \in Lines |-> [x \in Columns |-> IF y + s \in Rows THEN b[y + s][x] ELSE Cleared]]

\* terminal_scroll_down, and up with a negative amount
ScrollBy(amount) ==
  /\ scroll' = SetScroll(scroll + amount)
  /\ vga' = Window(big, scroll')

\* initialize_terminal and the terminal_set_scroll(0) after it
TerminalInit ==
  /\ row = 0 /\ col = 0 /\ scroll = 0
  /\ big = [y \in Rows |-> [x \in Columns |-> Blank]]
  /\ vga = [y \in Lines |-> [x \in Columns |-> Blank]]
  /\ putting = "rest" /\ tabs = 0 /\ seen = 0
  /\ key = NoKey /\ keys = 0 /\ arrows = FALSE /\ outside = FALSE

-----------------------------------------------------------------------------
(* terminal_putchar                                                         *)

\* The next character: a tab becomes spaces up to the end of the row, a
\* newline only moves, the others are stored.
Char(c) ==
  /\ putting = "rest"
  /\ \/ c = "tab" /\ tabs' = Min({TabStop, Width - col}) /\ putting' = "put"
        /\ UNCHANGED col
     \/ c = "newline" /\ col' = 0 /\ putting' = "increase" /\ UNCHANGED tabs
     \/ c = "letter" /\ putting' = "put" /\ UNCHANGED <<col, tabs>>
  /\ UNCHANGED <<row, scroll, cells, seen, handler, outside>>

\* terminal_putentryat is called with the row of this moment, and stores the
\* character in the history.
Put ==
  /\ putting = "put"
  /\ LET what == IF tabs > 0 THEN Blank ELSE Letter
     IN big' = IF row \in Rows THEN [big EXCEPT ![row][col] = what] ELSE big
  /\ outside' = (outside \/ row \notin Rows)
  /\ tabs' = IF tabs > 0 THEN tabs - 1 ELSE 0
  /\ seen' = row
  /\ putting' = "show"
  /\ UNCHANGED <<place, vga, handler>>

\* Then the screen, if that row is on it now.  scroll_row is named three times,
\* between plain reads only: the build (-O3) loads it once.  The cell copied
\* to the screen is not the one just written unless the window is at the top.
Show ==
  /\ putting = "show"
  /\ LET line == Size(seen - scroll)
     IN vga' = IF line \in Lines THEN [vga EXCEPT ![line][col] = big[line][col]] ELSE vga
  /\ putting' = "column" /\ seen' = 0
  /\ UNCHANGED <<place, big, tabs, handler, outside>>

\* After the character: the next space of a tab, if any.
AfterRow == IF tabs > 0 THEN "put" ELSE "rest"

\* The next column, or the next row.
Column ==
  /\ putting = "column"
  /\ col' = IF col + 1 = Width THEN 0 ELSE col + 1
  /\ putting' = IF col + 1 = Width THEN "increase" ELSE AfterRow
  /\ UNCHANGED <<row, scroll, cells, tabs, seen, handler, outside>>

\* terminal_increase_row: the row is loaded, stored, compared with the window
\* and then with the end of the history.
Increase ==
  /\ putting = "increase"
  /\ seen' = row
  /\ putting' = "store"
  /\ UNCHANGED <<place, cells, tabs, handler, outside>>

Store ==
  /\ putting = "store"
  /\ row' = Size(seen + 1)
  /\ putting' = "scroll"
  /\ UNCHANGED <<col, scroll, cells, tabs, seen, handler, outside>>

\* Scrolling one row later than the code.
ScrollLate ==
  /\ putting = "scroll"
  /\ \/ Size(row - scroll) > Height + 1 /\ ScrollBy(1)
     \/ Size(row - scroll) <= Height + 1 /\ UNCHANGED <<scroll, vga>>
  /\ putting' = "wrap"
  /\ UNCHANGED <<row, col, big, tabs, seen, handler, outside>>

Scroll ==
  /\ putting = "scroll"
  /\ \/ Size(row - scroll) > Height /\ ScrollBy(1)
     \/ Size(row - scroll) <= Height /\ UNCHANGED <<scroll, vga>>
  /\ putting' = "wrap"
  /\ UNCHANGED <<row, col, big, tabs, seen, handler, outside>>

\* Starting over one row late.
WrapLate ==
  /\ putting = "wrap"
  /\ \/ /\ row > MemHeight
        /\ row' = 0 /\ col' = 0 /\ scroll' = SetScroll(0)
        /\ vga' = [y \in Lines |-> [x \in Columns |-> Cleared]]
     \/ row <= MemHeight /\ UNCHANGED <<place, vga>>
  /\ putting' = AfterRow /\ seen' = 0
  /\ UNCHANGED <<big, tabs, handler, outside>>

\* At the end of the history the terminal starts over at its top; the history
\* keeps its old text and the screen is cleared.
Wrap ==
  /\ putting = "wrap"
  /\ \/ /\ row >= MemHeight
        /\ row' = 0 /\ col' = 0 /\ scroll' = SetScroll(0)
        /\ vga' = [y \in Lines |-> [x \in Columns |-> Cleared]]
     \/ row < MemHeight /\ UNCHANGED <<place, vga>>
  /\ putting' = AfterRow /\ seen' = 0
  /\ UNCHANGED <<big, tabs, handler, outside>>

-----------------------------------------------------------------------------
(* The functions of the keys, called by the keyboard's interrupt handler    *)

Press(k) ==
  /\ key = NoKey /\ keys < MaxKeys
  /\ key' = [name |-> k, at |-> 1]
  /\ keys' = keys + 1
  /\ arrows' = (arrows \/ k \in {"arrow_up", "arrow_down"})
  /\ UNCHANGED <<place, cells, printer, outside>>

At(k, n) == key = [name |-> k, at |-> n]
GoTo(n) == key' = IF n = 0 THEN NoKey ELSE [key EXCEPT !.at = n]

\* terminal_arrow_up and terminal_arrow_down: move the row, and the window when
\* the row has left it.
MoveRow ==
  /\ \E m \in {<<"arrow_up", -1>>, <<"arrow_down", 1>>} :
       At(m[1], 1) /\ row' = Size(row + m[2])
  /\ GoTo(2)
  /\ UNCHANGED <<col, scroll>>

\* The row has left the window: it is put back on the window's edge, and the
\* window follows.
ClampRow ==
  \/ /\ At("arrow_up", 2)
     /\ \/ row < scroll /\ row' = scroll /\ GoTo(3)
        \/ row >= scroll /\ UNCHANGED row /\ GoTo(0)
     /\ UNCHANGED <<col, scroll>>
  \/ /\ At("arrow_down", 2)
     /\ \/ row > scroll + Height /\ row' = scroll + Height /\ GoTo(3)
        \/ row <= scroll + Height /\ UNCHANGED row /\ GoTo(0)
     /\ UNCHANGED <<col, scroll>>

FollowRow ==
  \/ At("arrow_up", 3) /\ ScrollBy(-1) /\ GoTo(0)
  \/ At("arrow_down", 3) /\ ScrollBy(1) /\ GoTo(0)

\* terminal_ctrl_f and terminal_ctrl_r: move the window, then the row with it.
MoveWindow ==
  /\ \/ At("ctrl_f", 1) /\ scroll + Height < MemHeight /\ ScrollBy(1)
     \/ At("ctrl_f", 1) /\ scroll + Height >= MemHeight /\ UNCHANGED <<scroll, vga>>
     \/ At("ctrl_r", 1) /\ scroll > 0 /\ ScrollBy(-1)
     \/ At("ctrl_r", 1) /\ scroll = 0 /\ UNCHANGED <<scroll, vga>>
  /\ GoTo(2)

RowFollows ==
  /\ \/ /\ At("ctrl_f", 2)
        /\ row' = IF row < scroll THEN scroll ELSE row
     \/ /\ At("ctrl_r", 2)
        /\ row' = IF row > scroll + Height THEN scroll + Height ELSE row
  /\ GoTo(0)
  /\ UNCHANGED <<col, scroll>>

KeyStep ==
  /\ \/ (MoveRow \/ ClampRow \/ RowFollows) /\ UNCHANGED vga
     \/ (FollowRow \/ MoveWindow) /\ UNCHANGED <<row, col>>
  /\ UNCHANGED <<big, printer, keys, arrows, outside>>

-----------------------------------------------------------------------------
PutChar == Put \/ Show \/ Column \/ Increase \/ Store \/ Scroll \/ Wrap

\* After a store outside the history anything may be overwritten, the fields of
\* the terminal among it: the behaviour ends there.
TerminalNext ==
  /\ ~outside
  /\ \/ \E c \in {"letter", "newline", "tab"} : Char(c)
     \/ PutChar
     \/ \E k \in KeyNames : Press(k)
     \/ KeyStep

TerminalSpec == TerminalInit /\ [][TerminalNext]_terminalVars

-----------------------------------------------------------------------------

\* terminal_update_vga_mem reads Height rows from scroll_row on: whatever keys
\* are pressed in the middle of whatever print, and although the row it is
\* computed from wraps, the window stays inside the history.
WindowInHistory == scroll \in 0..LastScroll

\* Printing alone, and printing across Ctrl-F and Ctrl-R, never stores a
\* character outside the history.
StoresInHistory == ~arrows => ~outside

\* Until a key moves the window, the line completed last is on the screen, and
\* the screen shows the window of the history, unless it has just been cleared.
LineIsShown ==
  keys = 0 /\ putting = "rest" =>
    /\ row > 0 => row - 1 \in scroll..scroll + Height - 1
    /\ \A y \in Lines, x \in Columns : vga[y][x] \in {big[y + scroll][x], Cleared}
=============================================================================
