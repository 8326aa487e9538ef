------------------------------- MODULE Keycodes -------------------------------
(***************************************************************************)
(* From scan codes to key codes and to what keycode_handler reports.  A    *)
(* key code is a place on the keyboard: how far right in which row.  The   *)
(* report is a line naming the key (Testing) or a character (Typing).      *)
(***************************************************************************)
EXTENDS Integers, Sequences, FiniteSets

Plain(a, b) == [i \in 1..(b - a + 1) |-> <<"plain", a + i - 1>>]
Extended(codes) == [i \in DOMAIN codes |-> <<"extended", codes[i]>>]
NoKey == <<<<"none", 0>>>>

\* The places of Key: a row from left to right, each key by its scan code.
Rows == <<
  Plain(1, 1) \o Plain(59, 68) \o Plain(87, 88) \o <<<<"print", 0>>>> \o Plain(70, 70) \o <<<<"pause", 0>>>>,
  Plain(41, 41) \o Plain(2, 14) \o Extended(<<82, 71, 73>>) \o Plain(69, 69) \o Extended(<<53>>)
    \o Plain(55, 55) \o Plain(74, 74),
  Plain(15, 27) \o Plain(43, 43) \o Extended(<<83, 79, 81>>) \o Plain(71, 73) \o Plain(78, 78),
  Plain(58, 58) \o Plain(30, 40) \o Plain(28, 28) \o Plain(75, 77),
  Plain(42, 42) \o Plain(44, 54) \o Extended(<<72>>) \o Plain(79, 81) \o Extended(<<28>>),
  Plain(29, 29) \o Extended(<<91>>) \o Plain(56, 57) \o Extended(<<56, 92, 93, 29, 75, 80, 77>>)
    \o Plain(82, 83),
  Extended(<<94, 95, 99, 34, 36, 16, 25, 48, 46, 32>>) \o NoKey \o NoKey
    \o Extended(<<33, 50, 101, 102, 103, 104, 105, 106, 107>>),
  Extended(<<108, 109>>) >>

KEY_INVALID == [right |-> 29, down |-> 7]   \* unpack_keycode(0xFD)

\* The tables ScanToKeyCode and ExtendedScanToKeyCode as init_scancodes_to_keycodes
\* fills them; a scan code without a key is invalid.
Place(kind, code) ==
  LET places == {p \in {<<d, r>> : d \in 1..8, r \in 1..21} :
                   p[2] \in DOMAIN Rows[p[1]] /\ Rows[p[1]][p[2]] = <<kind, code>>}
  IN IF places = {} THEN KEY_INVALID
     ELSE LET p == CHOOSE q \in places : TRUE IN [right |-> p[2] - 1, down |-> p[1] - 1]

ScanToKeyCode == [k \in {"plain", "extended", "print", "pause"} \X (0..127) |-> Place(k[1], k[2])]

pack_keycode(k) == k.down * 32 + k.right

\* The scan codes that have a key, and what the decoder relies on: it can tell a
\* press from a release by the byte, no two of them are packed alike, and what a
\* keyboard answers is none of them.  Evaluated.
Placed == {k \in DOMAIN ScanToKeyCode : ScanToKeyCode[k] # KEY_INVALID}

ASSUME PlacedKeys ==
  /\ \A k \in Placed :
       /\ k[1] = "plain" => k[2] \in 1..88
       /\ k[1] = "extended" => k[2] \in 16..109
       /\ k[1] = "print" => k[2] = 0
  /\ \A j, k \in Placed :
       pack_keycode(ScanToKeyCode[j]) = pack_keycode(ScanToKeyCode[k]) => j = k
  /\ {<<"plain", 122>>, <<"plain", 126>>} \cap Placed = {}

-----------------------------------------------------------------------------
(* The character table, Canadian French                                     *)

Letters == (16..25) \cup (30..38) \cup (44..50)
Printable == Letters \cup (2..13) \cup {15, 26, 27, 28, 39, 40, 41, 43, 51, 52, 53, 57}
AltgrAble == {3, 26, 27, 39, 40, 41, 43}

\* get_current_mod_state
Mods(pressed) ==
  [shift |-> {<<"plain", 42>>, <<"plain", 54>>} \cap pressed # {},
   altgr |-> <<"extended", 56>> \in pressed,
   caps  |-> <<"plain", 58>> \in pressed,
   other |-> {<<"plain", 29>>, <<"extended", 29>>, <<"extended", 91>>, <<"extended", 92>>,
              <<"plain", 56>>} \cap pressed # {}]

\* The column of KEY_CHAR_TABLE the character is taken from, "none" for 0.
key_to_char(code, mods) ==
  CASE code \notin AltgrAble /\ mods.altgr -> "none"
    [] ~(code \notin AltgrAble /\ mods.altgr) /\ mods.other -> "none"
    [] OTHER ->
         IF code \in Letters
         THEN CASE mods.shift /\ mods.caps -> "normal"
                [] ~mods.shift /\ mods.caps -> "caps"
                [] mods.shift /\ ~mods.caps -> "shift"
                [] OTHER -> "normal"
         ELSE CASE mods.altgr -> "altgr"
                [] ~mods.altgr /\ mods.shift -> "shift"
                [] OTHER -> "normal"

\* What keycode_handler reports of a key, as a sequence of at most one report.
keycode_handler(mode, kind, code, pressed, first, press) ==
  LET keycode == ScanToKeyCode[<<kind, code>>]
      key == pack_keycode(keycode)
  IN IF mode = "Testing"
     THEN <<[what |-> CASE keycode = KEY_INVALID -> "invalid"
                        [] keycode # KEY_INVALID /\ first -> "first"
                        [] keycode # KEY_INVALID /\ ~first /\ press -> "repeat"
                        [] OTHER -> "release",
             key |-> key]>>
     ELSE IF press /\ kind = "plain" /\ code \in Printable
          THEN <<[what |-> key_to_char(code, Mods(pressed)), key |-> key]>>
          ELSE <<>>
=============================================================================
