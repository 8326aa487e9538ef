------------------------------ MODULE KeyDecoder ------------------------------
(***************************************************************************)
(* The keyboard's interrupt handler for scan code set 1: how the bytes of  *)
(* a keyboard become key presses and releases.  A key is one byte, two     *)
(* bytes after the prefix 0xE0, four (print screen) or six (pause).        *)
(*                                                                         *)
(* Pressing a lock key makes the handler send the LED command from inside  *)
(* the interrupt and poll for the keyboard's answer.  The answer comes     *)
(* through the same output buffer as the keys, and its interrupt is held   *)
(* back until the handler ends, which then runs again for it.              *)
(*                                                                         *)
(* This is the handler of port 1: the arrays behind prev, four, six and    *)
(* len have two elements and are indexed by the port number.               *)
(***************************************************************************)
EXTENDS Keycodes, OutputBuffer

CONSTANTS
  Keys,       \* key strokes the user may make
  MaxStrokes, \* bound: how many
  Modes       \* keyboard_mode: the builds, "Testing" or "Typing"

VARIABLES
  prev,    \* previous_extended_signal
  four,    \* four_long_sequence
  six,     \* six_long_sequence
  len,     \* current_sequence_length
  mode,    \* idle, or where set_leds is: before a send, before a read
  step,    \* set_leds sends the command (1), then the LEDs (2)
  tries,   \* response_count of send_data_to_ps2_keyboard
  lock,    \* the lock key being handled
  keyboard_mode,
  polled,  \* set_leds has polled for an answer (history)
  pressed, \* is_key_pressed, is_extended_key_pressed, is_print_screen_pressed
  strokes, \* what the user did, in order (history)
  altered, \* a held modifier changed the bytes of a stroke (history)
  events   \* what keycode_handler reported, in order (history)

decoder == <<prev, four, six, len>>
leds == <<mode, step, tries, lock, polled>>
user == <<strokes, altered>>
keyVars == <<decoder, leds, keyboard_mode, pressed, user, events>>

Kinds == {"plain", "extended", "print", "pause"}

\* No key has the codes that would end it in 0xE0 or 0xE1, and no extended key
\* the second bytes of print screen's.
ASSUME KeyAssumption ==
  /\ Keys \subseteq [kind : Kinds, code : (0..127) \ {96, 97}, press : BOOLEAN]
  /\ \A k \in Keys : k.kind = "extended" => k.code \notin {42, 55}
  /\ MaxStrokes \in Nat
  /\ Modes \subseteq {"Testing", "Typing"}

-----------------------------------------------------------------------------
Prefix == 224
PrintPressed == <<224, 42, 224, 55>>
PrintReleased == <<224, 183, 224, 170>>
PausePressed == <<225, 29, 69, 225, 157, 197>>

LockKeys == {58, 69, 70}   \* caps lock, num lock, scroll lock
Acknowledge == 250
Resend == 254
MaxResponseRepeat == 3

\* The bytes a keyboard in scan code set 1 sends for a stroke of its own.
Bytes(k) ==
  LET final == IF k.press THEN k.code ELSE k.code + 128
  IN CASE k.kind = "plain" -> <<final>>
       [] k.kind = "extended" -> <<Prefix, final>>
       [] k.kind = "print" -> IF k.press THEN PrintPressed ELSE PrintReleased
       [] k.kind = "pause" -> PausePressed

\* The keys down before the user's i-th stroke.
Down(i) ==
  {<<strokes[j].kind, strokes[j].code>> : j \in {n \in 1..i - 1 :
     /\ strokes[n].press
     /\ \A m \in n + 1..i - 1 : strokes[m] # [strokes[n] EXCEPT !.press = FALSE]}}

Shift == {<<"plain", 42>>, <<"plain", 54>>}
Control == {<<"plain", 29>>, <<"extended", 29>>}
Alt == {<<"plain", 56>>, <<"extended", 56>>}

\* The cursor keys and the block above them.
Grey == {71, 72, 73, 75, 77, 79, 80, 81, 82, 83}

\* The bytes it may send instead while a modifier is held or num lock may be
\* on: print screen and pause have other codes, and a grey key is enclosed in
\* the release of a held shift or in a shift the user never pressed.
Forms(k) ==
  LET held(keys) == Down(Len(strokes) + 1) \cap keys # {}
      enclosed(first, final) == IF k.press THEN <<Prefix, first>> \o Bytes(k)
                                ELSE Bytes(k) \o <<Prefix, final>>
  IN CASE k.kind = "print" /\ held(Alt) -> {IF k.press THEN <<84>> ELSE <<212>>}
       [] k.kind = "print" /\ ~held(Alt) /\ held(Shift \cup Control) ->
            {IF k.press THEN <<Prefix, 55>> ELSE <<Prefix, 183>>}
       [] k.kind = "pause" /\ held(Control) -> {<<Prefix, 70, Prefix, 198>>}
       [] k.kind = "extended" /\ k.code \in Grey ->
            {Bytes(k)} \cup (IF held(Shift) THEN {enclosed(170, 42)} ELSE {})
                       \cup (IF \E i \in DOMAIN strokes : strokes[i].code = 69
                             THEN {enclosed(42, 170)} ELSE {})
       [] OTHER -> {Bytes(k)}

KeyInit ==
  /\ keyboard_mode \in Modes
  /\ prev = FALSE /\ four = FALSE /\ six = FALSE /\ len = 0
  /\ mode = "idle" /\ step = 1 /\ tries = 0 /\ lock = 0 /\ polled = FALSE
  /\ pressed = {} /\ strokes = <<>> /\ altered = FALSE /\ events = <<>>

\* The user presses or releases a key; the keyboard queues its bytes.
Stroke(k) ==
  /\ Len(strokes) < MaxStrokes
  /\ \E s \in Forms(k) : Sends("keyboard", s) /\ altered' = (altered \/ s # Bytes(k))
  /\ strokes' = Append(strokes, k)
  /\ UNCHANGED <<buffer, pending, last, astray, decoder, leds, keyboard_mode, pressed, events>>

-----------------------------------------------------------------------------
(* keyboard_handler_scs1                                                    *)

\* The interrupt is taken outside any other.
Reads(b) ==
  /\ mode = "idle"
  /\ HandlerReads("keyboard", b)
  /\ UNCHANGED keyboard_mode

\* The keys recorded: is_key_pressed ends with F12, is_extended_key_pressed with
\* the last media key.  A code past the end is recorded outside the array.
Recorded(e) == \/ e.kind = "plain" /\ e.code <= 88
               \/ e.kind = "extended" /\ e.code <= 109
               \/ e.kind = "print"

\* A release that leaves the key recorded as pressed.
ParseKeeps(e) ==
  /\ events' = events \o keycode_handler(keyboard_mode, e.kind, e.code, pressed,
                                         e.press /\ <<e.kind, e.code>> \notin pressed, e.press)
  /\ pressed' = IF Recorded(e) THEN pressed \cup {<<e.kind, e.code>>} ELSE pressed

\* The parse functions: a press is recorded after keycode_handler, a release
\* before it.
Parse(e) ==
  LET key == <<e.kind, e.code>>
      handler(held, first) == keycode_handler(keyboard_mode, e.kind, e.code, held, first, e.press)
  IN \/ /\ e.press
        /\ events' = events \o handler(pressed, key \notin pressed)
        /\ pressed' = IF Recorded(e) THEN pressed \cup {key} ELSE pressed
     \/ /\ ~e.press
        /\ events' = events \o handler(IF e.kind = "print" THEN pressed ELSE pressed \ {key}, FALSE)
        /\ pressed' = pressed \ {key}

Quiet == UNCHANGED <<pressed, events>>

\* The prefix 0xE0 outside the longer sequences.
Prelude ==
  /\ Reads(Prefix) /\ ~four /\ ~six
  /\ prev' = TRUE
  /\ Quiet /\ UNCHANGED <<four, six, len, leds, user>>

\* The second byte of print screen after the prefix.
StartsPrint(b) == prev /\ b \in {PrintPressed[2], PrintReleased[2]}

StartPrint ==
  /\ ~four
  /\ \E b \in {PrintPressed[2], PrintReleased[2]} : Reads(b) /\ StartsPrint(b)
  /\ four' = TRUE /\ len' = 2 /\ prev' = FALSE
  /\ Quiet /\ UNCHANGED <<six, leds, user>>

\* Inside print screen's sequence; any other byte ends it.
InPrint ==
  /\ four
  /\ \E b \in {DataPort} :
       /\ Reads(b)
       /\ LET pressing == b = PrintPressed[len + 1]
              releasing == b = PrintReleased[len + 1]
          IN \/ /\ pressing \/ releasing
                /\ len = 3
                /\ four' = FALSE /\ len' = 0
                /\ Parse([kind |-> "print", code |-> 0, press |-> pressing])
             \/ /\ pressing \/ releasing
                /\ len # 3
                /\ len' = len + 1
                /\ Quiet /\ UNCHANGED four
             \/ /\ ~pressing /\ ~releasing
                /\ four' = FALSE /\ len' = 0
                /\ Quiet
  /\ prev' = FALSE
  /\ UNCHANGED <<six, leds, user>>

\* 0xE1, the first and the fourth byte of pause.
StartPause ==
  /\ ~four
  /\ Reads(PausePressed[1])
  /\ six' = TRUE /\ len' = len + 1 /\ prev' = FALSE
  /\ Quiet /\ UNCHANGED <<four, leds, user>>

\* The byte fits pause's sequence; past its end anything may fit.
FitsPause(b) == six /\ (len \in 0..5 => b = PausePressed[len + 1])

\* A sequence that does not start over at its end.
InPauseOn ==
  /\ ~four
  /\ \E b \in {DataPort} \ {PausePressed[1]} :
       /\ Reads(b) /\ ~StartsPrint(b) /\ FitsPause(b)
  /\ prev' = FALSE /\ len' = len + 1
  /\ Quiet /\ UNCHANGED <<four, six, leds, user>>

\* Pause's sequence; its end does not leave it.
InPause ==
  /\ ~four
  /\ \E b \in {DataPort} \ {PausePressed[1]} :
       /\ Reads(b) /\ ~StartsPrint(b) /\ FitsPause(b)
  /\ prev' = FALSE
  /\ \/ len = 5 /\ len' = 0 /\ Parse([kind |-> "pause", code |-> 0, press |-> TRUE])
     \/ len # 5 /\ len' = len + 1 /\ Quiet
  /\ UNCHANGED <<four, six, leds, user>>

\* Everything else: a key of one byte, or of two after the prefix.
Single(b) ==
  /\ ~four /\ (b = Prefix => six) /\ b # PausePressed[1]
  /\ ~StartsPrint(b) /\ ~(six /\ len \in 0..5 /\ b = PausePressed[len + 1])
  /\ Reads(b)
  /\ prev' = (b = Prefix)
  /\ LET extended == prev /\ ~six
         release == b >= IF extended THEN 144 ELSE 129
         e == [kind |-> IF extended THEN "extended" ELSE "plain",
               code |-> IF release THEN b - 128 ELSE b,
               press |-> ~release]
     IN \/ /\ e.kind = "plain" /\ e.press /\ e.code \in LockKeys
           /\ mode' = "send" /\ step' = 1 /\ tries' = 0 /\ lock' = e.code
           /\ UNCHANGED polled
           /\ Quiet
        \/ /\ ~(e.kind = "plain" /\ e.press /\ e.code \in LockKeys)
           /\ Parse(e)
           /\ UNCHANGED leds
  /\ UNCHANGED <<four, six, len, user>>

Key == Single(DataPort)

-----------------------------------------------------------------------------
(* set_leds, called by the function of a lock key                           *)

\* The lock key's function has returned, with or without an error.
Finish ==
  /\ Parse([kind |-> "plain", code |-> lock, press |-> TRUE])
  /\ mode' = "idle" /\ step' = 1 /\ tries' = 0 /\ lock' = 0

\* The keyboard's answer queues behind what it has sent already.
LedSend ==
  /\ mode = "send"
  /\ \E r \in Answers : Sends("keyboard", <<r>>)
  /\ mode' = "read" /\ polled' = TRUE
  /\ Quiet
  /\ UNCHANGED <<buffer, pending, last, astray, decoder, step, tries, lock, keyboard_mode, user>>

\* Whatever byte is in the buffer is taken for the answer.
LedRead ==
  /\ mode = "read" /\ buffer # Empty
  /\ ReadDataPort
  /\ LET b == buffer.byte
     IN \/ /\ b = Resend /\ tries + 1 < MaxResponseRepeat
           /\ mode' = "send" /\ tries' = tries + 1
           /\ Quiet /\ UNCHANGED <<step, lock>>
        \/ /\ b = Acknowledge /\ step = 1
           /\ mode' = "send" /\ step' = 2 /\ tries' = 0
           /\ Quiet /\ UNCHANGED lock
        \/ /\ \/ b = Resend /\ tries + 1 = MaxResponseRepeat
              \/ b = Acknowledge /\ step = 2
              \/ b \notin {Resend, Acknowledge}
           /\ Finish
  /\ astray' = (astray \/ buffer.device # "keyboard" \/ buffer.byte \notin Answers)
  /\ UNCHANGED <<pending, decoder, polled, keyboard_mode, user>>

\* set_leds gives up: it could not send, or the answer is late.
LedTimeout ==
  /\ mode \in {"send", "read"}
  /\ astray' = (astray \/ mode = "read")
  /\ Finish
  /\ UNCHANGED <<queue, buffer, pending, last, decoder, polled, keyboard_mode, user>>

-----------------------------------------------------------------------------
Interrupt == Prelude \/ StartPrint \/ InPrint \/ StartPause \/ InPause \/ Key
Leds == LedSend \/ LedRead \/ LedTimeout

-----------------------------------------------------------------------------
\* The keyboard's and the mouse's handlers read their own bytes whatever the
\* order of the two devices' bytes, until set_leds polls the buffer they share.
OwnBytes == astray => polled

\* The position in a sequence stays inside the sequence it indexes: print
\* screen's whatever bytes arrive, lost, foreign or read twice; that of pause,
\* which no byte but its last sets back, as long as no byte went astray.
SequenceIndexInBounds == /\ four => len \in {2, 3}
                         /\ six /\ ~astray => len \in 0..5

NoPause == \A i \in DOMAIN strokes : strokes[i].kind # "pause"

\* What the user's i-th stroke should be reported as, "nothing" for a stroke
\* that is not.
Expected(i) ==
  LET k == strokes[i]
      key == <<k.kind, k.code>>
      mods == Mods(Down(i))
  IN IF keyboard_mode = "Testing"
     THEN IF ~k.press THEN "release" ELSE IF key \in Down(i) THEN "repeat" ELSE "first"
     ELSE IF k.press /\ k.kind = "plain" /\ k.code \in Printable
          THEN CASE mods.other \/ (mods.altgr /\ k.code \notin AltgrAble) -> "none"
                 [] OTHER -> IF k.code \in Letters
                             THEN IF mods.shift = mods.caps THEN "normal"
                                  ELSE IF mods.caps THEN "caps" ELSE "shift"
                             ELSE IF mods.altgr THEN "altgr"
                                  ELSE IF mods.shift THEN "shift" ELSE "normal"
          ELSE "nothing"

\* The strokes to be reported, and the reports of valid keys.
Due == {i \in DOMAIN strokes : Expected(i) # "nothing"}
Reported == {n \in DOMAIN events : events[n].what # "invalid"}

\* The reports are those of the user's strokes, in their order and without a
\* gap, all of them once every byte is read, and a key code stands for one key.
Faithful ==
  \E of \in [Reported -> Due] :
    /\ \A n, m \in Reported : n < m => of[n] < of[m]
    /\ \A n \in Reported, i \in Due : i < of[n] => \E m \in Reported : of[m] = i
    /\ \A n \in Reported : events[n].what = Expected(of[n])
    /\ \A n, m \in Reported :
         (events[n].key = events[m].key) <=>
         (/\ strokes[of[n]].kind = strokes[of[m]].kind
          /\ strokes[of[n]].code = strokes[of[m]].code)
    /\ mode = "idle" /\ queue["keyboard"] = <<>> /\ buffer = Empty =>
         \A i \in Due : \E n \in Reported : of[n] = i

\* Every stroke of the user is reported once, in order, as what it was - the
\* first press of a key or a repeat, with the modifiers held at the time -
\* however the sequences of different keys share bytes and however fast they
\* come.  Three things end that: a Pause, a LED exchange that lost step, and a
\* stroke whose bytes a modifier changed.  The last is not decoded: 0xE0 0x37 is
\* no key of the tables, and 0xE0 0xB7 or 0xE0 0x2A alone begins print screen's
\* sequence, which then swallows a byte of the next stroke.
StrokesInOrder == NoPause /\ ~altered /\ ~astray => Faithful

=============================================================================
