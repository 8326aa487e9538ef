---------------------------- MODULE KeyboardSetup ----------------------------
(***************************************************************************)
(* setup_keyboard, the other commands of the keyboard driver, and the      *)
(* IOAPIC taking over from the PICs, while keys are typed and the mouse    *)
(* moves.                                                                  *)
(*                                                                         *)
(* A command is a few bytes sent to the keyboard, each answered by one     *)
(* byte.  The driver polls for the answer with interrupts on: the mouse's  *)
(* handler may take the byte the driver has just waited for, the driver    *)
(* may take the mouse's, and a key may be taken for an answer.  A read of  *)
(* the empty output buffer returns the byte before.                        *)
(***************************************************************************)
EXTENDS IrqChips, Sequences, FiniteSets

CONSTANTS
  Machines,  \* device of each port: "keyboard" or "mouse"
  Commands,  \* the sequences of commands a caller may run between set-up and
             \* take-over
  MaxKeys,   \* bound: keys typed
  MaxMoves,  \* bound: bytes the mouse sends
  MaxLate    \* bound: sends that fail and answers the driver gives up on too soon

VARIABLES
  devices,  \* the machine
  todo,     \* operations the kernel has still to do
  mode,     \* "op", or where send_data_to_ps2_keyboard is: "send", "wait",
            \* "read", and "wait2", "read2" for a second answer
  left,     \* bytes of the command still to send
  tries,    \* response_count
  active,   \* kps.active_scancode_set
  kb,       \* the keyboard: its set, whether it scans, the command whose data
            \* it awaits
  queue,    \* bytes each device has not handed over
  buffer,   \* the output buffer, Empty or a byte and its port
  last,     \* the byte read last
  typed, moved, late,  \* counts for the bounds
  stopped,  \* why the kernel stopped: "no", "assert", "set" or "fault"
  failed,   \* a command failed in a way that leaves the keyboard off (history)
  missed,   \* a byte was waiting when its line was routed (history)
  astray,   \* an answer may come that nobody waits for, or another byte was read
            \* for it, or set-up failed (history)
  reverted  \* the keyboard was told to go back to its own set since active was
            \* set (history)

driver == <<todo, mode, left, tries, active>>
device == <<kb, queue, typed, moved, late>>
wires == <<buffer, last>>
vars == <<devices, driver, device, wires, stopped, failed, missed, astray, reverted, chips>>

Ports == {1, 2}
Empty == [port |-> 0, byte |-> "none"]

\* The keyboard the driver talks to: quick or single set-up, none for two.
KeyboardPorts == {p \in DOMAIN devices : devices[p] = "keyboard"}
initialized == Cardinality(KeyboardPorts) = 1
port == CHOOSE p \in KeyboardPorts : TRUE

-----------------------------------------------------------------------------
(* Commands                                                                 *)

\* The bytes each function sends.  Both scanning commands send the one that
\* enables it.
enable_scanning == <<"enable">>
disable_scanning == <<"enable">>
set_scan_code_set(set) == <<"set", set>>
get_scan_code_set == <<"set", "0">>
set_leds == <<"leds", "data">>
set_typematic == <<"typematic", "data">>
set_specific_key == <<"specific", "data">>
set_all_keycode == <<"plain">>
set_default_parameters == <<"defaults">>
echo_keyboard == <<"echo">>
resend_last_byte == <<"resend">>
reset_and_self_test == <<"reset">>

\* set_all_keycode_to_make_only asks for the set first.
Script(op) ==
  CASE op = "enable_scanning" -> enable_scanning
    [] op = "disable_scanning" -> disable_scanning
    [] op = "set_scan_code_set_1" -> set_scan_code_set("1")
    [] op = "set_scan_code_set_3" -> set_scan_code_set("3")
    [] op \in {"get_scan_code_set", "make_only"} -> get_scan_code_set
    [] op = "set_leds" -> set_leds
    [] op = "set_typematic" -> set_typematic
    [] op = "set_specific_key" -> set_specific_key
    [] op \in {"set_all_keycode", "make_only_2"} -> set_all_keycode
    [] op = "set_default_parameters" -> set_default_parameters
    [] op = "echo_keyboard" -> echo_keyboard
    [] op = "resend_last_byte" -> resend_last_byte
    [] op = "reset_and_self_test" -> reset_and_self_test

\* The gate is taken away before the line is masked.
disable_keyboard_swapped == <<"absent", "mask", "disable_scanning">>

Getters == {"get_scan_code_set", "make_only", "reset_and_self_test"}
Reverting == {"reset_and_self_test", "set_default_parameters"}
WithData == {"set", "leds", "typematic", "specific"}
Exchanges == {"enable_scanning", "disable_scanning", "set_scan_code_set_1", "set_scan_code_set_3",
              "get_scan_code_set", "make_only", "make_only_2", "set_leds", "set_typematic",
              "set_specific_key", "echo_keyboard", "resend_last_byte", "reset_and_self_test",
              "set_default_parameters", "set_all_keycode"}

disable_keyboard == <<"mask", "absent", "disable_scanning">>

enable_keyboard == <<"enable_scanning", "present", "unmask">>

setup_keyboard == <<"initialized">> \o disable_keyboard
                    \o <<"set_scan_code_set_1", "set_leds">> \o enable_keyboard

\* Commands between disable_keyboard and enable_keyboard, as the driver's test
\* runs them.
Use(commands) == disable_keyboard \o commands \o enable_keyboard

\* setup_keyboard alone handles an error of set_scan_code_set_1, and make_only_2
\* is what make_only goes on with.
ASSUME KeyboardSetupAssumption ==
  /\ Machines \subseteq UNION {[1..n -> {"keyboard", "mouse"}] : n \in 0..2}
  /\ Commands \subseteq Seq(Exchanges \ {"set_scan_code_set_1", "make_only_2"})
  /\ {MaxKeys, MaxMoves, MaxLate} \subseteq Nat

\* multicore_setup
take_over == <<"lapic", "route 1", "route 12">>

\* Before setup_keyboard, or after one that met with no trouble.
Init ==
  /\ devices \in Machines
  /\ \/ /\ todo = setup_keyboard \o take_over
        /\ active = 0
        /\ kb = [set |-> 2, scanning |-> TRUE, awaits |-> "none"]
     \/ /\ initialized
        /\ \E cs \in Commands : todo = Use(cs) \o take_over
        /\ active = 1
        /\ kb = [set |-> 1, scanning |-> TRUE, awaits |-> "none"]
  /\ mode = "op" /\ left = <<>> /\ tries = 0
  /\ queue = [p \in Ports |-> <<>>]
  /\ buffer = Empty /\ last = "none"
  /\ typed = 0 /\ moved = 0 /\ late = 0
  /\ stopped = "no" /\ failed = FALSE /\ missed = FALSE
  /\ astray = FALSE /\ reverted = FALSE
  /\ ChipsInit(devices)

-----------------------------------------------------------------------------
(* The devices                                                              *)

\* A key is typed, or the mouse moves: a byte of its packets has any value, the
\* one of an acknowledgement too.
Key(p) ==
  /\ devices[p] = "keyboard" /\ kb.scanning /\ typed < MaxKeys
  /\ queue' = [queue EXCEPT ![p] = Append(@, "key")]
  /\ typed' = typed + 1
  /\ UNCHANGED <<devices, driver, kb, moved, late, wires, stopped, failed, missed, astray, reverted, chips>>

Move(p) ==
  /\ devices[p] = "mouse" /\ moved < MaxMoves
  /\ \E b \in {"move", "ack"} : queue' = [queue EXCEPT ![p] = Append(@, b)]
  /\ moved' = moved + 1
  /\ UNCHANGED <<devices, driver, kb, typed, late, wires, stopped, failed, missed, astray, reverted, chips>>

\* The controller takes the next byte of a port and raises the port's line.
Transfer(p) ==
  /\ buffer = Empty /\ queue[p] # <<>>
  /\ buffer' = [port |-> p, byte |-> Head(queue[p])]
  /\ queue' = [queue EXCEPT ![p] = Tail(@)]
  /\ Raise(LineOf(p))
  /\ UNCHANGED <<devices, driver, kb, typed, moved, late, last, stopped, failed, missed, astray, reverted>>

\* What the keyboard becomes and answers on a byte it understood.  Reset and
\* defaults bring its own scan code set back; while it awaits data it takes
\* anything for that.
Obeys(b) ==
  CASE kb.awaits = "set" /\ b # "0" ->
         <<[kb EXCEPT !.awaits = "none", !.set = CASE b = "1" -> 1 [] b = "3" -> 3 [] OTHER -> @],
           <<"ack">>>>
    [] kb.awaits = "set" /\ b = "0" ->
         <<[kb EXCEPT !.awaits = "none"], <<"ack", IF kb.set = 3 THEN "set 3" ELSE "other set">>>>
    [] kb.awaits \notin {"set", "none"} -> <<[kb EXCEPT !.awaits = "none"], <<"ack">>>>
    [] OTHER ->
         CASE b \in WithData -> <<[kb EXCEPT !.awaits = b], <<"ack">>>>
           [] b = "echo" -> <<kb, <<"echo">>>>
           [] b = "reset" -> <<[kb EXCEPT !.set = 2, !.scanning = TRUE], <<"ack", "passed">>>>
           [] b = "defaults" -> <<[kb EXCEPT !.set = 2, !.scanning = TRUE], <<"ack">>>>
           [] b = "enable" -> <<[kb EXCEPT !.scanning = TRUE], <<"ack">>>>
           [] b \in {"plain", "resend"} -> <<kb, <<"ack">>>>
           [] OTHER -> <<kb, <<"resend">>>>

-----------------------------------------------------------------------------
(* send_data_to_ps2_keyboard                                                *)

\* The byte reaches the keyboard, which answers it or asks for it again.
Send ==
  /\ mode = "send"
  /\ \/ /\ kb' = Obeys(Head(left))[1]
        /\ queue' = [queue EXCEPT ![port] = @ \o Obeys(Head(left))[2]]
     \/ /\ queue' = [queue EXCEPT ![port] = Append(@, "resend")]
        /\ UNCHANGED kb
  /\ mode' = "wait"
  /\ UNCHANGED <<devices, todo, left, tries, active, typed, moved, late, wires, stopped, failed, missed,
                 astray, reverted, chips>>

\* The byte being read is not the keyboard's.
Strange == mode \in {"read", "read2"} /\ buffer.port # port

\* The command at the head of todo has ended; what its caller does with it.
\* An error of set_scan_code_set leaves setup_keyboard with the keyboard off,
\* one in the driver's test aborts; the others are ignored.  In doubt, an answer
\* may still come.
Ends(ok, doubt) ==
  LET op == Head(todo)
  IN /\ \/ ok /\ op = "make_only" /\ todo' = <<"make_only_2">> \o Tail(todo)
        \/ ~ok /\ op = "set_scan_code_set_1" /\ todo' = SubSeq(todo, 6, Len(todo))
        \/ ~(ok /\ op = "make_only") /\ ~(~ok /\ op = "set_scan_code_set_1") /\ todo' = Tail(todo)
     /\ active' = IF ok /\ op = "set_scan_code_set_1" THEN 1
                  ELSE IF ok /\ op = "set_scan_code_set_3" THEN 3 ELSE active
     /\ stopped' = IF ~ok /\ op \in {"set_scan_code_set_3", "make_only"} THEN "assert" ELSE stopped
     /\ astray' = (astray \/ doubt \/ (~ok /\ op = "set_scan_code_set_1") \/ Strange)
     /\ reverted' = (reverted /\ ~(ok /\ op \in {"set_scan_code_set_1", "set_scan_code_set_3"}))
     /\ failed' = (failed \/ (~ok /\ op = "set_scan_code_set_1"))
     /\ mode' = "op" /\ left' = <<>> /\ tries' = 0

\* The byte could not be sent, or no answer came in time: none is under way, or
\* it will come late.
GiveUp ==
  /\ mode \in {"send", "wait", "wait2"}
  /\ \/ mode # "send" /\ queue[port] = <<>> /\ buffer = Empty /\ UNCHANGED late
     \/ (mode = "send" \/ queue[port] # <<>>) /\ late < MaxLate /\ late' = late + 1
  /\ Ends(FALSE, mode # "send" /\ queue[port] # <<>>)
  /\ UNCHANGED <<devices, kb, queue, typed, moved, wires, missed, chips>>

\* wait_till_ready_for_response sees a byte, of whichever device.
Wait ==
  /\ mode \in {"wait", "wait2"} /\ buffer # Empty
  /\ mode' = IF mode = "wait" THEN "read" ELSE "read2"
  /\ UNCHANGED <<devices, todo, left, tries, active, device, wires, stopped, failed, missed, astray, reverted, chips>>

\* Reading the data port empties the buffer, and repeats the last byte when
\* another reader was faster.
ReadPort ==
  /\ last' = IF buffer = Empty THEN last ELSE buffer.byte
  /\ buffer' = Empty

\* response_count does not count.
NextTryLost == tries

NextTry == tries + 1

\* The third request to resend ends the loop as an acknowledgement would.
AcknowledgedAtLast(b) == b = "ack" \/ (b = "resend" /\ tries = 2)

Acknowledged(b) == b = "ack"

Read ==
  /\ mode = "read"
  /\ ReadPort
  /\ LET b == last'
         op == Head(todo)
     IN \/ /\ b = "resend" /\ tries < 2
           /\ tries' = NextTry /\ mode' = "send"
           /\ astray' = (astray \/ Strange)
           /\ UNCHANGED <<todo, left, active, stopped, failed, reverted>>
        \/ /\ Acknowledged(b) /\ Len(left) > 1
           /\ left' = Tail(left) /\ tries' = 0 /\ mode' = "send"
           /\ astray' = (astray \/ Strange)
           /\ UNCHANGED <<todo, active, stopped, failed, reverted>>
        \/ /\ Acknowledged(b) /\ Len(left) = 1 /\ op \in Getters
           /\ mode' = "wait2"
           /\ astray' = (astray \/ Strange)
           /\ UNCHANGED <<todo, left, tries, active, stopped, failed, reverted>>
        \/ /\ Acknowledged(b) /\ Len(left) = 1 /\ op \notin Getters
           /\ Ends(TRUE, FALSE)
        \/ /\ ~Acknowledged(b) /\ ~(b = "resend" /\ tries < 2)
           /\ Ends(op = "echo_keyboard" /\ b = "echo", b \notin {"echo", "resend"})
  /\ UNCHANGED <<devices, device, missed, chips>>

\* The value a getter asked for, or the result of the self test.
Read2 ==
  /\ mode = "read2"
  /\ ReadPort
  /\ LET ok == CASE Head(todo) = "make_only" -> last' = "set 3"
                 [] Head(todo) = "reset_and_self_test" -> last' = "passed"
                 [] OTHER -> last' \in {"set 3", "other set"}
     IN Ends(ok, ~ok)
  /\ UNCHANGED <<devices, device, missed, chips>>

-----------------------------------------------------------------------------
(* The kernel's operations between commands                                 *)

\* The entry of the second port is written to the first one's line again.
ChipOpOneLine(op) ==
  CASE op = "mask" -> IRQ_set_mask(port)
    [] op = "unmask" -> IRQ_clear_mask(port)
    [] op = "absent" -> disable_idt_entry(VectorOf(LineOf(port)))
    [] op = "present" -> enable_idt_entry(VectorOf(LineOf(port)))
    [] op = "lapic" -> init_lapic
    [] op \in {"route 1", "route 12"} -> write_redirection(1)

\* IRQ_set_mask and IRQ_clear_mask are given the port's number: for port 2 that
\* is the cascade.
ChipOp(op) ==
  CASE op = "mask" -> IRQ_set_mask(port)
    [] op = "unmask" -> IRQ_clear_mask(port)
    [] op = "absent" -> disable_idt_entry(VectorOf(LineOf(port)))
    [] op = "present" -> enable_idt_entry(VectorOf(LineOf(port)))
    [] op = "lapic" -> init_lapic
    [] op = "route 1" -> write_redirection(1)
    [] op = "route 12" -> write_redirection(12)

Operate ==
  /\ mode = "op" /\ todo # <<>> /\ Head(todo) \notin Exchanges \cup {"initialized"}
  /\ ChipOp(Head(todo))
  /\ missed' = (missed \/ \E p \in Ports : /\ buffer.port = p
                                           /\ LineOf(p) \in routed' \ routed)
  /\ todo' = Tail(todo)
  /\ UNCHANGED <<devices, mode, left, tries, active, device, wires, stopped, failed, astray, reverted>>

\* assert(kps.initialized)
Initialized ==
  /\ mode = "op" /\ todo # <<>> /\ Head(todo) = "initialized"
  /\ stopped' = IF initialized THEN stopped ELSE "assert"
  /\ todo' = Tail(todo)
  /\ UNCHANGED <<devices, mode, left, tries, active, device, wires, failed, missed, astray, reverted, chips>>

Begin ==
  /\ mode = "op" /\ todo # <<>> /\ Head(todo) \in Exchanges
  /\ left' = Script(Head(todo)) /\ mode' = "send"
  /\ reverted' = (reverted \/ Head(todo) \in Reverting)
  /\ UNCHANGED <<devices, todo, tries, active, device, wires, stopped, failed, missed, astray, chips>>

-----------------------------------------------------------------------------
\* The handlers end their interrupt, but keyboard_handler_scs3, which serves sets
\* 2 and 3.
SendsEoi(p) == devices[p] = "keyboard" => active = 1

\* An interrupt: without a gate it is a fault; the keyboard's handler gives up
\* on a scan code set it does not know; both read the data port.
Interrupt(p) ==
  /\ Take(LineOf(p), SendsEoi(p))
  /\ \/ /\ VectorOf(LineOf(p)) \notin present
        /\ stopped' = "fault"
        /\ UNCHANGED wires
     \/ /\ VectorOf(LineOf(p)) \in present
        /\ stopped' = IF devices[p] = "keyboard" /\ active = 0 THEN "set" ELSE stopped
        /\ ReadPort
  /\ UNCHANGED <<devices, driver, device, failed, missed, astray, reverted>>

Kernel == Initialized \/ Operate \/ Begin \/ Send \/ GiveUp \/ Wait \/ Read \/ Read2
User == \E p \in DOMAIN devices : Key(p) \/ Move(p)
Wire == \E p \in DOMAIN devices : Transfer(p)
Interrupted == \E p \in DOMAIN devices : Interrupt(p)

Next == stopped = "no" /\ (Kernel \/ User \/ Wire \/ Interrupted)

\* The kernel runs on, its polling loops are bounded, a byte is handed over when
\* the buffer is free and a pending interrupt is taken: interrupts stay on.
Fairness ==
  /\ WF_vars(stopped = "no" /\ Kernel)
  /\ WF_vars(stopped = "no" /\ Wire)
  /\ WF_vars(stopped = "no" /\ Interrupted)

Spec == Init /\ [][Next]_vars /\ Fairness

-----------------------------------------------------------------------------
Running == todo = <<>> /\ stopped = "no"

\* "Using this without masking irqs and then sending keyboard commands will
\* cause a #GP 13": an interrupt never finds its gate absent, whenever it was
\* raised, unless the keyboard's set-up failed and left the gate away.
GatePresentWhenTaken == stopped = "fault" => failed

\* Once the kernel runs with a keyboard it has set up, the handler decodes the
\* set the keyboard sends: whichever bytes were asked for again, and whichever
\* commands failed because a byte could not be sent, was refused three times or
\* had its answer taken by the mouse's handler.  Not after a reset or a return to
\* the defaults, which the driver does not follow (reverted), nor once a byte was
\* read for the answer that was not it, or an answer given up that still came
\* (astray).
SetsAgree == Running /\ ~astray /\ ~reverted /\ active # 0 => kb.set = active

\* Set-up, any command and the take-over come to an end, whatever the keyboard
\* answers and however late.
SetupEnds == <>(todo = <<>> \/ stopped # "no")

\* After the take-over every byte of a device is read, although the PICs never
\* see an end of interrupt; unless a byte already waited when its line was
\* routed, whose edge the IOAPIC did not see.  With the keyboard in set 2 or 3
\* only as long as its handler has not run: that leaves its vector in service at
\* the local APIC, which then holds back the mouse's too.
BytesAreServed ==
  (Running /\ ~missed /\ (active = 1 \/ service = {}) /\ buffer # Empty)
     ~> (buffer = Empty \/ stopped # "no")

=============================================================================
