------------------------------- MODULE Ps2Setup -------------------------------
(***************************************************************************)
(* Bringing up PS/2: setup_ps2_controller from its step 3 on (the steps    *)
(* before it call stubs that never fail), and handle_ps2_setup, which      *)
(* enables the mouse and installs the interrupt handlers.  Interrupts are  *)
(* masked throughout; the driver polls.                                    *)
(***************************************************************************)
EXTENDS I8042, FiniteSets

CONSTANT QEMU  \* the build for the emulator

ASSUME QemuAssumption == QEMU \in BOOLEAN

VARIABLES
  pc,        \* where the driver is
  byte,      \* config_byte, and res of quick_enable_mouse
  supported, \* second_port_supported
  port,      \* the port reset_port_and_get_device_type works on
  found,     \* the device it found on each port
  status,    \* ps2_state_err
  late,      \* some wait gave up although a byte was coming
  handler,   \* the interrupt handler of each port, once one is installed
  unmasked   \* ports whose interrupt lines are unmasked

driverVars == <<byte, supported, port, found, status, late, handler, unmasked>>
locals == <<byte, supported, port, found, status, handler, unmasked>>
vars == <<busVars, pc, driverVars>>

Keyboards == {"ancient", "keyboard"}
Super(d) == IF d \in Keyboards THEN "keyboard" ELSE d

Working == {"none", "two_keyboard", "two_mouse", "no_second_port"}
Failed == {"could_not_init", "self_test_failed", "port_test_failed", "could_not_reset"}

Init ==
  /\ InitBus
  /\ pc = "off1" /\ byte = 0 /\ supported = FALSE
  /\ port = 1 /\ found = [p \in Port |-> "none"]
  /\ status = "running" /\ late = FALSE
  /\ handler = [p \in Port |-> "stub"] /\ unmasked = {}

-----------------------------------------------------------------------------
(* setup_ps2_controller, steps 3 to 9                                       *)

\* The commands of the setup in their order; a port's test waits for the first.
CommandAt ==
  [off1  |-> PS2_CB.disable_first,   off2  |-> PS2_CB.disable_second,
   cfg5  |-> PS2_CB.read_byte_0,     put5  |-> PS2_CB.write_next_to_byte_0,
   self  |-> PS2_CB.test_controller, on2   |-> PS2_CB.enable_second,
   cfg7  |-> PS2_CB.read_byte_0,     off2b |-> PS2_CB.disable_second,
   cfg7b |-> PS2_CB.read_byte_0,     put7  |-> PS2_CB.write_next_to_byte_0,
   test1 |-> PS2_CB.test_first,      test2 |-> PS2_CB.test_second,
   en1   |-> PS2_CB.enable_first,    en2   |-> PS2_CB.enable_second,
   cfg9  |-> PS2_CB.read_byte_0,     put9  |-> PS2_CB.write_next_to_byte_0]

\* Where the driver goes on after each of them.
AfterCommand ==
  [off1  |-> "off2",    off2  |-> "flush",
   cfg5  |-> "got5",    put5  |-> "data5",
   self  |-> "gotself", on2   |-> "cfg7",
   cfg7  |-> "got7",    off2b |-> IF supported THEN "cfg7b" ELSE "test1",
   cfg7b |-> "got7b",   put7  |-> "data7",
   test1 |-> "gott1",   test2 |-> "gott2",
   en1   |-> "en2",     en2   |-> "cfg9",
   cfg9  |-> "got9",    put9  |-> "data9"]

AfterData == [data5 |-> "self", data7 |-> "test1", data9 |-> "reset"]

Answers == {"got5", "got7", "got7b", "got9", "gotself", "gott1", "gott2"}

\* The setup returns with an error.
Fails(st) ==
  /\ pc' = "handle" /\ status' = st
  /\ UNCHANGED <<byte, supported, port, found, handler, unmasked>>

SendCommand ==
  /\ pc \in DOMAIN CommandAt
  /\ ControllerTakes(CommandAt[pc])
  /\ pc' = AfterCommand[pc]
  /\ UNCHANGED driverVars

\* ps2_set_configuration_byte writes the byte after its command.
SendConfig ==
  /\ pc \in DOMAIN AfterData
  /\ DataTaken(byte)
  /\ pc' = AfterData[pc]
  /\ UNCHANGED driverVars

SendFails ==
  /\ pc \in DOMAIN CommandAt \cup DOMAIN AfterData
  /\ InputError
  /\ Fails("could_not_init")
  /\ UNCHANGED <<busVars, late>>

\* Step 4 reads the data port once, whether or not a byte is there.
Flush ==
  /\ pc = "flush"
  /\ out' = None
  /\ pc' = "cfg5"
  /\ UNCHANGED <<ports, device, config, ctl, target, queue, reporting, typed, driverVars>>

\* A wait loop without its iteration bound.
NoAnswerEver ==
  /\ pc \in Answers /\ NoResponse /\ Coming
  /\ Fails("could_not_init")
  /\ late' = TRUE
  /\ UNCHANGED busVars

NoAnswer ==
  /\ pc \in Answers
  /\ NoResponse
  /\ Fails("could_not_init")
  /\ late' = (late \/ Coming)
  /\ UNCHANGED busVars

\* PS2_verify_configuration_byte_response; step 5 of the emulator's build lets
\* a missing POST bit pass.
Valid(b) == ~Bit(b, Zero1) /\ (Bit(b, PassedPost) \/ (QEMU /\ pc = "got5"))

\* What each step makes of the configuration byte it read.
Step5(b) ==
  LET c == ClearBit(ClearBit(ClearBit(b, IrqOn(1)), Translation), ClockOff(1))
  IN IF QEMU THEN SetBit(c, PassedPost) ELSE c
Step7(b) == ClearBit(ClearBit(b, ClockOff(2)), IrqOn(2))
Step9(b) == SetBit(SetBit(b, IrqOn(1)), IrqOn(2))

Changed(b) == CASE pc = "got5" -> Step5(b) [] pc = "got7" -> b
                [] pc = "got7b" -> Step7(b) [] pc = "got9" -> Step9(b)

\* Support for a second port read from the wrong bit.
GotConfigBit1 ==
  /\ pc \in {"got5", "got7", "got7b", "got9"}
  /\ \E b \in Byte :
       /\ Receive(b) /\ Valid(b)
       /\ byte' = Changed(b)
       /\ supported' = IF pc = "got7" THEN ~Bit(b, IrqOn(2)) ELSE supported
       /\ pc' = CASE pc = "got5" -> "put5" [] pc = "got7" -> "off2b"
                  [] pc = "got7b" -> "put7" [] pc = "got9" -> "put9"
       /\ UNCHANGED <<port, found, status, handler, unmasked, late>>

GotConfig ==
  /\ pc \in {"got5", "got7", "got7b", "got9"}
  /\ \E b \in Byte :
       /\ Receive(b)
       /\ \/ /\ Valid(b)
             /\ byte' = Changed(b)
             /\ supported' = IF pc = "got7" THEN ~Bit(b, ClockOff(2)) ELSE supported
             /\ pc' = CASE pc = "got5" -> "put5" [] pc = "got7" -> "off2b"
                        [] pc = "got7b" -> "put7" [] pc = "got9" -> "put9"
             /\ UNCHANGED <<port, found, status, handler, unmasked>>
          \/ ~Valid(b) /\ Fails("could_not_init")
  /\ UNCHANGED late

\* Step 6: the controller's self test.
GotSelfTest ==
  /\ pc = "gotself"
  /\ \E b \in Byte :
       /\ Receive(b)
       /\ \/ b = PS2_TCR.passed /\ pc' = "on2" /\ UNCHANGED locals
          \/ b = PS2_TCR.failed /\ Fails("self_test_failed")
          \/ ~PS2_verify_test_controller_response(b) /\ Fails("could_not_init")
  /\ UNCHANGED late

\* Step 8: the tests of both ports.
GotPortTest ==
  /\ pc \in {"gott1", "gott2"}
  /\ \E b \in Byte :
       /\ Receive(b)
       /\ \/ /\ b = PS2_TPR.passed
             /\ pc' = IF pc = "gott1" THEN "test2" ELSE "en1"
             /\ UNCHANGED locals
          \/ PS2_verify_test_port_response(b) /\ b # PS2_TPR.passed /\ Fails("port_test_failed")
          \/ ~PS2_verify_test_port_response(b) /\ Fails("could_not_init")
  /\ UNCHANGED late

-----------------------------------------------------------------------------
(* Step 10: reset_port_and_get_device_type                                  *)

\* Bytes for the second port follow a command that says so.
SendReset ==
  /\ \/ /\ pc = "reset" /\ port = 2
        /\ ControllerTakes(PS2_CB.write_second_input)
        /\ pc' = "reset2"
     \/ /\ pc = "reset2" \/ (pc = "reset" /\ port = 1)
        /\ DataTaken(ResetDevice)
        /\ pc' = "ack"
  /\ UNCHANGED driverVars

ResetFails ==
  /\ \/ pc \in {"reset", "reset2"} /\ InputError /\ UNCHANGED late
     \/ pc \in {"ack", "bat", "id4"} /\ NoResponse /\ late' = (late \/ Coming)
  /\ Fails("could_not_reset")
  /\ UNCHANGED busVars

\* The device is known: on to the second port, or the setup returns.
Found(d) ==
  LET all == [found EXCEPT ![port] = d]
      kinds == {Super(all[p]) : p \in Port}
      last == port = 2 \/ ~supported
  IN /\ found' = all
     /\ port' = IF last THEN port ELSE 2
     /\ pc' = IF last THEN "handle" ELSE "reset"
     /\ status' = IF ~last THEN status
                  ELSE IF ~supported THEN "no_second_port"
                  ELSE CASE kinds = {"keyboard"} -> "two_keyboard"
                         [] kinds = {"mouse"} -> "two_mouse"
                         [] OTHER -> "none"
     /\ UNCHANGED <<byte, supported, handler, unmasked>>

\* A driver that reads on until the acknowledgement comes.
GotAckSkips ==
  /\ pc = "ack"
  /\ \E b \in Byte :
       /\ Receive(b)
       /\ pc' = IF b = Acknowledged THEN "bat" ELSE "ack"
  /\ UNCHANGED driverVars

GotAck ==
  /\ pc = "ack"
  /\ \E b \in Byte :
       /\ Receive(b)
       /\ \/ b = Acknowledged /\ pc' = "bat" /\ UNCHANGED locals
          \/ b # Acknowledged /\ Fails("could_not_reset")
  /\ UNCHANGED late

GotSelfTestOfDevice ==
  /\ pc = "bat"
  /\ \E b \in Byte :
       /\ Receive(b)
       /\ \/ b = SelfTestPassed /\ pc' = "id3" /\ UNCHANGED locals
          \/ b # SelfTestPassed /\ Fails("could_not_reset")
  /\ UNCHANGED late

\* No third byte: an ancient keyboard.
NoIdentity ==
  /\ pc = "id3" /\ NoResponse
  /\ Found("ancient")
  /\ late' = (late \/ Coming)
  /\ UNCHANGED busVars

\* A third byte: a mouse, or the prefix of a keyboard's fourth.
GotIdentity ==
  /\ pc = "id3"
  /\ \E b \in Byte :
       /\ Receive(b)
       /\ \/ b = Len4Prefix /\ pc' = "id4" /\ UNCHANGED locals
          \/ b \in {0, 3, 4} /\ Found("mouse")
          \/ b \notin {Len4Prefix, 0, 3, 4} /\ Fails("could_not_reset")
  /\ UNCHANGED late

KeyboardIds == {131, 193, 65, 132, 84, 133, 134, 144, 145, 146, 161}

GotKeyboard ==
  /\ pc = "id4"
  /\ \E b \in Byte :
       /\ Receive(b)
       /\ \/ b \in KeyboardIds /\ Found("keyboard")
          \/ b \notin KeyboardIds /\ Fails("could_not_reset")
  /\ UNCHANGED late

-----------------------------------------------------------------------------
(* handle_ps2_setup and setup_interrupts_and_ps2                            *)

\* One keyboard and one mouse: the mouse is enabled before the handlers are
\* installed.  Without a usable port nothing is installed.
Handle ==
  /\ pc = "handle"
  /\ pc' = CASE status = "none" -> "mouse"
             [] status \in Working \ {"none"} -> "install"
             [] status \in Failed -> "done"
  /\ UNCHANGED <<busVars, driverVars>>

\* quick_enable_mouse addresses the second port and ignores a failure to send.
EnableMouse ==
  /\ \/ pc = "mouse" /\ ControllerTakes(PS2_CB.write_second_input) /\ pc' = "mouse2"
     \/ pc = "mouse2" /\ DataTaken(EnableReporting) /\ pc' = "mousewait"
     \/ pc \in {"mouse", "mouse2"} /\ InputError /\ pc' = "mousewait" /\ UNCHANGED busVars
  /\ UNCHANGED driverVars

\* It aborts without an answer and takes any byte for the acknowledgement.
MouseAnswers ==
  /\ pc = "mousewait"
  /\ \/ /\ NoResponse
        /\ pc' = "aborted"
        /\ UNCHANGED <<busVars, driverVars>>
     \/ /\ \E b \in Byte : Receive(b) /\ byte' = b
        /\ pc' = "install"
        /\ UNCHANGED <<supported, port, found, status, late, handler, unmasked>>

\* idt_init_ps2: the handler of the device on each port in use.
idt_init_ps2(used) == [p \in Port |-> IF p \in used THEN Super(found[p]) ELSE handler[p]]

\* The lines of the ports in use are unmasked, all others masked.
Installs(outcome, used) ==
  /\ pc = "install" /\ status = outcome
  /\ handler' = idt_init_ps2(used)
  /\ unmasked' = used
  /\ pc' = "done"
  /\ UNCHANGED <<busVars, byte, supported, port, found, status, late>>

handle_ps2_setup_one_keyboard_one_mouse == Installs("none", Port)
handle_ps2_setup_one_port_only == Installs("no_second_port", {1})
handle_ps2_setup_two_keyboard == Installs("two_keyboard", Port)
handle_ps2_setup_two_mouse == Installs("two_mouse", Port)

Install ==
  \/ handle_ps2_setup_one_keyboard_one_mouse \/ handle_ps2_setup_one_port_only
  \/ handle_ps2_setup_two_keyboard \/ handle_ps2_setup_two_mouse

-----------------------------------------------------------------------------
Driver ==
  \/ SendCommand \/ SendConfig \/ SendFails \/ Flush
  \/ NoAnswer \/ GotConfig \/ GotSelfTest \/ GotPortTest
  \/ SendReset \/ ResetFails \/ GotAck \/ GotSelfTestOfDevice
  \/ NoIdentity \/ GotIdentity \/ GotKeyboard
  \/ Handle \/ EnableMouse \/ MouseAnswers \/ Install

Next == Driver \/ (Hardware /\ UNCHANGED <<pc, driverVars>>)

Spec == Init /\ [][Next]_vars

\* The processor executes the driver, and the controller hands over its
\* answers.  Nothing is assumed of the devices and their users.
FairSpec == Spec /\ WF_vars(Driver)
                 /\ WF_vars(ControllerAnswers /\ UNCHANGED <<pc, driverVars>>)

-----------------------------------------------------------------------------

\* A setup that reports devices left the controller configured for them:
\* clocks and interrupts of the ports on, translation off.  A key pressed
\* while the setup waits for an answer of the controller can be read as that
\* answer, even as the configuration byte of steps 7 and 9 that is then changed
\* and written back, but never in a setup that goes on to report devices.
PortsReady ==
  status \in Working =>
    /\ \A p \in Port : p = 1 \/ supported =>
         Bit(config, IrqOn(p)) /\ ~Bit(config, ClockOff(p))
    /\ ~Bit(config, Translation)

\* Unless a key was pressed or an answer came later than a wait lasts, what the
\* setup reports is what is plugged in.
ReportsTheDevices ==
  status \in Working /\ ~late /\ typed = 0 =>
    /\ supported = (ports = 2)
    /\ found = [p \in Port |-> IF p = 2 /\ ports = 1 THEN "none" ELSE device[p]]

\* Every setup ends, whatever the controller and the devices do: all its waits
\* are bounded.
SetupReturns == <>(pc \in {"done", "aborted"})
=============================================================================
