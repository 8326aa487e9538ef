-------------------------------- MODULE I8042 --------------------------------
(***************************************************************************)
(* The PS/2 controller and the devices on its two ports, as the driver     *)
(* sees them through ports 0x60 and 0x64.  The hardware is external; the   *)
(* status tests and the sending functions of ps2_controller.c are here     *)
(* because every user of the controller shares them.                       *)
(*                                                                         *)
(* The output buffer holds one byte.  Answers of the controller, answers   *)
(* of the devices and bytes a device sends by itself (a key, a movement)   *)
(* all pass through it, and nothing tells the driver where a byte is from. *)
(***************************************************************************)
EXTENDS Integers, Sequences

CONSTANTS
  PortCounts,    \* numbers of ports a controller may have
  Devices,       \* what may be plugged in
  BiosConfigs,   \* configuration bytes the firmware may leave
  AbsentTest,    \* what testing an absent port may answer
  StatusErrors,  \* whether the status may show a parity or timeout error
  KeyBytes,      \* bytes a device may send by itself
  MaxKeys,       \* bound: how many such bytes are sent
  None           \* no byte

VARIABLES
  ports,     \* how many ports the controller has
  device,    \* the device on each port
  config,    \* byte 0 of the controller's RAM, the configuration byte
  out,       \* the output buffer
  ctl,       \* the controller's answer that is not yet in the output buffer
  target,    \* what the next byte written to the data port is for
  queue,     \* bytes each device has yet to send
  reporting, \* the device sends what its user does
  typed      \* bytes sent by themselves so far

busVars == <<ports, device, config, out, ctl, target, queue, reporting, typed>>

Port == {1, 2}
Byte == 0..255

ASSUME I8042Assumption ==
  /\ PortCounts \subseteq {1, 2}
  /\ Devices \subseteq {"none", "ancient", "keyboard", "mouse", "odd"}
  /\ BiosConfigs \cup KeyBytes \subseteq Byte
  /\ AbsentTest \subseteq Byte \cup {None}
  /\ StatusErrors \in BOOLEAN /\ MaxKeys \in Nat
  /\ None \notin Byte

-----------------------------------------------------------------------------
Bit(b, k) == (b \div 2^k) % 2 = 1
SetBit(b, k) == IF Bit(b, k) THEN b ELSE b + 2^k
ClearBit(b, k) == IF Bit(b, k) THEN b - 2^k ELSE b

\* The bits of PS2_ConfigurationByte_t.
IrqOn(p) == p - 1
PassedPost == 2
Zero1 == 3
ClockOff(p) == 3 + p
Translation == 6

\* The commands of PS2_CommandByte that the driver sends.
PS2_CB ==
  [read_byte_0 |-> 32, write_next_to_byte_0 |-> 96, disable_second |-> 167,
   enable_second |-> 168, test_second |-> 169, test_controller |-> 170, test_first |-> 171,
   disable_first |-> 173, enable_first |-> 174, write_second_input |-> 212]

\* The answers to the tests, of a port and of the controller.
PS2_TPR == [passed |-> 0, clock_stuck_low |-> 1, clock_stuck_high |-> 2,
            data_stuck_low |-> 3, data_stuck_high |-> 4]
PS2_TCR == [passed |-> 85, failed |-> 252]
PS2_verify_test_port_response(b) == \E name \in DOMAIN PS2_TPR : PS2_TPR[name] = b
PS2_verify_test_controller_response(b) == \E name \in DOMAIN PS2_TCR : PS2_TCR[name] = b

Acknowledged == 250
SelfTestPassed == 170
ResetDevice == 255
EnableReporting == 244
Len4Prefix == 171

\* What a device sends after its self test; keyboards take two bytes.
Identity(d) == CASE d = "mouse" -> <<0>>
                 [] d = "keyboard" -> <<Len4Prefix, 131>>
                 [] d = "odd" -> <<127>>
                 [] OTHER -> <<>>

InitBus ==
  /\ ports \in PortCounts
  /\ device \in [Port -> Devices]
  /\ ports = 1 => device[2] = "none"
  /\ config \in {IF ports = 1 THEN SetBit(b, ClockOff(2)) ELSE b : b \in BiosConfigs}
  /\ out \in KeyBytes \cup {None}
  /\ ctl = None /\ target = "port1"
  /\ queue = [p \in Port |-> <<>>]
  /\ reporting = [p \in Port |-> device[p] \in {"ancient", "keyboard"}]
  /\ typed = 0

-----------------------------------------------------------------------------
(* The controller and the devices                                           *)

\* A device takes a byte.  A reset discards what it had to send.
DeviceTakes(p, b) ==
  /\ queue' = [queue EXCEPT ![p] =
       CASE device[p] = "none" -> @
         [] device[p] # "none" /\ b = ResetDevice ->
              <<Acknowledged, SelfTestPassed>> \o Identity(device[p])
         [] OTHER -> Append(@, Acknowledged)]
  /\ reporting' = [reporting EXCEPT ![p] =
       CASE b = ResetDevice -> device[p] \in {"ancient", "keyboard"}
         [] b = EnableReporting -> device[p] # "none"
         [] OTHER -> @]

\* The controller has answered the last command and takes a command byte.
ControllerTakes(c) ==
  /\ ctl = None
  /\ config' = CASE c = 173 -> SetBit(config, ClockOff(1))
                 [] c = 174 -> ClearBit(config, ClockOff(1))
                 [] c = 167 -> SetBit(config, ClockOff(2))
                 [] c = 168 /\ ports = 2 -> ClearBit(config, ClockOff(2))
                 [] OTHER -> config
  /\ ctl' \in CASE c = 32 -> {config}
                [] c = 170 -> {85, 252}
                [] c = 171 \/ (c = 169 /\ ports = 2) -> {0, 4}
                [] c = 169 /\ ports = 1 -> AbsentTest
                [] OTHER -> {None}
  /\ target' = CASE c = 96 -> "config"
                 [] c = 212 -> "port2"
                 [] OTHER -> "port1"
  /\ UNCHANGED <<ports, device, out, queue, reporting, typed>>

\* It takes a data byte, for itself or for a device.
DataTaken(b) ==
  /\ ctl = None
  /\ target' = "port1"
  /\ \/ /\ target = "config"
        /\ config' = IF ports = 1 THEN SetBit(b, ClockOff(2)) ELSE b
        /\ UNCHANGED <<queue, reporting>>
     \/ target = "port1" /\ DeviceTakes(1, b) /\ UNCHANGED config
     \/ target = "port2" /\ DeviceTakes(2, b) /\ UNCHANGED config
  /\ UNCHANGED <<ports, device, out, ctl, typed>>

\* The controller's answer reaches the output buffer.
ControllerAnswers ==
  /\ out = None /\ ctl # None
  /\ out' = ctl /\ ctl' = None
  /\ UNCHANGED <<ports, device, config, target, queue, reporting, typed>>

\* A device's byte reaches it, when its port has a clock.
DeviceSends(p) ==
  /\ out = None /\ queue[p] # <<>> /\ ~Bit(config, ClockOff(p))
  /\ out' = Head(queue[p])
  /\ queue' = [queue EXCEPT ![p] = Tail(@)]
  /\ UNCHANGED <<ports, device, config, ctl, target, reporting, typed>>

\* The user presses a key or moves the mouse.
UserActs(p) ==
  /\ reporting[p] /\ queue[p] = <<>> /\ typed < MaxKeys
  /\ \E b \in KeyBytes : queue' = [queue EXCEPT ![p] = <<b>>]
  /\ typed' = typed + 1
  /\ UNCHANGED <<ports, device, config, out, ctl, target, reporting>>

Hardware == ControllerAnswers \/ \E p \in Port : DeviceSends(p) \/ UserActs(p)

-----------------------------------------------------------------------------
(* The driver's access                                                      *)

\* What the status register may show.
Errors == IF StatusErrors THEN BOOLEAN ELSE {FALSE}
PS2_StatusRegister ==
  [output_buffer_full_not_empty : {out # None}, input_buffer_full_not_empty : {ctl # None},
   timeout_error : Errors, parity_error : Errors]

is_ps2_controller_ready_for_more_input(st) == ~st.input_buffer_full_not_empty
is_ps2_controller_ready_for_response(st) == st.output_buffer_full_not_empty
PS2_verify_status(st) == ~st.parity_error /\ ~st.timeout_error

\* wait_till_ready_for_more_input fails: the input buffer stays full through
\* every iteration, or the status shows an error.
InputError ==
  \E st \in PS2_StatusRegister :
    ~is_ps2_controller_ready_for_more_input(st) \/ ~PS2_verify_status(st)

\* wait_till_ready_for_response fails: nothing came.
NoResponse == \A st \in PS2_StatusRegister : ~is_ps2_controller_ready_for_response(st)

\* ps2_recieve_raw_response reads the byte that is there, whatever it answers.
Receive(b) ==
  /\ out # None /\ b = out
  /\ out' = None
  /\ UNCHANGED <<ports, device, config, ctl, target, queue, reporting, typed>>

\* Bytes are on their way although the driver gave up waiting for them.
Coming == ctl # None \/ \E p \in Port : queue[p] # <<>> /\ ~Bit(config, ClockOff(p))

=============================================================================
