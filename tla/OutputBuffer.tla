----------------------------- MODULE OutputBuffer -----------------------------
(***************************************************************************)
(* The one output buffer of the PS/2 controller that the keyboard and the  *)
(* mouse share, once both lines reach the boot core through the IOAPIC.  A *)
(* byte put into it raises its device's line, and the local APIC holds the *)
(* interrupt until the core takes it, whoever reads the byte meanwhile.  A *)
(* read of the empty buffer returns the byte before.                       *)
(***************************************************************************)
EXTENDS Integers, Sequences

VARIABLES
  queue,    \* bytes of each device that are not in the buffer yet
  buffer,   \* the byte in the buffer and its device, or Empty
  pending,  \* devices whose interrupt is held by the local APIC
  last,     \* the byte read last
  astray    \* a byte was read by another reader than its own (history)

port == <<queue, buffer, pending, last, astray>>

Devices == {"keyboard", "mouse"}
Empty == [device |-> "none", byte |-> 0]

PortInit ==
  /\ queue = [d \in Devices |-> <<>>]
  /\ buffer = Empty /\ pending = {} /\ last = 0 /\ astray = FALSE

\* A device sends bytes.
Sends(d, bytes) == queue' = [queue EXCEPT ![d] = @ \o bytes]

\* The controller takes the next byte of a device.
Transfer(d) ==
  /\ buffer = Empty /\ queue[d] # <<>>
  /\ buffer' = [device |-> d, byte |-> Head(queue[d])]
  /\ queue' = [queue EXCEPT ![d] = Tail(@)]
  /\ pending' = pending \cup {d}
  /\ UNCHANGED <<last, astray>>

\* The byte a read of the data port returns, and the read itself.
DataPort == IF buffer = Empty THEN last ELSE buffer.byte

ReadDataPort ==
  /\ last' = DataPort
  /\ buffer' = Empty
  /\ UNCHANGED queue

\* The byte a read returns is not of device d: another's, or the one before.  The
\* keyboard's handler may read an answer again: it is no key's code.
Answers == {250, 254}   \* acknowledge, resend

Foreign(d) == IF buffer = Empty THEN ~(d = "keyboard" /\ last \in Answers)
              ELSE buffer.device # d

\* The interrupt stays pending: it comes once more for the byte just read.
HandlerReadsAgain(d, b) ==
  /\ d \in pending /\ b = DataPort
  /\ astray' = (astray \/ Foreign(d))
  /\ ReadDataPort
  /\ UNCHANGED pending

\* The core takes a device's interrupt, and its handler's stub reads the port.
HandlerReads(d, b) ==
  /\ d \in pending /\ b = DataPort
  /\ pending' = pending \ {d}
  /\ astray' = (astray \/ Foreign(d))
  /\ ReadDataPort
=============================================================================
