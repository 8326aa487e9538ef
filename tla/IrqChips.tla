------------------------------- MODULE IrqChips -------------------------------
(***************************************************************************)
(* The chips between a PS/2 port and the core that runs its handler: the   *)
(* two 8259 PICs, the IOAPIC, the local APIC and the interrupt table, as   *)
(* the kernel programs them.  Port 1 is line 1, port 2 is line 12, which   *)
(* reaches the first PIC through its line 2.                               *)
(*                                                                         *)
(* Both the PIC and, once it is programmed, the IOAPIC see every edge of a *)
(* line.  The handlers end an interrupt at the local APIC only, if at all. *)
(***************************************************************************)
EXTENDS Integers, Sequences

VARIABLES
  masked,   \* lines masked in the PICs
  irr,      \* edges the PICs have latched, masked or not
  isr,      \* lines the PICs believe in service
  lint0,    \* the local APIC lets the PICs through
  routed,   \* lines the IOAPIC sends to the boot core
  pending,  \* vectors latched in the local APIC
  service,  \* vectors the local APIC has in service
  present   \* vectors whose gate in the interrupt table is present

chips == <<masked, irr, isr, lint0, routed, pending, service, present>>

Cascade == 2
Lines == {1, 12}
LineOf(port) == IF port = 1 THEN 1 ELSE 12
\* PIC_remap puts the first PIC at 32, the second at 40.
VectorOf(line) == 32 + line
Vectors == {VectorOf(l) : l \in Lines}

\* initialize_irqs masks all lines, then setup_interrupts_and_ps2 clears the
\* masks of the ports that have a device.
ChipsInit(devices) ==
  /\ masked = ({Cascade} \cup Lines) \ IF Len(devices) = 2 THEN {1, Cascade, 12}
                                      ELSE IF Len(devices) = 1 THEN {1} ELSE {}
  /\ irr = {} /\ isr = {} /\ lint0 = TRUE
  /\ routed = {} /\ pending = {} /\ service = {}
  /\ present = Vectors

\* A device raises its line.
Raise(line) ==
  /\ irr' = irr \cup {line}
  /\ pending' = IF line \in routed THEN pending \cup {VectorOf(line)} ELSE pending
  /\ UNCHANGED <<masked, isr, lint0, routed, service, present>>

-----------------------------------------------------------------------------
IRQ_set_mask(line) ==
  masked' = masked \cup {line} /\ UNCHANGED <<irr, isr, lint0, routed, pending, service, present>>

IRQ_clear_mask(line) ==
  masked' = masked \ {line} /\ UNCHANGED <<irr, isr, lint0, routed, pending, service, present>>

disable_idt_entry(v) ==
  present' = present \ {v} /\ UNCHANGED <<masked, irr, isr, lint0, routed, pending, service>>

enable_idt_entry(v) ==
  present' = present \cup {v} /\ UNCHANGED <<masked, irr, isr, lint0, routed, pending, service>>

\* init_lapic masks LINT0 unless the core is 0; it reads the core's number
\* through fs before fs is set, so either may happen.
init_lapic ==
  lint0' \in BOOLEAN /\ UNCHANGED <<masked, irr, isr, routed, pending, service, present>>

\* init_io_apic: an edge that came before is lost on the IOAPIC.
write_redirection(line) ==
  routed' = routed \cup {line} /\ UNCHANGED <<masked, irr, isr, lint0, pending, service, present>>

-----------------------------------------------------------------------------
\* Line 1 is before the cascade: in service it holds back line 12 too.
Ahead(line) == {l \in Lines : l <= line}

PicOffers(line) ==
  /\ lint0 /\ line \in irr /\ line \notin masked
  /\ line = 12 => Cascade \notin masked
  /\ isr \cap Ahead(line) = {}

\* The core takes an interrupt from the PICs.  The handler's end of interrupt, if
\* eoi, goes to the local APIC and ends what that has in service: the PICs' line
\* stays in service.
TakeFromPic(line, eoi) ==
  /\ PicOffers(line)
  /\ irr' = irr \ {line}
  /\ isr' = isr \cup {line}
  /\ service' = IF eoi THEN {} ELSE service
  /\ UNCHANGED <<masked, lint0, routed, pending, present>>

\* The core takes an interrupt from its local APIC.  The vectors are of one
\* priority class: one in service holds back both.
TakeFromApic(line, eoi) ==
  /\ VectorOf(line) \in pending /\ service = {}
  /\ pending' = pending \ {VectorOf(line)}
  /\ service' = IF eoi THEN {} ELSE {VectorOf(line)}
  /\ UNCHANGED <<masked, irr, isr, lint0, routed, present>>

Take(line, eoi) == TakeFromPic(line, eoi) \/ TakeFromApic(line, eoi)
=============================================================================
