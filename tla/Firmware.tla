------------------------------- MODULE Firmware -------------------------------
(***************************************************************************)
(* What the boot loader and the firmware leave in memory for the kernel:   *)
(* the multiboot information, a chain of tags, and the ACPI tables that    *)
(* one of the tags leads to.  Addresses are offsets from the start of the  *)
(* information, or of the table; the kernel walks both chains by adding    *)
(* the size each element states of itself.                                 *)
(***************************************************************************)
EXTENDS Integers, Sequences, FiniteSets, SequencesExt

\* A tag is its type and its size in bytes, with what the kernel looks at in
\* the tags it wants.
Tag(type, size) == [type |-> type, size |-> size]

\* framebuffer_info_t, the fields before color_info being 31 bytes.
FramebufferTag(bit_per_pixel, kind, color_info) ==
  [type |-> "FRAMEBUFFER", size |-> 31 + color_info, bpp |-> bit_per_pixel, kind |-> kind]

\* The RSDP is copied into the tag: 20 bytes of RSDP, 36 of XSDP_t.  rsdt
\* lists the signatures of the tables that RsdtAddress leads to.
RsdpTag(type, signed, sums, rsdt) ==
  [type |-> type, size |-> 8 + (IF type = "ACPI_NEW" THEN 36 ELSE 20), signed |-> signed,
   sums |-> sums, rsdt |-> rsdt]

\* A module: two addresses, and a command line of so many bytes; the segments
\* of the program at mod_start.
ModuleTag(cmdline, segments) ==
  [type |-> "MODULE", size |-> 8 + 8 + cmdline, segments |-> segments]

\* The entries of the MADT with the length each states of itself.
LapicEntry(apic_id, enabled) ==
  [type |-> "lapic", len |-> 8, id |-> apic_id, enabled |-> enabled]
IoApicEntry(page) == [type |-> "io_apic", len |-> 12, page |-> page]
IsoEntry(bus_source, irq_source, global_system_interrupt) ==
  [type |-> "iso", len |-> 10, bus |-> bus_source, irq |-> irq_source,
   gsi |-> global_system_interrupt]

\* The kernel only counts these, and passes over the rest.
OtherEntries == {[type |-> "io_apic_nmi", len |-> 10], [type |-> "lapic_nmi", len |-> 6],
                 [type |-> "lapic_address", len |-> 12], [type |-> "x2apic", len |-> 16],
                 [type |-> "unknown", len |-> 6]}

\* Tags start at multiples of 8.
RoundUp8(n) == ((n + 7) \div 8) * 8

\* The address of the i-th element of a chain: the header, then one stride
\* for each element before it.
TagAddress(tags, i) ==
  8 + FoldLeft(LAMBDA a, t : a + RoundUp8(t.size), 0, SubSeq(tags, 1, i - 1))

MadtHeader == 44
EntryAddress(entries, i) ==
  MadtHeader + FoldLeft(LAMBDA a, e : a + e.len, 0, SubSeq(entries, 1, i - 1))

\* total_size and the table's Length.
TotalSize(tags) == TagAddress(tags, Len(tags) + 1)
MadtLength(entries) == EntryAddress(entries, Len(entries) + 1)

\* What the kernel reads at an address: an element, or bytes that are none.
TagAt(tags, a) == {tags[i] : i \in {j \in DOMAIN tags : TagAddress(tags, j) = a}}
EntryAt(entries, a) ==
  {entries[i] : i \in {j \in DOMAIN entries : EntryAddress(entries, j) = a}}

-----------------------------------------------------------------------------
(* The walks                                                                *)

tag_first == 8

\* A walk that takes the size as it is.
tag_next_unaligned(a, tag) == a + tag.size

tag_next(a, tag) == a + RoundUp8(tag.size)

entry_next(a, entry) == a + entry.len

IsEnd(tag) == tag.type = "END" /\ tag.size = 8

\* check_rsdp_signature and check_rsdp_checksum.
IsRsdp(tag) == tag.type \in {"ACPI_OLD", "ACPI_NEW"} /\ tag.signed /\ tag.sums

\* What each of the three walks stops at: find_framebuffer, find_rsdp and
\* find_module for the first module.
Wanted(scan, tag) ==
  CASE scan = "framebuffer" -> tag.type = "FRAMEBUFFER"
    [] scan = "rsdp" -> IsRsdp(tag)
    [] scan = "module" -> tag.type = "MODULE"

\* get_entry_point_physical_simple: the first LOAD segment, 0 when there is none.
FirstLoad(segments) == SelectInSeq(segments, LAMBDA s : s = "LOAD")

\* findMADT: the position of the first table with the signature, 0 for none.
findMADT(rsdt) == SelectInSeq(rsdt, LAMBDA s : s = "APIC")

-----------------------------------------------------------------------------
(* The parsed MADT                                                          *)

EntryTypes == {"lapic", "io_apic", "iso", "io_apic_nmi", "lapic_nmi",
               "lapic_address", "x2apic"}

\* MADTParseResult: an array for each type, in the order of the table, of so
\* many entries.  It starts with nothing in any of them.
MaxEntries ==
  [lapic |-> 16, io_apic |-> 8, iso |-> 32, io_apic_nmi |-> 16, lapic_nmi |-> 16,
   lapic_address |-> 2, x2apic |-> 16]
NothingParsed == [t \in EntryTypes |-> <<>>]

\* parse_madt stores an entry without comparing its counter with the size of
\* the array.
HasRoom(parsed, entry) ==
  entry.type \in EntryTypes => Len(parsed[entry.type]) < MaxEntries[entry.type]

\* Entries of other types are passed over.
Record(parsed, entry) ==
  IF entry.type \in EntryTypes
  THEN [parsed EXCEPT ![entry.type] = Append(@, entry)] ELSE parsed

\* The IOAPIC's inputs, number_of_apic_io_irq of them.
Inputs == 0..23

\* The overrides of multicore_setup, the last one of an interrupt wins.
Routes(parsed) ==
  FoldLeft(LAMBDA r, e : [r EXCEPT ![e.irq] = e.gsi], [i \in 0..23 |-> i], parsed["iso"])

\* An override of an interrupt without an input is stored behind irq_to_gsi,
\* if no override before it ends the kernel: the bus is only asserted after
\* the store.
StoresBehind(isos) ==
  \E i \in DOMAIN isos : isos[i].irq \notin Inputs /\ \A j \in 1..i - 1 : isos[j].bus = 0
=============================================================================
