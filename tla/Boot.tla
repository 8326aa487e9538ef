--------------------------------- MODULE Boot ---------------------------------
(***************************************************************************)
(* The boot core from kernel_main to the last core it wakes: what it asks  *)
(* of the processor, what it looks up in the tables of the boot loader and *)
(* the firmware, the descriptor table and the IOAPIC it sets up from them, *)
(* and the checks on the way that stop the kernel.  The machine is chosen  *)
(* at the start.  Interrupts, the PS/2 devices, the timer and the protocol *)
(* with which cores are woken are modules of their own; here they are the  *)
(* places where kernel_main calls them.  The build is the release build.   *)
(*                                                                         *)
(* The label "wild" is where the code follows a pointer it never got, and  *)
(* "overrun" where it stores behind the end of an array: what comes after  *)
(* is undefined, and the model ends there.                                 *)
(***************************************************************************)
EXTENDS Integers, Sequences, FiniteSets, Cpu, Firmware, CoreGdt

CONSTANT Machines     \* the machines the kernel may be started on

\* A processor has leaf 1 and the first extended leaf, its reserved bit of cr4
\* is 0, and one with the later extensions has the earlier ones.
IsCpu(cpu) ==
  /\ cpu.basic \in Nat \ {0} /\ cpu.ext \in Nat /\ cpu.ext >= Ext
  /\ 15 \notin cpu.cr4
  /\ FpuFeatures(cpu) \cap {"sse2", "sse3", "ssse3", "sse4_1", "sse4_2"} # {}
       => "sse" \in FpuFeatures(cpu)
  /\ "sse" \in FpuFeatures(cpu) => "fpu" \in FpuFeatures(cpu)

\* The elements of a chain state sizes that lead to the next one; only the
\* last tag ends the loader's list.
IsTagList(tags) ==
  /\ tags \in Seq(ToSet(tags))
  /\ \A i \in DOMAIN tags :
       /\ tags[i].size \in Nat \ {0}
       /\ IsEnd(tags[i]) => i = Len(tags)
       /\ IsRsdp(tags[i]) => tags[i].rsdt \in Seq(ToSet(tags[i].rsdt))

IsMadt(madt) ==
  /\ madt \in Seq(ToSet(madt))
  /\ \A i \in DOMAIN madt :
       /\ madt[i].len \in Nat \ {0}
       /\ madt[i].type = "lapic" => madt[i].id \in Cores
       /\ madt[i].type = "iso" => madt[i].gsi \in Inputs

\* The firmware's input for an interrupt: its last override or its number.
WiredIn(madt, irq) ==
  LET i == SelectLastInSeq(madt, LAMBDA e : e.type = "iso" /\ e.irq = irq)
  IN IF i = 0 THEN irq ELSE madt[i].gsi

\* The timer, the keyboard and the mouse are not wired together.
WiredApart(madt) ==
  \A irq, other \in {0, 1, 12} : irq # other => WiredIn(madt, irq) # WiredIn(madt, other)

ASSUME MachinesAssumption ==
  \A m \in Machines :
    /\ IsCpu(m.cpu) /\ IsTagList(m.tags) /\ IsMadt(m.madt) /\ WiredApart(m.madt)
    /\ m.boot \in Cores

\* lapic_address and io_apic_address, as page numbers, and the spurious vector.
LapicPage == 1043968
IoApicPage == 1043456
spurious_interrupt_vector == 56

get_base_address(msr) == Get(apic_msr_eax, "base_low_page_idx", msr)

VARIABLES
  hw,       \* the machine
  pc,       \* where kernel_main and multicore_setup are
  id,       \* what cpuid answered
  fpu,      \* what init_fpu reported and set
  at,       \* the address a walk has come to
  found,    \* the tag each walk stopped at
  entry,    \* the segment taken for the 64-bit kernel's entry
  parsed,   \* MADTParseResult
  gdt,      \* new_gdt, up to the table's limit
  fs,       \* the selector in each core's fs
  cells,    \* all_fs_and_gs, byte by byte
  gates,    \* the vectors with a descriptor in the interrupt table
  lapic,    \* the boot core's local APIC: its msr and registers
  redir,    \* the IOAPIC's redirection registers, two for each input
  line0,    \* the PIC passes the timer's interrupts on
  index,    \* the core being woken
  active    \* core_is_active

vars == <<hw, pc, id, fpu, at, found, entry, parsed, gdt, fs, cells, gates,
          lapic, redir, line0, index, active>>

None == [type |-> "none"]
NoSelector == 0

\* The local vectors and the IOAPIC's entries are masked after a reset.
LapicAtEntry(msr) ==
  [msr |-> msr, svr |-> {}, tpr |-> {}, lint0 |-> {}, divide |-> {}, initial |-> 0,
   timer |-> Set(lvt_timer_register, {}, [mask |-> mask.disable])]
MaskedEntry == Set(redirection_entry_low, {}, [mask |-> mask.disable])
Scans == {"framebuffer", "rsdp", "module"}
Unwritten == 255

Init ==
  /\ hw \in Machines
  /\ pc = "cpuid"
  /\ id = NoAnswers
  /\ fpu = FpuAtEntry(hw.cpu)
  /\ at = 0
  /\ found = [s \in Scans |-> None]
  /\ entry = 0
  /\ parsed = NothingParsed
  /\ gdt = <<>>
  /\ fs = [c \in Cores |-> NoSelector]
  /\ cells = [a \in AreaBytes |-> Unwritten]
  /\ gates = {}
  /\ lapic = LapicAtEntry(hw.msr)
  /\ redir = [r \in get_offsets(0).low..get_offsets(23).high |->
               IF r \in {get_offsets(g).low : g \in Inputs} THEN MaskedEntry ELSE {}]
  /\ line0 = TRUE
  /\ index = 1 /\ active = {0}

Goto(label) == pc' = label
GoOn(ok, label) == Goto(IF ok THEN label ELSE "aborted")

cpuVars == <<id, fpu>>
tableVars == <<at, found, entry, parsed>>
irqVars == <<gates, lapic, redir, line0>>
coreVars == <<gdt, fs, cells, irqVars, index, active>>

-----------------------------------------------------------------------------
(* The processor                                                            *)

CheckCpuid ==
  /\ pc = "cpuid"
  /\ GoOn(hw.hasCpuid, "vendor")
  /\ UNCHANGED <<hw, cpuVars, tableVars, coreVars>>

Ask(label, answer, next) ==
  /\ pc = label
  /\ id' = answer
  /\ Goto(next)
  /\ UNCHANGED <<hw, fpu, tableVars, coreVars>>

AskVendor == Ask("vendor", get_cpuid_vendor(hw.cpu, id), "max")
AskMax == Ask("max", get_cpuid_max(hw.cpu, id), "max_extended")
AskMaxExtended == Ask("max_extended", get_cpuid_max_extended(hw.cpu, id), "brand")

\* One leaf of the brand string; an error ends the kernel.
AskBrand ==
  LET leaf == Ext + 2 + Cardinality(id.brand)
      part == BrandPart(hw.cpu, id, leaf)
  IN
  /\ pc = "brand"
  /\ id' = part.id
  /\ GoOn(~part.err, IF leaf = Ext + 4 THEN "fpu" ELSE "brand")
  /\ UNCHANGED <<hw, fpu, tableVars, coreVars>>

\* An instruction that faults here ends the kernel: there is no interrupt
\* table yet.
InitFpu ==
  LET info == call_cpuid(hw.cpu, id, ProcessorInfo)
  IN
  /\ pc = "fpu"
  /\ id' = info.id
  /\ fpu' = IF info.err THEN fpu ELSE init_fpu(hw.cpu)
  /\ Goto(IF info.err THEN "aborted"
          ELSE IF fpu'.fault # "none" THEN "fpu fault" ELSE "magic")
  /\ UNCHANGED <<hw, tableVars, coreVars>>

-----------------------------------------------------------------------------
(* The boot loader's tags                                                   *)

CheckMultiboot ==
  /\ pc = "magic"
  /\ GoOn(hw.multiboot, "framebuffer")
  /\ at' = tag_first
  /\ UNCHANGED <<hw, cpuVars, found, entry, parsed, coreVars>>

\* kernel_main asserts 32 bits per pixel, and the type after its conversion
\* to a bool: any type but 0.
AfterScan(scan, tag) ==
  CASE scan = "framebuffer" -> IF tag.bpp = 32 /\ tag.kind # 0 THEN "rsdp" ELSE "aborted"
    [] scan = "rsdp" -> "module"
    [] scan = "module" -> "elf"

\* A walk that comes to the end: find_framebuffer and find_rsdp abort, and
\* get_module_location hands on what it does not have.
NothingFound(scan) ==
  /\ Goto(IF scan = "module" THEN "elf" ELSE "aborted")
  /\ UNCHANGED <<at, found>>

\* One round of the loop of a walk.
Walk(scan) ==
  /\ pc = scan
  /\ IF at >= TotalSize(hw.tags) THEN NothingFound(scan)
     ELSE IF TagAt(hw.tags, at) = {} THEN Goto("wild") /\ UNCHANGED <<at, found>>
     ELSE \E tag \in TagAt(hw.tags, at) :
            \/ IsEnd(tag) /\ NothingFound(scan)
            \/ /\ ~IsEnd(tag) /\ Wanted(scan, tag)
               /\ found' = [found EXCEPT ![scan] = tag]
               /\ Goto(AfterScan(scan, tag))
               /\ at' = tag_first
            \/ /\ ~IsEnd(tag) /\ ~Wanted(scan, tag)
               /\ at' = tag_next(at, tag)
               /\ UNCHANGED <<pc, found>>
  /\ UNCHANGED <<hw, cpuVars, entry, parsed, coreVars>>

\* get_entry_point_physical_simple; without a module it reads where the
\* unset address points.
ReadElf ==
  /\ pc = "elf"
  /\ entry' \in IF found["module"] = None THEN {0, 1}
                ELSE {FirstLoad(found["module"].segments)}
  /\ Goto("interrupts")
  /\ UNCHANGED <<hw, cpuVars, at, found, parsed, coreVars>>

\* setup_interrupts_and_ps2: idt_init, then the descriptors of the timer and
\* of the PS/2 devices over its stubs.
idt_init == ((0..49) \ {34}) \cup {56, 57, 58}

SetupInterrupts ==
  /\ pc = "interrupts"
  /\ gates' = idt_init \cup {32, 33, 44}
  /\ Goto("apic")
  /\ UNCHANGED <<hw, cpuVars, tableVars, gdt, fs, cells, lapic, redir, line0, index, active>>

-----------------------------------------------------------------------------
(* The ACPI tables                                                          *)

\* has_apic, then the way from the RSDP to the MADT.  A missing table is a
\* null pointer that parse_madt follows.
FindMadt ==
  LET info == call_cpuid(hw.cpu, id, ProcessorInfo)
      rsdt == found["rsdp"].rsdt
  IN
  /\ pc = "apic"
  /\ id' = info.id
  /\ Goto(IF info.err \/ ~(has_apic(hw.cpu).apic \/ has_apic(hw.cpu).x2apic) THEN "aborted"
          ELSE IF findMADT(rsdt) = 0 THEN "wild" ELSE "madt")
  /\ at' = MadtHeader
  /\ UNCHANGED <<hw, fpu, found, entry, parsed, coreVars>>

\* One round of the loop of parse_madt.
ParseEntry ==
  /\ pc = "madt"
  /\ IF at >= MadtLength(hw.madt) THEN Goto("addresses") /\ UNCHANGED <<at, parsed>>
     ELSE IF EntryAt(hw.madt, at) = {} THEN Goto("wild") /\ UNCHANGED <<at, parsed>>
     ELSE \E e \in EntryAt(hw.madt, at) :
            \/ /\ HasRoom(parsed, e)
               /\ parsed' = Record(parsed, e)
               /\ at' = entry_next(at, e)
               /\ UNCHANGED pc
            \/ ~HasRoom(parsed, e) /\ Goto("overrun") /\ UNCHANGED <<at, parsed>>
  /\ UNCHANGED <<hw, cpuVars, found, entry, coreVars>>

\* The addresses must be the ones the kernel was built with.  The first
\* IOAPIC is read before anyone counts them.
CheckAddresses ==
  /\ pc = "addresses"
  /\ Goto(IF Get(apic_msr_eax, "x2apic", lapic.msr) = 1 THEN "aborted"
          ELSE IF parsed["io_apic"] = <<>> THEN "wild"
          ELSE IF /\ get_base_address(lapic.msr) = LapicPage /\ hw.madtLapic = LapicPage
                  /\ parsed["io_apic"][1].page = IoApicPage
          THEN "init_apic" ELSE "aborted")
  /\ UNCHANGED <<hw, cpuVars, tableVars, coreVars>>

-----------------------------------------------------------------------------
(* The local APIC                                                           *)

lapicUnchanged == UNCHANGED <<hw, cpuVars, tableVars, gdt, fs, cells, gates, redir, line0,
                              index, active>>

\* init_apic asserts that it is on the processor that the machine started.
InitApic ==
  LET bootstrap == Get(apic_msr_eax, "is_bootstrap_processor", lapic.msr) = 1
  IN
  /\ pc = "init_apic"
  /\ lapic' = IF bootstrap
              THEN [lapic EXCEPT !.msr = Set(apic_msr_eax, @, [apic_enable |-> 1])] ELSE lapic
  /\ GoOn(bootstrap, "init_lapic")
  /\ lapicUnchanged

SpuriousWord(word) ==
  Set(spurious_interrupt_vector_register, word,
      [vector |-> spurious_interrupt_vector, apic_enable |-> 1, eoi_suppress |-> 0])

\* init_lapic asks for the core's number before fs is set: what it gets is
\* the byte at the start of memory.
InitLapic ==
  /\ pc = "init_lapic"
  /\ \E core \in {0, Unwritten} :
       lapic' =
         [lapic EXCEPT
            !.svr = SpuriousWord(@),
            !.lint0 = IF core # 0 THEN Set(lvt_lint_register, {}, [mask |-> mask.disable])
                                  ELSE @,
            !.tpr = Set(task_priority_register, {},
                        [task_priority_subclass |-> 0, task_priority |-> 0])]
  /\ Goto("gdt")
  /\ lapicUnchanged

-----------------------------------------------------------------------------
(* The descriptor table                                                     *)

CopyGdt ==
  /\ pc = "gdt"
  /\ GoOn(CopyFits, "segments")
  /\ gdt' = IF CopyFits THEN init_new_gdt ELSE gdt
  /\ UNCHANGED <<hw, cpuVars, tableVars, fs, cells, irqVars, index, active>>

AddSegment ==
  /\ pc = "segments"
  /\ \/ AllAdded(gdt) /\ Goto("selectors") /\ UNCHANGED gdt
     \/ /\ ~AllAdded(gdt)
        /\ GoOn(EntryFits(gdt), "segments")
        /\ gdt' = IF EntryFits(gdt) THEN Append(gdt, NextSegment(Len(gdt))) ELSE gdt
  /\ UNCHANGED <<hw, cpuVars, tableVars, fs, cells, irqVars, index, active>>

\* The boot core loads its selectors and stores its number.
StoreBootId ==
  LET segment == Segment(gdt, BootCoreFs(hw.boot))
  IN
  /\ pc = "selectors"
  /\ fs' = [fs EXCEPT ![hw.boot] = BootCoreFs(hw.boot)]
  /\ IF hw.checksLimits /\ ~StoreFits(segment)
     THEN Goto("faulted") /\ UNCHANGED cells
     ELSE /\ cells' = StoreId(cells, segment, hw.boot)
          /\ GoOn(ReadId(cells', segment) = hw.boot, "ioapic")
  /\ UNCHANGED <<hw, cpuVars, tableVars, gdt, irqVars, index, active>>

-----------------------------------------------------------------------------
(* The interrupts and the other cores                                       *)

\* Without the overrides.
InputOfItself == [irq \in {0, 1, 12} |-> irq]

\* The inputs of the timer, the keyboard and the mouse.
InputOf == [irq \in {0, 1, 12} |-> Routes(parsed)[irq]]

\* The low half of an entry that init_io_apic writes.
EntryWord(vector) ==
  Set(redirection_entry_low, {}, [vector |-> vector, mask |-> mask.enable])

\* write_redirection, with what init_io_apic passes: always core 0.
write_redirection(registers, input, vector) ==
  LET hl == get_offsets(input)
  IN [registers EXCEPT
        ![hl.high] = Set(redirection_entry_high, {}, [phyiscal_apic_id |-> 0]),
        ![hl.low] = EntryWord(vector)]

\* init_io_apic writes the entries of the timer, the keyboard and the mouse in
\* this order.
init_io_apic(registers, input) ==
  LET timer == write_redirection(registers, input[0], 32)
      keyboard == write_redirection(timer, input[1], 33)
  IN write_redirection(keyboard, input[12], 44)

\* There must be one IOAPIC, and the overrides must be of the ISA bus.
\* IRQ_set_mask(0) ends the PIC's part for the timer.
InitIoApic ==
  /\ pc = "ioapic"
  /\ \/ /\ Len(parsed["io_apic"]) # 1
        /\ Goto("aborted") /\ UNCHANGED <<redir, line0>>
     \/ /\ Len(parsed["io_apic"]) = 1 /\ StoresBehind(parsed["iso"])
        /\ Goto("overrun") /\ UNCHANGED <<redir, line0>>
     \/ /\ Len(parsed["io_apic"]) = 1 /\ ~StoresBehind(parsed["iso"])
        /\ IF \A e \in ToSet(parsed["iso"]) : e.bus = 0
           THEN redir' = init_io_apic(redir, InputOf) /\ line0' = FALSE /\ Goto("tsc")
           ELSE Goto("aborted") /\ UNCHANGED <<redir, line0>>
  /\ UNCHANGED <<hw, cpuVars, tableVars, gdt, fs, cells, gates, lapic, index, active>>

\* sync_apic_with_pit asks for the frequency of the time stamp counter.
AskTsc == Ask("tsc", get_tsc_frequency(hw.cpu, id).id, "sync divide")

\* The two timers that are started: sync_apic_with_pit's counts down from
\* 0xFFFFFFFF with its interrupt masked, cpp_main's interrupts.
MaxCount == -1
Timers ==
  [sync |-> [vector |-> 61, count |-> MaxCount, divide |-> divide_by_1, mask |-> mask.disable],
   main |-> [vector |-> 58, count |-> 10000, divide |-> divide_by_128, mask |-> mask.enable]]

\* start_timer writes three registers, one after the other.
TimerSteps == [sync |-> <<"sync divide", "sync lvt", "sync count", "wake">>,
               main |-> <<"main divide", "main lvt", "main count", "done">>]

TimerWord(t) ==
  Set(lvt_timer_register, {},
      [vector_number |-> t.vector, mask |-> t.mask, timer_mode |-> timer_mode.single_shot])

start_timer(t, step) ==
  CASE step = 1 -> [lapic EXCEPT !.divide = Set(divide_configuration_register, {},
                                                [divide_configuration |-> t.divide])]
    [] step = 2 -> [lapic EXCEPT !.timer = TimerWord(t)]
    [] step = 3 -> [lapic EXCEPT !.initial = t.count]

StartTimer(timer) ==
  /\ \E step \in 1..3 :
       /\ pc = TimerSteps[timer][step]
       /\ lapic' = start_timer(Timers[timer], step)
       /\ Goto(TimerSteps[timer][step + 1])
  /\ lapicUnchanged

Woken == parsed["lapic"][index]

\* A core that wakes loads its selectors and stores its number before it
\* reports.  Where limits are checked the store faults, and a core without
\* an interrupt table takes the machine down.
Wake ==
  LET core == Woken.id
      segment == Segment(gdt, CoreFs(core))
      wakes == core # hw.boot /\ Woken.enabled
      faults == wakes /\ hw.checksLimits /\ ~StoreFits(segment)
  IN
  /\ pc = "wake" /\ index <= Len(parsed["lapic"])
  /\ fs' = IF wakes THEN [fs EXCEPT ![core] = CoreFs(core)] ELSE fs
  /\ cells' = IF wakes /\ ~faults THEN StoreId(cells, segment, core) ELSE cells
  /\ active' = IF core = hw.boot THEN active
               ELSE IF wakes /\ ~faults THEN active \cup {core} ELSE active \ {core}
  /\ index' = index + 1
  /\ IF faults THEN Goto("reset") ELSE UNCHANGED pc
  /\ UNCHANGED <<hw, cpuVars, tableVars, gdt, irqVars>>

AllOrNothing ==
  /\ pc = "wake" /\ index > Len(parsed["lapic"])
  /\ GoOn(\A e \in ToSet(parsed["lapic"]) : e.id \in active, "main divide")
  /\ UNCHANGED <<hw, cpuVars, tableVars, coreVars>>

-----------------------------------------------------------------------------
Next ==
  \/ CheckCpuid \/ AskVendor \/ AskMax \/ AskMaxExtended \/ AskBrand \/ InitFpu
  \/ CheckMultiboot \/ (\E scan \in Scans : Walk(scan)) \/ ReadElf \/ SetupInterrupts
  \/ FindMadt \/ ParseEntry \/ CheckAddresses \/ InitApic \/ InitLapic
  \/ CopyGdt \/ AddSegment \/ StoreBootId \/ InitIoApic \/ AskTsc
  \/ Wake \/ AllOrNothing \/ (\E timer \in DOMAIN Timers : StartTimer(timer))

Spec == Init /\ [][Next]_vars

-----------------------------------------------------------------------------
\* The highest basic leaf that validate_cpuid_function relies on is the
\* processor's, although get_cpuid_max itself asks the first extended leaf:
\* kernel_main must have asked for the vendor before anything validates.
CachesAreRight ==
  /\ id.max \in {0, hw.cpu.basic}
  /\ \A leaf \in id.ran : leaf <= IF leaf < Ext THEN hw.cpu.basic ELSE hw.cpu.ext

\* init_fpu executes no instruction that the control registers do not allow
\* yet, and every feature it reports is enabled when it returns.  The write of
\* cr4 for AVX is the exception: its bit is not where cr4_t has it, and on a
\* machine where the part is reached the write faults.
FpuIsReady ==
  /\ fpu.fault \in {"none", "mov cr4"}
  /\ fpu.fault = "mov cr4" => "avx_256" \in fpu.reported
  /\ fpu.fault = "none" => \A f \in fpu.reported : Relies(fpu, f)

\* The first tag of the loader's list that a walk wants, None if there is none.
FirstWanted(scan) ==
  LET i == SelectInSeq(hw.tags, LAMBDA t : Wanted(scan, t))
  IN IF i = 0 THEN None ELSE hw.tags[i]

\* What a machine lacks when the kernel follows a pointer it never got.
Lacks ==
  \/ ~Contains(FirstWanted("rsdp").rsdt, "APIC")
  \/ ~\E e \in ToSet(hw.madt) : e.type = "io_apic"

\* The entries of a type up to the i-th entry of the MADT.
Count(t, i) == Cardinality({j \in 1..i : hw.madt[j].type = t})

\* The array of a type has each of its entries, at its rank, and no more.
Lists(array, t) ==
  /\ Len(array) = Count(t, Len(hw.madt))
  /\ \A i \in DOMAIN hw.madt : hw.madt[i].type = t => array[Count(t, i)] = hw.madt[i]

\* A MADT with more entries of a type than the kernel has room for, or with an
\* override of an interrupt that the IOAPIC has no input for.
Overfull ==
  \/ \E t \in EntryTypes : Count(t, Len(hw.madt)) > MaxEntries[t]
  \/ \E e \in ToSet(hw.madt) : e.type = "iso" /\ e.irq \notin Inputs

\* The walks over the tags and over the MADT never leave the chains, and end
\* with the first tag of each kind and with all entries of each type in order.
\* Two sorts of machines are excepted: one that lacks a table or an IOAPIC,
\* where the kernel follows a null pointer, and one whose MADT is overfull,
\* where it may store behind its arrays.
FindsTheTables ==
  /\ pc = "wild" => Lacks
  /\ pc = "overrun" => Overfull
  /\ pc \in {"addresses", "done"} =>
       /\ \A scan \in Scans : found[scan] = FirstWanted(scan)
       /\ \A t \in EntryTypes : Lists(parsed[t], t)

\* A core that has stored its number reads its own number from then on,
\* whichever cores store theirs later, and the boot core's store is inside
\* its segment.
FastIdIsOwn ==
  /\ pc # "faulted"
  /\ \A e \in ToSet(parsed["lapic"]) :
       fs[e.id] # NoSelector /\ pc # "reset" => ReadId(cells, Segment(gdt, fs[e.id])) = e.id

Unmasked(layout, word) == Get(layout, "mask", word) = mask.enable

\* What the words that the kernel writes are to the hardware, evaluated.
ASSUME RegisterWords ==
  /\ \A vector \in {32, 33, 44} :
       /\ EntryWord(vector) # MaskedEntry /\ Unmasked(redirection_entry_low, EntryWord(vector))
       /\ Get(redirection_entry_low, "vector", EntryWord(vector)) = vector
  /\ Get(spurious_interrupt_vector_register, "apic_enable", {}) = 0
  /\ SpuriousWord(SpuriousWord({})) = SpuriousWord({})
  /\ Get(spurious_interrupt_vector_register, "vector", SpuriousWord({})) = 56
  /\ ~Unmasked(lvt_timer_register, LapicAtEntry({}).timer)
  /\ ~Unmasked(lvt_timer_register, TimerWord(Timers.sync))
  /\ Get(lvt_timer_register, "vector_number", TimerWord(Timers.main)) = 58

\* The inputs that pass interrupts on, and the vector of each.
EntryOf(g) == redir[get_offsets(g).low]
Enabled ==
  {g \in Inputs : EntryOf(g) # MaskedEntry /\ Unmasked(redirection_entry_low, EntryOf(g))}
VectorOf(g) == Get(redirection_entry_low, "vector", EntryOf(g))

\* Once the IOAPIC has taken over, the inputs that the firmware wires to the
\* timer, the keyboard and the mouse carry their vectors, no other input
\* does, and the timer is not also served by the PIC.  Every vector that an
\* input, the local APIC or its counting timer can raise has a descriptor.
IrqsAreRouted ==
  /\ ~line0 => \A irq \in {0, 1, 12} :
                 {g \in Enabled : VectorOf(g) = 32 + irq} = {WiredIn(hw.madt, irq)}
  /\ \A g \in Enabled : VectorOf(g) \in gates
  /\ Get(spurious_interrupt_vector_register, "apic_enable", lapic.svr) = 1
       => Get(spurious_interrupt_vector_register, "vector", lapic.svr) \in gates
  /\ lapic.initial # 0 /\ Unmasked(lvt_timer_register, lapic.timer)
       => Get(lvt_timer_register, "vector_number", lapic.timer) \in gates

\* Every core that the kernel wakes gets to the end of its bootstrap code.
EveryCoreBoots == pc # "reset"
=============================================================================
