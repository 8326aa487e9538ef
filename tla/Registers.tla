------------------------------ MODULE Registers ------------------------------
(***************************************************************************)
(* The registers of the processor, of the local APIC and of the IOAPIC as  *)
(* the kernel's bit-field structs lay them out.  A layout lists fields     *)
(* with their widths from bit 0 up; a word is the set of its bits that are *)
(* one.  The kernel reads and writes fields by name, the hardware by bit:  *)
(* a field that its struct has in the wrong place is another bit's.        *)
(***************************************************************************)
EXTENDS Integers, Sequences, FiniteSets, FiniteSetsExt, SequencesExt

\* Fields of one bit each.
Flags(names) == [i \in DOMAIN names |-> <<names[i], 1>>]

Position(layout, field) == SelectInSeq(layout, LAMBDA f : f[1] = field)

\* The lowest bit of a field.
Bit(layout, field) ==
  FoldLeft(LAMBDA n, f : n + f[2], 0, SubSeq(layout, 1, Position(layout, field) - 1))

Bits(layout, field) ==
  Bit(layout, field) .. Bit(layout, field) + layout[Position(layout, field)][2] - 1

\* The value of a field of a word.
Get(layout, field, word) ==
  MapThenSumSet(LAMBDA b : 2 ^ (b - Bit(layout, field)), word \cap Bits(layout, field))

\* The word with some of its fields set; a value keeps the bits that fit.
Set(layout, word, values) ==
  (word \ UNION {Bits(layout, f) : f \in DOMAIN values})
  \cup UNION {{b \in Bits(layout, f) : (values[f] \div 2 ^ (b - Bit(layout, f))) % 2 = 1} :
                f \in DOMAIN values}

-----------------------------------------------------------------------------
(* The processor                                                            *)

cr0_t == Flags(<<"pe", "mp", "em", "ts", "et", "ne">>) \o <<<<"reserved1", 10>>>>
         \o Flags(<<"wp", "reserved2", "am">>) \o <<<<"reserved3", 10>>>>
         \o Flags(<<"nw", "cd", "pg">>)

cr4_t == Flags(<<"vme", "pvi", "tsd", "de", "pse", "pae", "mce", "pge", "pce", "osfxsr",
                 "osxmmexcpt", "umip", "reserved1", "fsgsbase", "pcide", "osxsave",
                 "reserved2", "smep", "smap", "pke">>) \o <<<<"reserved3", 10>>>>

cpuid_fpu_1_ecx ==
  <<<<"sse3", 1>>, <<"pclmulqdq", 1>>, <<"others1", 7>>, <<"ssse3", 1>>, <<"others2", 2>>,
    <<"fma", 1>>, <<"others3", 6>>, <<"sse4_1", 1>>, <<"sse4_2", 1>>, <<"others4", 3>>,
    <<"others5", 1>>, <<"aes", 1>>, <<"xsave", 1>>, <<"osxsave", 1>>, <<"avx", 1>>,
    <<"f16c", 1>>, <<"others6", 2>>>>

cpuid_fpu_1_edx ==
  <<<<"fpu", 1>>, <<"others1", 22>>, <<"mmx", 1>>, <<"others2", 1>>, <<"sse", 1>>,
    <<"sse2", 1>>, <<"others3", 5>>>>

cpuid_basic_ecx ==
  Flags(<<"sse3", "pclmulqdq", "dtes64", "monitor", "ds_cpl", "vmx", "smx", "est", "tm2",
          "ssse3", "reserved1", "cnxt_id", "sdbg", "fma", "cx16", "xtpr", "pdcm",
          "reserved2", "pcid", "dca", "sse4_1", "sse4_2", "x2apic", "movbe", "popcnt",
          "tsc_deadline", "aes", "xsave", "osxsave", "avx", "f16c", "rdrand">>)

cpuid_basic_edx ==
  Flags(<<"fpu", "vme", "de", "pse", "tsc", "msr", "pae", "mce", "cx8", "apic", "reserved1",
          "sep", "mtrr", "pge", "mca", "cmov", "pat", "pse36", "psn", "clfsh", "reserved2",
          "ds", "acpi", "mmx", "fxsr", "sse", "sse2", "ss", "htt", "tm", "reserved3">>)

-----------------------------------------------------------------------------
(* The local APIC                                                           *)

apic_msr_eax == <<<<"reserved0", 8>>, <<"is_bootstrap_processor", 1>>, <<"reserved1", 1>>,
                  <<"x2apic", 1>>, <<"apic_enable", 1>>, <<"base_low_page_idx", 20>>>>

task_priority_register == <<<<"task_priority_subclass", 4>>, <<"task_priority", 4>>,
                            <<"res", 24>>>>

spurious_interrupt_vector_register ==
  <<<<"vector", 8>>, <<"apic_enable", 1>>, <<"reserved1", 3>>, <<"eoi_suppress", 1>>,
    <<"reserved2", 19>>>>

interrupt_command_low_register ==
  <<<<"vector_number", 8>>, <<"delivery_mode", 3>>, <<"destination_mode", 1>>,
    <<"delivery_status_pending_ro", 1>>, <<"_reserved", 1>>, <<"level", 1>>,
    <<"trigger_mode", 1>>, <<"remote_read_status", 2>>, <<"destination_type", 2>>,
    <<"_reserved3", 12>>>>

interrupt_command_high_register ==
  <<<<"reserved", 24>>, <<"local_apic_id_of_target", 4>>, <<"unused", 4>>>>

lvt_lint_register ==
  <<<<"vector_number", 8>>, <<"message_type", 3>>, <<"res1", 1>>, <<"delivery_status", 1>>,
    <<"pin_polarity", 1>>, <<"remote_irr", 1>>, <<"trigger_mode", 1>>, <<"mask", 1>>,
    <<"res3", 15>>>>

lvt_timer_register ==
  <<<<"vector_number", 8>>, <<"res1", 4>>, <<"delivery_status", 1>>, <<"res2", 3>>,
    <<"mask", 1>>, <<"timer_mode", 2>>, <<"res3", 13>>>>

divide_configuration_register == <<<<"divide_configuration", 4>>, <<"reserved", 28>>>>

\* The values the kernel uses; every other field of a new register is 0 but
\* the level of a command.
delivery_mode == [fixed |-> 0, init |-> 5, start_up |-> 6]
level == [deassert |-> 0, assert |-> 1]
trigger_mode == [edge |-> 0, level |-> 1]
mask == [enable |-> 0, disable |-> 1]
timer_mode == [single_shot |-> 0]
divide_by_1 == 11
divide_by_128 == 10

\* The two words of send_command.
Command(values) ==
  Set(interrupt_command_low_register,
      Set(interrupt_command_low_register, {}, [level |-> level.assert]), values)
Target(core) == Set(interrupt_command_high_register, {}, [local_apic_id_of_target |-> core])

-----------------------------------------------------------------------------
(* The IOAPIC                                                               *)

redirection_entry_low ==
  <<<<"vector", 8>>, <<"delivery_mode", 3>>, <<"destination_mode", 1>>,
    <<"delivery_status", 1>>, <<"pin_polarity", 1>>, <<"remote_interrupt_request", 1>>,
    <<"trigger_mode", 1>>, <<"mask", 1>>, <<"reserved", 15>>>>

redirection_entry_high ==
  <<<<"reserved", 24>>, <<"phyiscal_apic_id", 4>>, <<"unused", 4>>>>

\* The index register's values for the two halves of an input's entry.
get_offsets(input) == [low |-> 16 + 2 * input, high |-> 17 + 2 * input]
=============================================================================
