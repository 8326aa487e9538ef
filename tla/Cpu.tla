--------------------------------- MODULE Cpu ---------------------------------
(***************************************************************************)
(* What the kernel asks of the processor at the start: the cpuid leaves    *)
(* with the caches kept of their answers, and init_fpu with the control    *)
(* registers it sets before it uses the instructions they enable.          *)
(*                                                                         *)
(* The operators map the kernel's record of the answers (id) to the next.  *)
(* A processor is a record: its highest basic and extended leaf, whether   *)
(* leaf Ext repeats the vendor's name, the words that leaf 1 answers, and  *)
(* its control registers at entry.                                         *)
(***************************************************************************)
EXTENDS Integers, Registers

\* The number of the first extended leaf, 0x80000000 in the code.
Ext == 100

ProcessorInfo == 1
XSAVE_Features == 13
TSC_INFO == 15
AdvancedPowerMgmt == Ext + 7

\* The leaves the switch of call_cpuid knows: only 7, 11 and 13 have subleaves.
KnownLeaves == ((0..7) \cup {9, 10, 11, 13})
               \cup ((Ext..Ext + 8) \ {Ext + 5})

\* max_cpuid_command, max_extended_cpuid_command, the vendor's name and the
\* parts of the brand string kept so far, and every leaf executed.
NoAnswers == [max |-> 0, ext |-> 0, named |-> FALSE, brand |-> {}, ran |-> {}]

Executes(id, leaf) == [id EXCEPT !.ran = @ \cup {leaf}]

-----------------------------------------------------------------------------
\* A vendor query that keeps the name and not the highest leaf.
vendor_name_only(cpu, id) ==
  IF id.named THEN id ELSE [Executes(id, 0) EXCEPT !.named = TRUE]

get_cpuid_vendor(cpu, id) ==
  IF id.named THEN id
  ELSE [Executes(id, 0) EXCEPT !.max = cpu.basic, !.named = TRUE]

\* Asks the first extended leaf, whose answer is the highest extended leaf.
get_cpuid_max(cpu, id) ==
  IF id.max # 0 THEN id
  ELSE [Executes(id, Ext) EXCEPT !.max = cpu.ext, !.named = cpu.extNamed]

get_cpuid_max_extended(cpu, id) ==
  IF id.ext # 0 THEN id ELSE [Executes(id, Ext) EXCEPT !.ext = cpu.ext]

\* validate_cpuid_function asks for the highest leaf of the function's range;
\* a function between the ranges is unknown.
Consulted(cpu, id, leaf) ==
  IF leaf \in {0, Ext} THEN id
  ELSE IF leaf <= XSAVE_Features THEN get_cpuid_max(cpu, id)
  ELSE IF leaf >= Ext THEN get_cpuid_max_extended(cpu, id)
  ELSE id

Supported(id, leaf) ==
  \/ leaf \in {0, Ext}
  \/ leaf <= XSAVE_Features /\ leaf <= id.max
  \/ leaf >= Ext /\ leaf <= id.ext

\* call_cpuid, with subleaf 0 as all callers pass it.
call_cpuid(cpu, id, leaf) ==
  LET asked == Consulted(cpu, id, leaf)
      err == ~Supported(asked, leaf) \/ leaf \notin KnownLeaves
  IN [err |-> err, id |-> IF err THEN asked ELSE Executes(asked, leaf)]

\* One part of get_cpuid_brand_string.
BrandPart(cpu, id, leaf) ==
  LET r == call_cpuid(cpu, id, leaf)
  IN [r EXCEPT !.id.brand = @ \cup {leaf}]

\* get_tsc_frequency tests edx with (1 < 8), its lowest bit, and then asks a
\* leaf that validate_cpuid_function does not know.
get_tsc_frequency(cpu, id) ==
  LET power == call_cpuid(cpu, id, AdvancedPowerMgmt)
      info == call_cpuid(cpu, power.id, TSC_INFO)
  IN IF power.err THEN [freq |-> 0, id |-> power.id]
     ELSE IF 0 \notin cpu.power THEN [freq |-> 1, id |-> power.id]
     ELSE IF info.err THEN [freq |-> 2, id |-> info.id]
     ELSE [freq |-> 65535, id |-> info.id]

-----------------------------------------------------------------------------
(* The features of leaf 1                                                   *)

\* Leaf 1 shows in bit 27 of ecx whether bit 18 of cr4 is set.
Leaf1Ecx(cpu) == IF 18 \in cpu.cr4 THEN cpu.ecx \cup {27} ELSE cpu.ecx

\* The features that init_fpu looks for.
FpuFeatures(cpu) ==
  {f \in {"sse3", "ssse3", "sse4_1", "sse4_2", "osxsave", "avx"} :
     Bit(cpuid_fpu_1_ecx, f) \in Leaf1Ecx(cpu)}
  \cup {f \in {"fpu", "mmx", "sse", "sse2"} : Bit(cpuid_fpu_1_edx, f) \in cpu.edx}

\* has_apic: apic_support.
has_apic(cpu) ==
  [apic |-> Bit(cpuid_basic_edx, "apic") \in cpu.edx,
   x2apic |-> Bit(cpuid_basic_ecx, "x2apic") \in Leaf1Ecx(cpu),
   tsc_deadline |-> Bit(cpuid_basic_ecx, "tsc_deadline") \in Leaf1Ecx(cpu)]

-----------------------------------------------------------------------------
(* init_fpu: a list of register writes and instructions.                    *)

\* When the processor executes an instruction and when it faults: em and ts
\* are bits 2 and 3 of cr0, osfxsr and osxsave bits 9 and 18 of cr4, and bit
\* 15 of cr4 is reserved.
Allowed(fpu, name) ==
  CASE name = "fninit" -> {2, 3} \cap fpu.cr0 = {}
    [] name = "ldmxcsr" -> {2, 3} \cap fpu.cr0 = {} /\ 9 \in fpu.cr4
    [] name = "xsetbv" -> 18 \in fpu.cr4
    [] name = "mov cr4" -> 15 \notin fpu.cr4

\* fault is the first instruction that is not allowed.
Instruction(fpu, name) ==
  IF fpu.fault = "none" /\ ~Allowed(fpu, name) THEN [fpu EXCEPT !.fault = name] ELSE fpu

\* fpu_features, the control registers with xcr0, and the fault.
FpuAtEntry(cpu) ==
  [reported |-> {}, cr0 |-> cpu.cr0, cr4 |-> cpu.cr4, xcr0 |-> {0}, fault |-> "none"]

\* Where the structs have the fields that init_fpu sets, evaluated: all but
\* osxsave are where the processor has them.
ASSUME ControlBits ==
  /\ \A f \in {"mp", "em", "ts"} :
       Bits(cr0_t, f) = {Bit(cr0_t, f)} /\ Bit(cr0_t, f) = [mp |-> 1, em |-> 2, ts |-> 3][f]
  /\ \A f \in {"osfxsr", "osxmmexcpt", "osxsave"} :
       /\ Bits(cr4_t, f) = {Bit(cr4_t, f)}
       /\ Bit(cr4_t, f) = [osfxsr |-> 9, osxmmexcpt |-> 10, osxsave |-> 15][f]

set_cr0(fpu, values) == [fpu EXCEPT !.cr0 = Set(cr0_t, @, values)]
set_cr4(fpu, values) == Instruction([fpu EXCEPT !.cr4 = Set(cr4_t, @, values)], "mov cr4")

Report(fpu, features) == [fpu EXCEPT !.reported = @ \cup features]

\* init_fpu's part for the x87.
StartX87(features, fpu) ==
  IF "fpu" \notin features THEN fpu
  ELSE Instruction(set_cr0(Report(fpu, {"fpu"}), [mp |-> 1, em |-> 0, ts |-> 0]), "fninit")

\* An SSE part that loads mxcsr before it writes cr4.
StartSseEarly(features, fpu) ==
  IF features \cap {"sse", "sse2"} = {} THEN fpu
  ELSE set_cr4(Instruction(Report(fpu, features \cap {"sse", "sse2"}), "ldmxcsr"),
               [osfxsr |-> 1, osxmmexcpt |-> 1])

\* Its part for SSE: cr4 first, then mxcsr.
StartSse(features, fpu) ==
  IF features \cap {"sse", "sse2"} = {} THEN fpu
  ELSE Instruction(set_cr4(Report(fpu, features \cap {"sse", "sse2"}),
                           [osfxsr |-> 1, osxmmexcpt |-> 1]), "ldmxcsr")

\* These are only reported.
Plain == {"mmx", "sse3", "ssse3", "sse4_1", "sse4_2"}

\* Its part for AVX.  cpuid's osxsave feature is cr4's bit at entry: the part
\* is skipped where nobody has set the bit before the kernel.
StartAvx(features, fpu) ==
  IF ~({"avx", "osxsave"} \subseteq features) THEN fpu
  ELSE LET on == Instruction(set_cr4(Report(fpu, {"xsave", "avx_256"}), [osxsave |-> 1]),
                             "xsetbv")
       IN [on EXCEPT !.xcr0 = @ \cup {1, 2}]

init_fpu(cpu) ==
  LET features == FpuFeatures(cpu)
      sse == StartSse(features, StartX87(features, FpuAtEntry(cpu)))
  IN StartAvx(features, Report(sse, features \cap Plain))

\* The bits a reported feature relies on, as the processor has them.
Relies(fpu, feature) ==
  CASE feature \in {"sse", "sse2", "sse3", "ssse3", "sse4_1", "sse4_2"} -> 9 \in fpu.cr4
    [] feature = "avx_256" -> 18 \in fpu.cr4 /\ {1, 2} \subseteq fpu.xcr0
    [] feature = "xsave" -> 18 \in fpu.cr4
    [] feature = "fpu" -> 1 \in fpu.cr0
    [] feature = "mmx" -> TRUE
=============================================================================
