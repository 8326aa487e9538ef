-------------------------------- MODULE MCBoot --------------------------------
EXTENDS Boot

\* apic, fpu, mmx, sse and sse2; sse3, ssse3, sse4_1, sse4_2, x2apic and avx.
AllEdx == {0, 9, 23, 25, 26}
AllEcx == {0, 9, 19, 20, 21, 22, 28}

UsualCpu == [basic |-> 13, ext |-> Ext + 8, extNamed |-> TRUE, ecx |-> AllEcx, edx |-> AllEdx,
             power |-> {0, 8}, cr0 |-> {0, 2}, cr4 |-> {}]

\* A processor with the later extensions has the earlier ones.
Cpus == {c \in [basic : {1, 13}, ext : {Ext, Ext + 4, Ext + 8}, extNamed : BOOLEAN,
                ecx : {{}, AllEcx}, edx : {{0}, {9}, {0, 9, 23, 25}, AllEdx},
                power : {{}, {0}}, cr0 : {{0}, {0, 2, 3}}, cr4 : {{}, {18}}] :
           c.ecx = {} \/ c.edx = AllEdx}

EndTag == <<Tag("END", 8)>>
Tables == <<"FACP", "APIC">>

UsualTags == <<Tag("CMDLINE", 9), FramebufferTag(32, 1, 7), ModuleTag(3, <<"NOTE", "LOAD">>),
               RsdpTag("ACPI_OLD", TRUE, TRUE, Tables)>> \o EndTag

TagPool == {Tag("CMDLINE", 9), Tag("MMAP", 24), FramebufferTag(32, 1, 7),
            FramebufferTag(24, 1, 7), FramebufferTag(32, 0, 2),
            ModuleTag(3, <<"NOTE", "LOAD", "LOAD">>), ModuleTag(1, <<>>),
            RsdpTag("ACPI_OLD", TRUE, TRUE, Tables), RsdpTag("ACPI_NEW", TRUE, FALSE, Tables),
            RsdpTag("ACPI_NEW", TRUE, TRUE, <<"FACP">>), RsdpTag("ACPI_OLD", FALSE, TRUE, <<>>)}

UsualMadt == <<LapicEntry(0, TRUE), LapicEntry(2, TRUE), LapicEntry(1, TRUE),
               IoApicEntry(IoApicPage), IsoEntry(0, 0, 2), IsoEntry(0, 9, 9)>>
             \o SetToSeq(OtherEntries)

MadtPool == {LapicEntry(1, TRUE), LapicEntry(1, FALSE), IoApicEntry(IoApicPage),
             IoApicEntry(IoApicPage + 1), IsoEntry(0, 0, 2), IsoEntry(0, 0, 3),
             IsoEntry(0, 12, 20), IsoEntry(1, 5, 5), IsoEntry(0, 30, 5)} \cup OtherEntries

Upto(S, n) == UNION {[1..k -> S] : k \in 0..n}

\* A core is listed once, and the boot core always.
Madts == {m \o <<LapicEntry(0, TRUE), LapicEntry(2, TRUE)>> :
            m \in {n \in Upto(MadtPool, 3) :
                     Cardinality({i \in DOMAIN n : n[i].type = "lapic"}) <= 1}}

\* The msr of the boot core, of a core that is not, of one in x2apic mode,
\* and of one whose registers were moved.
UsualMsr == Set(apic_msr_eax, {}, [is_bootstrap_processor |-> 1, base_low_page_idx |-> LapicPage])
Msrs == {UsualMsr, Set(apic_msr_eax, UsualMsr, [is_bootstrap_processor |-> 0]),
         Set(apic_msr_eax, UsualMsr, [x2apic |-> 1, apic_enable |-> 1]),
         Set(apic_msr_eax, UsualMsr, [base_low_page_idx |-> LapicPage + 1])}

Usual == [hasCpuid |-> TRUE, cpu |-> UsualCpu, multiboot |-> TRUE, tags |-> UsualTags,
          madt |-> UsualMadt, msr |-> UsualMsr, madtLapic |-> LapicPage, boot |-> 0,
          checksLimits |-> FALSE]

MCMachines ==
  {[Usual EXCEPT !.cpu = c] : c \in Cpus}
  \cup {[Usual EXCEPT !.tags = t \o EndTag] : t \in Upto(TagPool, 3)}
  \cup {[Usual EXCEPT !.tags = t \o UsualTags] : t \in Upto(TagPool, 2)}
  \cup {[Usual EXCEPT !.madt = m] : m \in Madts}
  \cup [hasCpuid : BOOLEAN, cpu : {UsualCpu}, multiboot : BOOLEAN, tags : {UsualTags},
        madt : {UsualMadt}, msr : Msrs, madtLapic : {LapicPage, LapicPage + 1},
        boot : {0, 1}, checksLimits : BOOLEAN]
=============================================================================
