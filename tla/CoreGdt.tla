------------------------------- MODULE CoreGdt -------------------------------
(***************************************************************************)
(* The descriptor table of the running kernel: the loader's entries and    *)
(* two data segments for each core, over the core's own cells of           *)
(* all_fs_and_gs.  A core keeps its number in the first word of the        *)
(* segment that its fs selects; every lock, print and interrupt reads it   *)
(* back from there.                                                        *)
(***************************************************************************)
EXTENDS Integers, Sequences

CONSTANTS MaxCores,   \* MAX_CORE_COUNT
          OldEntries, \* entries of the boot loader's table
          Area        \* the address of all_fs_and_gs

\* The selectors that the code computes start behind four entries: a loader's
\* table with fewer would move every core's segments below its selectors.
ASSUME GdtAssumption ==
  /\ MaxCores \in Nat \ {0} /\ Area \in 0..2^30
  /\ OldEntries \in Nat /\ OldEntries >= 4

Cores == 0..MaxCores - 1

\* A descriptor has its base in three parts and its limit in two.
Descriptor(base, limit) ==
  [base_low |-> base % 2^16, base_middle |-> (base \div 2^16) % 2^8,
   base_high |-> base \div 2^24,
   limit_low |-> limit % 2^16, limit_high |-> (limit \div 2^16) % 2^4]

Base(d) == d.base_high * 2^24 + d.base_middle * 2^16 + d.base_low
Limit(d) == d.limit_high * 2^16 + d.limit_low

\* The loader's segments cover all memory, in pages.
Flat == Descriptor(0, 2^20 - 1)

\* all_fs_and_gs: a byte for fs, padding, and a word for gs.
FsOf(core) == Descriptor(Area + 8 * core, 1 - 1)
GsOf(core) == Descriptor(Area + 8 * core + 4, 4 - 1)

\* The bytes of all_fs_and_gs.
AreaBytes == Area .. Area + 8 * MaxCores - 1

NewEntries == 4 + 2 * MaxCores

-----------------------------------------------------------------------------
\* init_new_gdt copies the loader's table; more entries than fit are an error.
CopyFits == OldEntries <= NewEntries
init_new_gdt == [i \in 1..OldEntries |-> Flat]

\* add_gdt_entry refuses an entry when the table is full.
EntryFits(gdt) == Len(gdt) < NewEntries

\* add_multicore_gdt_entry adds the fs and then the gs segment of each core.
NextSegment(n) ==
  IF (n - OldEntries) % 2 = 0 THEN FsOf((n - OldEntries) \div 2)
                              ELSE GsOf((n - OldEntries) \div 2)

AllAdded(gdt) == Len(gdt) = OldEntries + 2 * MaxCores

\* The table is counted from 0.
Segment(gdt, index) == gdt[index + 1]

-----------------------------------------------------------------------------
\* Index 4 and 5 for every core.
SelectorShared(core, gs) == 4 + gs

\* set_fs_or_segment_selector and core_bootstrap32: gs is 0 for the fs segment.
Selector(core, gs) == 4 + 2 * core + gs

\* set_fs_or_segment_selector exchanges the registers.
BootCoreFs(core) == Selector(core, 1)

\* core_bootstrap32 does not.
CoreFs(core) == Selector(core, 0)

\* mov fs:[0], eax writes four bytes, of which the core's number is the first.
StoreId(cells, segment, core) ==
  [a \in AreaBytes |->
     IF a = Base(segment) THEN core
     ELSE IF a \in Base(segment) + 1 .. Base(segment) + 3 THEN 0 ELSE cells[a]]

\* All four are inside the segment.
StoreFits(segment) == Limit(segment) >= 3

\* get_core_id_fast keeps the lowest byte.
ReadId(cells, segment) == cells[Base(segment)]
=============================================================================
