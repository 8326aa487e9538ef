# MapleKernel in TLA+

TLA+ models of MapleKernel (the 32-bit kernel under `src/ProtectedMode`) from
`kernel_main` to the event loop: its locks, prints, timer, inter-processor
interrupts, the waking of the cores, the PS/2 controller with keyboard and mouse,
the terminal and what it is given to print, and the tables and registers the boot
goes through. TLC checks them on small instances. TLAPS checks proofs, for every
instance, about the two locks and the prints under them, the timer, the waking of
the cores, the inter-processor mailbox, the set-up of the PS/2 controller, the
keyboard's commands, the input handlers, the terminal, the formatter and the boot
path. Paths below are relative to `src/ProtectedMode` of the repository.

## 1. Inventory

MapleKernel boots a PC in protected mode on one core, sets up descriptors,
interrupts, the PIT and the PS/2 controller, then wakes every other core and
lets all of them print. There are no processes. What runs at the same time is:
the cores, the interrupt and exception handlers nested on each core, and the
hardware (PIT, local APICs, IOAPIC, PICs, PS/2 controller and its devices).

| part | state it keeps | operations | talks to | what is hard, what must hold |
|---|---|---|---|---|
| reentrant lock (`cpu/multicore/multicore.c`) | one 32-bit word: flag, owner core, recursion count | lock, trylock, unlock | kprintf | interleaved compare-and-swaps, stale copies, the count's limit; exclusion, a truthful word |
| spin lock (`stdlib/atomic.h`) | one word | lock, trylock, unlock | the IPI mailbox | weak compare-and-swap; exclusion |
| kprintf (`stdio/stdio.c`, `stdlib/assert.h`) | the lock, the interrupt flag saved by each call | print, abort | every part; called from handlers and exceptions too | a handler or a fault inside a print; a core that dies holding the lock; output exclusive, flags restored |
| printf formatting (`stdio/stdio.c`, `string_helper.c`, `bit_hex_string.c`) | fields found in the format | scan, convert, pad | terminal | text that looks like options; widths and groups; every argument once, in order |
| VGA terminal (`stdio/vga_terminal.c`) | history buffer, writing row and column, window | put, wrap, scroll, cursor keys | kprintf, keyboard | row arithmetic at the ends of the buffer; keys in the middle of a print |
| PIT timer (`timers/pit`) | `pit_interrupt_handled`, message table, mode | wait, asynchronous timeout, precise wait, two interrupt handlers | waking of cores, LAPIC calibration | lost wake-up, stale timeout, table bound, units; waits last and return |
| waking the cores (`kernel/cpp/kernel_cpp.cpp`, `cpu/apic/apic.cpp`, `cpu/multicore`) | `core_mains`, `core_has_booted`, `entered_main`, `core_is_active` | INIT, SIPI, polls, the cores' bootstrap | PIT, kprintf, GDT | a core that boots late or never; order of setting main and SIPI |
| inter-processor interrupts (`cpu/apic/apic.cpp`) | `last_interrupt_received` | `send_ipi`, `wait_till_interrupt` | spin lock | the lock's release on every path; a post between a wait's read and its clearing |
| PS/2 controller setup (`drivers/ps2/controller`, `drivers/ps2/ps2.c`, `cpu/idt/idt_ps2.c`) | configuration byte, devices found, IDT entries, masks | the ten steps of `setup_ps2_controller`, `handle_ps2_setup` | controller, devices, PIC, IDT | all bytes share one buffer; late, missing and unexpected bytes; handlers match devices |
| keyboard commands (`ps2_keyboard.c`) | `kps` (active port, scan code set), the keyboard's gate and line | set-up, scan code set, LEDs, typematic, scanning, reset | controller, IDT, PIC, IOAPIC | retries; answers mixed with keys and mouse bytes; the gate taken away meanwhile |
| keyboard decoder (`ps2_keyboard_handler.c`) | prefix and sequence flags, held keys | the interrupt handler, the LED exchange inside it | keyboard commands, keycodes | sequences sharing bytes, answers mixed with keys; strokes in order |
| keycodes (`drivers/ps2/keyboard/cpp`) | tables, modifiers | translate, report | decoder, terminal | extended codes, modifiers in force |
| mouse packets (`ps2_mouse_handler.cpp`) | packet index, position, pen | the interrupt handler | framebuffer, event loop | a lost byte shifts packets; sign, overflow, range |
| framebuffer (`framebuffer`) | the memory of the screen | pixels, lines, rectangles, test picture | mouse, event loop | no coordinate is checked in the release build |
| GDT (`cpu/gdt`) | the table, each core's fs and gs cells | copy, add, load | locks, prints, interrupts (the core's number) | cells a byte apart, selectors computed in two places |
| IDT, 8259 PIC, IOAPIC (`cpu/idt`, `cpu/pic`, `cpu/apic_io`) | gates, masks, redirection registers | fill, mask, route | every handler | cascade line, overrides, no end of interrupt at the PIC |
| local APIC and its timer (`cpu/apic`) | the registers | enable, calibrate, start | PIT, IDT | order of the register writes |
| ACPI, MADT, multiboot (`firmware`) | parsed tables | walk | waking of cores, IOAPIC | lengths of variable entries, missing tables |
| cpuid, control registers, FPU (`cpu/cpuid`, `cpu/control_registers`, `cpu/fpu`) | cached limits and names | ask, enable | kernel main | limits cached in a certain order; features and the bits that enable them |
| kernel main (`kernel`) | | the order of all of the above, the event loop | everything | |
| virtual memory, real-mode calls, USB stubs, BIOS/EFI placeholders, C library | little or none | | | section 6 |

`PROJECT.json` lists every component with its status, and the hazards at their
lines with the properties that would catch them.

## 2. Modules

| module | models | state and actions |
|---|---|---|
| `ReentrantMutex` | what a reentrant lock promises | `depth[c]`: acquisitions each core has open |
| `ReentrantLock` | `multicore.c` | the lock word and each context's copy; one action per atomic access; contexts of a core share its owner bits |
| `Kprintf` | `kprintf_argc`, `vkprintf`, the handlers and aborts that print | an instance of `ReentrantLock` whose contexts are `<<core, nesting level>>`, plus each core's stack of prints and interrupt flag |
| `Printf` | `set_types_and_pos`, `kprintf2_argc_check`, `vkprintf`'s loop, the printers of numbers | the fields found so far, the arguments taken, the text written |
| `Terminal` | `vga_terminal.c` | row, column, window, history, screen; `terminal_putchar` down to `terminal_increase_row` load by load, and the handler of a key on another core |
| `SpinLock` | `atomic.h` | the word, where each core is, who holds it |
| `Pit` | `pit.cpp`, its two handlers, `pit_quick.hpp` | the 8254's mode and count, the pending interrupt, the flag, the message table; one action per instruction that matters to interrupts |
| `SmpBoot` | the wake-up loop and the application cores | an instance of `Pit`, the boot core's position in `wake_core`, each application core's |
| `Ipi` | `send_ipi`, `wait_till_interrupt` | an instance of `SpinLock`, the mailbox, each APIC's pending vectors, the entry a wait has read |
| `I8042` | the PS/2 controller and devices (external), the driver's status tests | configuration byte, one-byte output buffer, pending answers, queues of the devices |
| `Ps2Setup` | steps 3 to 10 of `setup_ps2_controller`, `handle_ps2_setup`, `quick_enable_mouse`, `idt_init_ps2` | extends `I8042`; one action per send and per byte received |
| `IrqChips` | the two PICs, the IOAPIC, the local APIC and the gates between a port and its handler | masks, requests, lines in service, routed lines, pending vectors, vectors in service, present gates |
| `KeyboardSetup` | `setup_keyboard`, the driver's commands, `setup_interrupts_and_ps2` and the take-over by the IOAPIC | extends `IrqChips`; operations still to do, where `send_data_to_ps2_keyboard` is, the keyboard itself |
| `OutputBuffer` | the controller's output buffer once both lines reach the boot core | the byte in it, each device's queue, the interrupts held |
| `Keycodes` | scan code tables, packing, `keycode_handler` | operators |
| `KeyDecoder` | `keyboard_handler_scs1`, `set_leds` inside the interrupt | the decoder's static flags, the held keys, the strokes made and reported (histories) |
| `Framebuffer` | `framebuffer.cpp` | operators from the memory of the screen to the next |
| `Mouse` | `mouse_handler`, `cpp_event_loop` | the packet so far, position and pen, the memory of the screen, the loop's saved pixel |
| `Input` | the boot core after set-up | composes `KeyDecoder` (with `Keycodes`) and `Mouse` (with `Framebuffer`) on one `OutputBuffer` |
| `Registers` | the bit-field structs of the processor, local APIC and IOAPIC | layouts; a field has the bits its struct gives it, the hardware reads bits |
| `Cpu` | `cpuid.cpp`, `fpu.cpp` | operators on the record of cached answers |
| `Firmware` | multiboot tags, RSDP, RSDT, MADT | chains of elements with the sizes they state, and the steps of the walks |
| `CoreGdt` | `multicore_gdt.cpp`, the segment loads of the cores | descriptors split as in memory, the cells behind fs and gs |
| `Boot` | `kernel_main`, `multicore_setup`, `init_io_apic`, `init_lapic`, `start_timer` | composes the four above; the machine, where the kernel is, what it found, the registers it wrote |
| `ReentrantLockProofs`, `KprintfProofs`, `SmpBootProofs`, `IpiProofs`, `Ps2SetupProofs`, `KeyboardSetupProofs`, `InputProofs`, `BootProofs` | | the proofs about the module they are named after; `KprintfProofs` has those of `Printf` and `Terminal` too, `SmpBootProofs` those of `Pit`, `IpiProofs` those of `SpinLock`, `InputProofs` those of `KeyDecoder` and `Mouse` as `Input` composes them |

The modules `MC...` give the constants their values. Definitions whose comment
describes a mistake (`ReleasedAtOnce`, `ClearNothing`, `WrapLate`, ...) are
plausible bugs: each, put in the place of the definition that follows it, makes
the run named in `PROJECT.json` fail, which shows that the property can fail.

What each module takes for granted:

- `ReentrantLock`, `SpinLock`: atomic accesses are sequentially consistent. The
  lock word is split into its three fields; the test of `OWNER_MASK` is equality
  of owners because APIC identifiers fit the field.
- `Kprintf`: a fault or assertion strikes only while a print is formatting;
  `_abort`'s last word, written without the lock, is left out. The exception
  handlers are those `idt_init` leaves installed: the stubs (a message and a loop),
  handler 11 (three messages and a loop), handlers 8 and 13 (two messages and an
  `iret`). The last two never take the error code off the stack, so their `iret`
  raises the next exception; 13 has put a breakpoint on it by then and the debug
  exception's stub ends it. Handler 5 loads every data segment with selector
  0x10, the kernel's code segment, and cannot store to the lock
  (`BoundFault`); no instruction of the kernel raises its exception.
- `Printf`: a number has `Bits` bits, 32 in the code; a floating-point argument
  is a number of eighths, whose digits the code computes exactly. What an
  uninitialised field of `printf_information` holds is any of a few values.
  `PrintsTheCall` speaks of calls whose fields are all `Clear`: not those that the
  next text continues, nor more than 16 columns (asserted), the smallest int, a
  padded negative number, a string read behind its end, or more than six decimals
  (section 3). The reference of a decimal fraction is `Fixed`, not
  the code's own `ftoa`.
- `Terminal`: one context prints at a time (`Kprintf`). Characters are letters,
  tabs and newlines; colours and the serial copy are left out. A store outside
  the history ends the behaviour. `terminal_putentryat` is two steps: the row it is
  called with and the store into the history (`Put`), then the test and the copy
  to the screen (`Show`). The source names `scroll_row` three times in the latter,
  as plain reads with no call in between; both builds are compiled with `-O3`
  (`build32.sh`), which makes them one load. Once keys are pressed no property is
  about the screen's contents; `LineIsShown` is, before.
- `Pit`: time is counted in PIT clocks, and floating-point seconds become
  integers of clocks, so `compute_pit_wait` is exact integer arithmetic. A
  pending interrupt is taken before the next instruction when IF is set, except
  that `sti; hlt` is one step, as on x86. The handler's game mode is left out.
  `noisy` records that another device woke the core during the current call.
- `SmpBoot`: the pauses are scaled down keeping their order; `wake_core`'s
  `finished` is one cell that each call reuses. Prints are left out: a core
  here never waits for the print lock (`Kprintf`'s `PrintsComplete` is about
  that).
- `Ipi`: `cpp_main` sends (`kernel_cpp.cpp:249`); the calls of
  `wait_till_interrupt` are commented out at this commit, so the module is
  about the function. A wait's read of the mailbox and its clearing are separate
  steps; `posted` is the history of what was sent and not yet read. The handler's
  `apic_wait_interrupt_handled` is written and, as in the code, never read.
- `I8042`: the output buffer holds one byte; the controller answers one command
  before it takes the next byte; its self test keeps the configuration byte; a
  port whose clock is off sends nothing. Devices may be late, absent, unknown,
  or send a key at any time. A bounded wait may run out before an answer that
  is on its way (`late`).
- `Ps2Setup`: steps 1 and 2 always succeed (USB is two stubs, existence is not
  tested).
- `KeyboardSetup`: the controller is set up; it starts with
  `setup_interrupts_and_ps2` and ends with the take-over. A keyboard may refuse
  a byte, answer late or not at all; keys and mouse bytes come in between. A read
  of the empty buffer returns the byte before. A reset (0xFF) and a return to the
  defaults (0xF6) bring the keyboard back to its set 2 (`reverted`, until the driver
  sets a set again). The handler ends its interrupt at the local APIC in set 1
  only: `keyboard_handler_scs3`, which serves sets 2 and 3, does not, and its vector
  stays in service (`service`).
- `KeyDecoder`: port 1. The keyboard sends the bytes of a stroke together. They
  depend on the modifiers held (`Forms`): Print has other codes with Shift, Ctrl or
  Alt, Pause with Ctrl, and a grey key is enclosed in shift codes with Shift or
  Num Lock. `altered` records that a stroke had other bytes than its own.
  `astray` (in `OutputBuffer`) records that a reader got a byte that was not its
  own.
- `Mouse`, `Framebuffer`: the screen is a few pixels wide and the test picture is
  scaled with it. The release build, which checks no coordinate; a colour is a
  number. `picture` is all that was drawn; `lost` are the pixels that a line crossed,
  in another colour, while they were under the cursor.
- `Boot`: the machine is chosen at the start (`Machines`). The PS/2 set-up, the
  timer's calibration and the wake-up protocol are single steps here, being
  modules of their own. `checksLimits` tells processors from emulators that do
  not check segment limits. The label `wild` is where the code follows a
  pointer it never got, `overrun` where it stores behind an array: `parse_madt`'s
  arrays have the sizes of `MADTParseResult` (`MaxEntries`), and `irq_to_gsi` has 24
  entries; what comes after either is undefined and not followed.
  `MachinesAssumption` says what a machine is: a processor
  that has the leaves it announces and the older of two features where it has the
  newer, tags and MADT entries that are not empty, an end tag only at the end, core
  numbers inside the kernel's arrays, and overrides that wire the three devices to
  inputs of their own. What the bit fields of the control registers, the
  local APIC and the IOAPIC come to (`ControlBits`, `RegisterWords`) is arithmetic
  on fixed words, which TLC evaluates.

## 3. Runs

| run | configuration | checks |
|---|---|---|
| `lock` | 2 cores with a nested context each, recursion up to 2; 1.5 million states | `WordCounts`, `MutualExclusion`, `OnlyOwnerChanges`, and `ImplementsMutex`: the lock implements `ReentrantMutex` |
| `kprintf` | 2 cores, 2 prints each, nested 2 deep, one message of an abort; 365,000 states | `OutputExclusive`, `IrqFlagIsKept`, `FaultIsReported`, `PrintsComplete` |
| `pit` | durations 0, 1 ms, 1/144 s, one cycle, 2.5 cycles; 2 message slots, 2 cells; 46,000 states | `SlotInBounds`, `WaitLastsItsCounts`, `QuietCallsReturn` |
| `smp_boot` | 3 application cores, boot core second in the MADT, IPIs may time out, 2 long polls; 5,600 states | `MainIsSet`, `SetupIsComplete`, `SetupEnds` |
| `ipi` | 2 cores, 1 vector; 120,000 states | `MailboxExclusive`, `NoPostIsLost` |
| `ps2_setup` | 1 or 2 ports, 5 kinds of device each, 3 firmware configurations, up to 3 keys, emulator build; 372,000 states | `PortsReady`, `ReportsTheDevices`, `SetupReturns` |
| `keyboard` | 5 machines (keyboard on port 1, on port 2, alone, twice, none), one key, one mouse byte, one late or failed byte, two commands after the set-up; 861,000 states | `GatePresentWhenTaken`, `SetsAgree`, `SetupEnds`, `BytesAreServed` |
| `input` | 3 strokes among 19 that share bytes, modifiers among them; or 2 packets among 7 movements with the event loop on a 6 by 6 screen; or 2 strokes with lock keys and one packet together; 821,000 states | `SequenceIndexInBounds`, `StrokesInOrder`, `OwnBytes`, `CursorFollowsMouse`, `CursorLeavesNoTrace`, `LineIsStraight` |
| `boot` | processors of several ages, tag lists of up to 3 tags out of 11, MADTs of up to 3 entries out of 9 and every other kind, boot core first or not, APIC on, moved, in x2APIC mode; 154,000 states | `CachesAreRight`, `FpuIsReady`, `FindsTheTables`, `FastIdIsOwn`, `IrqsAreRouted` |
| `terminal` | 2 by 2 window on a history of 4 rows, numbers modulo 16, 2 keys at any moment of any print; 1.9 million states | `WindowInHistory`, `StoresInHistory`, `LineIsShown` |
| `printf` | all fields over edge values of 12-bit numbers, and all formats of up to 3 of 10 pieces; 56,000 states | `PrintsTheCall`, `TextFromFormat`, `DigitsKept` |
| `boot_core_id` | as `boot`; expects a violation | `EveryCoreBoots` |

The bounds are enough for the cases that matter. The recursion limit, the last
message slot, the last sequence index, the last row of the history and the wrap
of an unsigned row are reached. Two cores suffice for every race on the
reentrant lock, since its word distinguishes only the owner and the others;
nesting two deep has a handler inside a fault's victim. An abort's
four messages are one in `kprintf`; the exception handlers keep their two and three,
so a second and a last message are met. Three application cores
give a first, a middle and a last, with a stale timeout between each two. Two
long polls are a first and a last. Three keys can displace an acknowledgement, a
self-test byte and an identification byte of one device. In `keyboard` the one
late answer can be mistaken for each later one, and the key and the mouse byte
can each take the place of an answer. Twelve bits give three hexadecimal digits,
which is a full group less one; the widths asked for go past the number's own.
Two packets draw a line and another from its end, shallow and steep, forth and back.
The MADT pool has overrides that move the timer onto another line's input and the
mouse past the sixteen, and one of an interrupt the IOAPIC has no input for. Three
entries overfill the two of `lapic_address`.

### What the runs found

`boot_core_id` expects a violation. The segment that an application core's fs
selects admits one byte (`multicore_gdt.cpp:94`: the limit is
`sizeof(FS_CONTENT) - 1`, and the type has one byte), and
`core_bootstrap32` stores the core's four-byte number through it. Where limits
are checked the store faults before the core has an interrupt table, and
`kernel_cpp.cpp:203` stops the kernel because the core is not active. An emulator
that checks no limits for data segments boots.

Met while modelling, and in the models as the code has it, without a run of their
own:

Timer and cores
- another interrupt can wake `hlt` and the PIT's come before the next `hlt`: the
  wait then never returns (`pit.cpp:172`; `QuietCallsReturn` excludes it by
  `noisy`);
- the part of a wait below a full cycle is 65536/1193182 of what was asked
  (`pit.cpp:161`);
- the timeout armed for one core is never cancelled and ends the next core's
  pause after INIT (`apic.cpp:332`); it is written through the address of a local
  of a call that has returned (`apic.cpp:330`);
- a core that never starts is polled for ever, interrupts being off
  (`apic.cpp:338`; `Silent` is empty in `smp_boot`); disabled processors of the
  MADT are woken too;
- the search loop of `wait_till_interrupt` takes the mailbox lock again without
  releasing it (`apic.cpp:401`), and an interrupt between its `sti` and `hlt` is
  slept through (`apic.cpp:396`);
- fs:0 is read (by the locks, and at `apic.cpp:140`) before fs is set;
  `core_is_active[0]` is set whichever core booted; the arrays of the 12 cores are
  indexed unchecked.

Boot
- `cr4_t` has osxsave at bit 15, reserved in the processor, where 18 is meant
  (`fpu.cpp:117` says "TODO: It doesn't work even with avx256 enabled"); leaf 1's
  ecx has a reserved bit too many, so the x2APIC and TSC-deadline bits are read one
  place off;
- `get_cpuid_max` asks the first extended leaf, and is right only because the
  vendor was asked for before; `TSC_INFO` is above the last leaf `call_cpuid`
  accepts; `edx &= (1 < 8)` tests bit 0; only the boot core's FPU is set up;
- a missing MADT or RSDT leaves a null pointer that is followed; `io_apics[0]` is
  read before their number is tested; a MADT entry of length 0 stops the walk for
  ever; every redirection goes to core 0;
- the framebuffer's type is read as `bool`, so any but 0 passes;
  `get_module_location` ignores a missing module; the entry point is taken from the
  first loadable segment;
- `parse_madt` fills its arrays without comparing counters with sizes (two local APIC
  address overrides are all it has room for; `madt.hpp:172`), and an override of an
  interrupt above 23 is stored behind `irq_to_gsi` (`kernel_cpp.cpp:133`);
  `FindsTheTables` allows the label `overrun` for such MADTs only.

PS/2
- steps 8 and 9 of the PS/2 setup use the second port of a one-port controller
  (`ps2_controller.c:1078`);
- the mouse is always enabled on port 2, wherever it was found
  (`ps2_mouse.cpp:33`), and `assert(res = 0xFA)` assigns (`ps2_mouse.cpp:40`);
- a key typed between `sti` and `set_scan_code_set` aborts the kernel
  (`ps2_keyboard_handler.c:112`); a failed `set_scan_code_set` leaves the
  keyboard's gate absent (`ps2_keyboard.c:613`); a reset and a return to the
  defaults leave the remembered set stale (`SetsAgree` ends there: `reverted`);
  disabling the scanning sends the command that enables it;
- an acknowledgement that comes after its wait was given up passes for the next
  one (`ps2_keyboard.c:181`); one that `set_leds` did not read is decoded as the
  release of code 122, past `is_key_pressed` (`ps2_keyboard_handler.c:398`);
- a Pause whose bytes went astray is never set back, so further ones raise the
  counter past the table of its sequence, which is then read beyond its end
  (`ps2_keyboard_handler.c:247`); `SequenceIndexInBounds` claims that index only
  while each byte goes to its own reader;
- after Pause the extended prefix is no longer seen, and extended keys are
  decoded as plain ones (`ps2_keyboard_handler.c:251`);
- with a modifier held, Print sends 0xE0 0x37 and 0xE0 0xB7: the first is no key of
  the tables, the second begins print screen's four-byte sequence
  (`ps2_keyboard_handler.c:176`), which swallows a byte of the next stroke; so do the
  shift codes around a grey key. `StrokesInOrder` ends at such a stroke (`altered`);
- `keyboard_handler_scs3` sends no end of interrupt (`ps2_keyboard_handler.c:298`):
  after the first key in set 2 or 3 neither keyboard nor mouse is served any more
  (`BytesAreServed` excludes it by `service`);
- the decoder's arrays have two entries and are indexed by port numbers 1 and 2
  (`ps2_keyboard_handler.c:148`);
- a byte that waits in the controller when its line is routed to the IOAPIC has
  no further edge, so nobody reads it and the line stays dead
  (`kernel_cpp.cpp:141`);
- the mouse's position is kept above zero but not on the screen, and the drawing
  functions of the release build check nothing (`ps2_mouse_handler.cpp:200`);
- a line that starts under the cursor loses that pixel: the loop paints the colour it
  saved before over it (`kernel_cpp.cpp:264`; `CursorLeavesNoTrace` excepts it as
  `lost`).

Prints
- `_abort` writes its last message without the lock (`assert.h:25`);
- the handlers of exceptions with an error code return without taking it off the
  stack, and that of BOUND loads the code segment's selector into the data segments
  (`exception_handler.asm:165`);
- more than six decimals are never shown: `vga_terminal.c:465` takes the smaller of
  the precision and six, where the comment on formats (`stdio.c:20`) says "%f.4 (show
  at least 4 digits of precision)"; `PrintsTheCall` excludes such fields (`Clear`), and
  without that exclusion TLC's counterexample is `%f.9`;
- an option character without a number leaves the field's length uninitialised;
  a field of an unknown type takes no argument; `string_to_uint` reads the byte
  before its array, and eight digits overrun it; a negative number is padded one
  short, and the most negative one has no digits;
- `terminal_putentryat` copies to the screen from a row that is right only while
  the window is at the top, which plain printing does not notice; clearing the
  screen swaps character and colour; the arrow keys move the writing row outside
  the history (`vga_terminal.c:186`; `vga_terminal.h:58` promises
  "[0, VGA_MEM_HEIGHT]"), which is why `StoresInHistory` ends at the first one.

### Fairness

- `Kprintf`: weak fairness of each core that is not stopped, because a core
  executes instructions. Entering a print is never fair.
- `Pit`, `SmpBoot`: weak fairness of the counter and of taking an enabled
  interrupt; strong fairness of the boot core's own steps, because the rate
  generator's interrupts are 55 ms apart and cannot starve it; weak fairness of
  each application core that has been started and is not in `Silent`. Interrupts of
  other devices are never fair, and `QuietCallsReturn` and `SetupEnds` promise
  nothing once one of them came (`noisy`).
- `Ps2Setup`: weak fairness of the driver and of the controller's answers;
  none of the devices and the user.
- `KeyboardSetup`: weak fairness of the kernel, whose polling loops are bounded,
  of the controller handing over a byte when its buffer is free, and of taking a
  pending interrupt, since interrupts stay on; none of the user. `SetupEnds` holds
  whatever the keyboard answers.

Deadlock checking is off where the code may really stop: cores halt after an
abort, a boot and a print end, setups end, users stop typing, a full recursion
count waits for itself, and `wait_till_interrupt` may take its lock twice.

## 4. Proofs

`ReentrantLockProofs` proves for any set of cores and contexts and any recursion
limit (`LockAssumption`: cores are numbers, every context has a core, the limit is
positive):

- `TypeCorrect`, `WordIsTruthful`, `Exclusion`: the invariants `TypeOK`,
  `WordCounts`, `MutualExclusion`;
- `HeldLockIsOwners`: the action property `OnlyOwnerChanges`;
- `Refinement`: `Spec => ImplementsMutex`.

The inductive invariant is `IInv == TypeOK /\ WordCounts /\ FastPathOwns`. Mutual
exclusion says nothing about the word, and a step is a compare-and-swap on the
word. `WordCounts` ties the word to the cores' open acquisitions, so when a swap
succeeds its expected word, equal to the one in memory, tells the truth.
`FastPathOwns` is needed because the fast path of `reentrant_lock` increments
without testing the owner again at the swap itself. The action lemmas are one per
kind of effect (`LoadInv`, `MoveInv`, `LeaveInv`, `AcquireInv`, `ReleaseInv`), and
`StepInv` sends every action to one of them. For the refinement, `MutexStep` shows
that a successful swap is a step of the mutex and any other step a stutter.

`KprintfProofs` proves `TextsDoNotMix` (`OutputExclusive`) and `FlagIsKept`
(`IrqFlagIsKept`), for any number of cores, any nesting and any number of prints
(`KprintfAssumption`: cores are numbers, the limits positive). `LockUsed` shows that
every step is a step of the reentrant lock or leaves it alone, so the lock's
inductive invariant carries over from `ReentrantLockProofs`. `KInv` adds what
kprintf makes of the lock: only a core's topmost activation is inside the lock's
code, in the function its phase names (`InLock`); the lock's count of a core is the
number of its activations between lock and unlock (`Counted`), which turns the
word's one owner into one printing core; how activations can be nested (`Nested`):
nothing that waits below another is between `irq_save` and `irq_restore` but in
its text, and nothing is there at all below one that an interrupt started; and
where the interrupt flag may be set (`Flagged`). `FlagIsKept` needs the last two together: the
flag an activation saved is the kernel code's own only because no interrupt comes
inside `irq_save .. irq_restore`.

Of the terminal it proves, for every width, every history taller than the window
and every size of number in which a row of the history plus a window fits
(`TerminalAssumption`; in the code 25 rows, 1000 rows and 32 bits):

- `WindowCorrect` (`WindowInHistory`): the window is clamped in the step that sets
  it, whatever row it is computed from, so the invariant needs no help from the
  row;
- `StoresCorrect` (`StoresInHistory`): `RowInv` adds that, until an arrow key,
  the writing row is in the history whenever a character is about to be put, and
  is at most one past it between the increment and the wrap; and that the copy of
  the row `terminal_increase_row` holds is in the history, since a scrolling key
  of another core may have moved the row itself in between;
- `LinesAreShown` (`LineIsShown`): `ShownInv` adds that until a key is pressed the
  window follows the writing row (`Following`), one row late between the increment and
  the scrolling, and that every cell of the screen shows the window's cell of the
  history or what the screen was cleared to, but for the one character that is stored
  and not yet copied (`Behind`).

Of the formatter it proves `TextsAreInFormat` (`TextFromFormat`), for formats and calls
of any length (`PrintfAssumption`): the text written between two fields comes from
inside the format. `FieldsInv` says that every field found begins
inside the format and that the fields written are fields found. The text before a
field ends where the field begins, and keeping that offset in 16 bits only makes it
smaller; the length of a field, which an option without a number leaves
uninitialised, decides where a text starts and so never leads out of the format.
That joining the pieces of a call gives a text is by induction over the number of
pieces (`FlattenIsText`).

`IpiProofs` first proves, for any set of cores, `SpinExclusion`
(`AtMostOneHolder`) and `SpinWordIsTruthful` (`WordMatchesHolders`) of the spin
lock; the two together with the types are inductive. `spin_trylock`, which nothing
calls, is in that proof only. The rest (`IpiAssumption`: there is a core, and the vectors are
positive numbers other than `NO_INTERRUPT`) rests on it. `LockStep` shows that every step of
`send_ipi` and `wait_till_interrupt` is a step of the spin lock or leaves it alone;
with it `UsesSpinLock` is a refinement and the lock's inductive invariant carries
over. The invariant of the mailbox adds that a core past its call of
`simple_spin_lock` is a holder, and that a core in `send_ipi` has a vector to send
(without which `TypeOK` is not inductive). From it come `TypeCorrect`,
`MailboxIsExclusive` (`MailboxExclusive`) and, with `ReadIsCurrent`, `PostsAreKept`
(`NoPostIsLost`): the entry a wait has read is the mailbox's until it tests it, and
if it is the vector it waits for then no post came since, because a post needs the
lock that the wait holds. That the search loop may wait for its own lock
contradicts none of these.

`SmpBootProofs` first proves of the timer, for any durations, slots, cells and counts
with `Cycle <= Freq` (in the code 65536 and 1193182; `PitAssumption`):

- `TimerTypeCorrect` (`TypeOK`), which needs that `compute_pit_wait`'s remainder is
  never more than a cycle (`DivBound`, `WaitCounts`);
- `HandlerStaysInTable` (`SlotInBounds`): the strengthening is `FullTableIsNew`, a
  full table has a message the handler has not seen;
- `WaitsLast` (`WaitLastsItsCounts`): `WaitInv` accounts for the clocks of a wait
  phase by phase. In the cycles of the rate generator the time elapsed covers the
  cycles slept through plus one for an interrupt that is pending and one for an
  interrupt handled since the flag was cleared (`InLoop`, `Owed`); between the
  cycles and the last count no older interrupt can be left over, because
  interrupts are on until the mode changes (`BeforeLast`); the last count is
  still running or is over (`InLast`). `MaxElapsed` bounds only the history and
  is beyond every wait.

Of the waking of the cores it proves, for any MADT whose identifiers fit the kernel's
arrays (`SmpAssumption`, `MAX_CORE_COUNT`), any pauses and any lost commands:

- `MainIsSetFirst` (`MainIsSet`): `MainFirst` says that a core that took a SIPI has
  its main function, and the boot core past the deassertion has set it for the
  core at hand. That a command reaches no other core is arithmetic on the bits of
  the command words, which TLC evaluates for all identifiers (`CommandWords`);
- `SetupEndsComplete` (`SetupIsComplete`), where identifier 0 is the boot core's or
  nobody's: `ActiveEntered` ties `core_is_active` to the main functions entered. The
  hypothesis is needed because the code sets `core_is_active[0]` whichever core
  booted. Neither theorem needs the timer: a pause or poll that ends early or late
  changes only when `wake_core` gives up.

`Ps2SetupProofs` proves, for any firmware configuration, any devices on one or two
ports, and keys and late answers at any point:

- `PortsAreReady` (`PortsReady`): a setup that reports devices has left the
  controller configured for them. `PortsInv` says that what the driver writes is
  always a byte that passed its check (`Writes`), and that the next data byte goes to
  the configuration only where the driver means it (`Targets`). A key may be taken
  for the configuration; the driver is then one answer behind (`Behind`), so the
  test or reset that follows reads the configuration byte, which is never the
  answer it expects, and the setup fails instead of reporting devices (`Step7Inv`,
  `Step9Inv`, `ResetInv`);
- `DevicesAreReported` (`ReportsTheDevices`): `DevicesInv` follows, for each
  position, the one answer on its way and the bytes a device still owes, so that
  each byte the driver reads is the answer to its own question. The claim is about
  setups without keys and late answers.

`KeyboardSetupProofs` proves, for any machine of up to two devices, any sequence of
commands and any number of keys, movements and late answers
(`KeyboardSetupAssumption`; the two operations a caller cannot ask for are excluded):

- `GateIsPresent` (`GatePresentWhenTaken`): `Stage` follows the kernel through the
  operations left to do. While commands are under way the keyboard's vector may be
  absent, and then its line is masked at the PICs (for port 2 by the cascade, whose
  number the code masks) and the local APIC holds nothing, the IOAPIC being
  programmed later. Before and after, all gates are present;
- `SetsDoAgree` (`SetsAgree`): `Dialogue` says for each position of
  `send_data_to_ps2_keyboard` what the keyboard has obeyed and what is on its way:
  keys, and one answer, which if it is an acknowledgement comes from a keyboard that
  has obeyed the byte (`After`), if it asks again from one that has not (`Before`);
  a getter's answer is followed by one value. Keys typed, bytes handed over and
  bytes the handlers take keep that true because it says only what the bytes are,
  never that they are there. A failed command leaves a keyboard that may still await
  data; it takes the first byte of the next command for them, and `After` allows for
  that. A failure of `set_scan_code_set_1` stops the set-up or the kernel. It is claimed
  until an answer goes astray or the keyboard reverts to its own set.

`InputProofs` proves, for any strokes, movements, plans and screen sizes
(`KeyAssumption` excludes the make codes no key has that a prefix or print screen's
bytes would be mistaken for; `InputAssumption` says what a plan is):

- `HandlersReadTheirOwn` (`OwnBytes`): a pending interrupt of a device means that its
  byte is in the buffer, until a poll takes it;
- `IndexStaysInside` (`SequenceIndexInBounds`): print screen's index is bounded by
  the handler alone. Pause's is not: the handler counts 0xE1 without a look at the
  position. It stays inside because of what the keyboard sends, so `Clean` relates
  the whole stream still to come to the decoder's position: 0xE1 occurs only in whole
  sequences, and while n bytes of one come next the decoder is at one of the places
  n allows (`PausePlace`), which include having missed its beginning inside a print
  screen that a modifier cut short. The proof showed that this fails once a byte goes
  astray, and TLC
  found the counterexample with more strokes than the run has: the property
  had claimed too much and now says so;
- `NoTraceIsLeft` (`CursorLeavesNoTrace`): `Shown` says, for each position of the
  event loop, which pixel may differ from the picture and which colour the loop
  holds for it, the `lost` ones aside, and a line adds to those at most the pixel under
  the cursor;
- `CursorFollows` (`CursorFollowsMouse`), where at most 128 packets are sent, so that
  no movement leads past 32640 and the handler's 16 bits hold the position (an
  arbitrary number of packets could leave them): `FollowInv` says where each byte of
  each packet is, in the handler's packet, in the buffer or in the mouse's queue, in
  order and none twice, whatever the keyboard does in between. The reference `Walk`
  is recursive; one more packet is one more step of it, by induction;
- `LinesAreStraight` (`LineIsStraight`), for any bytes, foreign ones included. The
  reason is in `LineBetween`: the error term of `draw_line_quick` stays within half the
  longer of the two distances, so every point is next to the ideal line, each step
  comes nearer to the end, and the loop meets the end and never passes it, which is
  its only way out;
- `StrokesAreInOrder` (`StrokesInOrder`), where every key has a place in the tables
  of key codes (`HavePlaces`; the run's keys have, which `MCKeysHavePlaces` lets TLC
  evaluate): a code outside them is reported as no key by design. `OrderInv` holds
  until a Pause, a stroke with altered bytes or a byte that goes astray. It says that
  there are two numbers, the
  strokes read whole and the bytes read of the next one, with which everything
  agrees: `Position` the decoder's flags, `Waiting` the bytes to come, which are
  those of the strokes left, with one answer among them while `set_leds` waits for
  it, and `Told` the recorded keys and the reports, which are those of the strokes
  read. While `set_leds` runs, its lock key is read and not reported. An answer may be
  read twice, once by `set_leds` and once by the interrupt that comes late for it: that
  second read falls between strokes, because inside one a pending interrupt is that
  of the byte in the buffer, and its code is no key's. What the tables must
  satisfy for this, that a byte tells a press from a release, that no two keys are
  packed alike and that no answer looks like a key, is `PlacedKeys`, which has no
  parameter: TLC's evaluation settles it.

`BootProofs` proves, for any set of machines (`MachinesAssumption`):

- `CachesStayRight` (`CachesAreRight`): `AnswersInv` says that every leaf executed is
  one the processor has, and that the highest basic leaf is known once the vendor
  was asked for, which is before any other leaf;
- `FpuIsReadyThen` (`FpuIsReady`): `FpuInv` follows `init_fpu` feature by feature; that
  setting one control bit leaves the others is `ControlBits`;
- `IdsAreOwn` (`FastIdIsOwn`): a core that has stored its number reads its own.
  `ParsedInv` says what the MADT's walk kept, `TableInv` that the table has the
  segments added so far, each with its base, which is split in three in a
  descriptor, `StoredInv` that a core with a selector has its own and its number in
  its cell. The boot core and the others use different cells of their eight bytes
  (`CellOf`), and no store of four bytes reaches the cell of another core;
- `TablesAreFound` (`FindsTheTables`): the walks over tags, tables and MADT entries
  stay on the elements of their chains and stop at the one they look for. `WalkInv`
  says that a walk is at the start of a tag and has passed only tags it does not
  want; `MadtInv` that the arrays hold the entries passed, under their types and in
  their order, none more than its array has room for; `FoundInv` keeps the results.
  Storing behind an array (`overrun`) takes a MADT that is `Overfull`;
- `IrqsStayRouted` (`IrqsAreRouted`): `IrqInv` says that the redirection registers are
  all masked until `init_io_apic` and then what it makes of the overrides, after the
  gates are filled; `LapicInv` which words the local APIC's registers may hold, and
  that they are those of the reset until the gates are. It needs that the firmware
  wires the three devices apart: with two on one input, the later write wins.

TLC checked the strengthenings it can evaluate on the runs' instances before they were
proved; those that say where each of any number of bytes is (`OrderInv`) are only proved.
The types are proved with them and not repeated in the runs.

Some of these rest on induction over data: folds over tags and entries, the movements
of the mouse, the pieces of a text. The library's induction theorems take an operator
as parameter, which the provers cannot instantiate. Instead the proofs give the
property as the set of numbers that have it (`NumberInduction`, `CountingUp`), and a
set of numbers has a least element because its order is well-founded. The recursive
definitions are unfolded once per step, as functions on numbers or as folds.

Only model-checked:

- liveness (`FaultIsReported`, `PrintsComplete`, `QuietCallsReturn`, `SetupEnds`,
  `SetupReturns`, `BytesAreServed`): it needs reasoning about fairness and ENABLED,
  which this prover does not do;
- `PrintsTheCall` and `DigitsKept`: the references filter sequences (`SelectSeq`, about
  which the provers know nothing) and take numerals apart digit by digit; the runs
  compare them on bounded inputs.

## 5. Plan

What would add most from here:

1. `SmpBoot` with `Kprintf`'s lock, for the prints of cores that are coming up.
2. `KeyDecoder` for a keyboard on port 2, with the variables that follow the
   arrays in memory as outcomes.
3. `Terminal` with `_abort`'s unlocked writer.

## 6. Not modelled

- Virtual memory: `kernel.c` has the calls of `init_paging` and `init_page_bitmap`
  commented out, paging stays off, and the page allocator and `kmalloc` of
  `virtual_memory.c` have no caller.
- Real-mode calls: a mode switch in assembly, about registers and descriptors,
  with no interleaving.
- The C library: pure helpers; what the models need of them is in `Printf`.
- BIOS, EFI and UEFI directories and USB: placeholders and two stubs.
- Of modelled parts: the PS/2 setup's variant without error checks and generic
  response functions (no caller), the keyboard's `identify_device` (it aborts as
  not implemented), the descriptor getters, setters and texts of
  `f3_segment_descriptor*`, the task state segment (a type), the
  `control_registers` sources that stop with `#error`, the exception stubs' texts,
  the LAPIC's debugging reads, key names, colours and log messages.
- The tutorials, the long-mode and other-language experiments and generated files
  are not part of this kernel.
