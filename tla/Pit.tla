--------------------------------- MODULE Pit ---------------------------------
(***************************************************************************)
(* The timer code of timers/pit: waits that halt the boot core until the   *)
(* PIT interrupt, asynchronous timeouts that set a flag, and the interrupt *)
(* handler, with the interrupt flag of the boot core and the 8254 itself.  *)
(*                                                                         *)
(* Time is counted in PIT input clocks and passes when the counter fires.  *)
(* A step of the boot core is an instruction that matters to interrupts;   *)
(* a pending interrupt is taken before the next one whenever IF is set.    *)
(***************************************************************************)
EXTENDS Integers

CONSTANTS Cycle,       \* the longest count, MAX_FREQ_DIVIDER + 1
          Freq,        \* PIT_FREQ_HZ
          Slots,       \* PIT_MAX_MSG
          Cells,       \* the flags of asynchronous timeouts (uint32_t objects)
          NoCell,      \* the null pointer
          Durations,   \* the durations callers ask for, in input clocks
          MaxElapsed   \* bound on the history of elapsed clocks

ASSUME PitAssumption ==
  /\ Cycle \in Nat \ {0} /\ Freq \in Nat \ {0} /\ Slots \in Nat \ {0}
  /\ Cycle <= Freq
  /\ NoCell \notin Cells
  /\ Durations \subseteq Nat /\ MaxElapsed \in Nat
  /\ \A n \in Durations : n + Cycle < MaxElapsed

VARIABLES
  mode,        \* the 8254's operating mode
  count,       \* its count, 0 when it is not counting
  pending,     \* a PIT interrupt has reached the core and is not yet taken
  intr,        \* the interrupt flag of the boot core
  handled,     \* pit_interrupt_handled
  quick,       \* quick_pit
  isNew,       \* pit_is_new_timeout
  writeIndex,  \* pit_write_index
  msgAddress,  \* pit_msg_address
  flag,        \* the values of the cells
  pc,          \* the boot core's position in the timer code
  full,        \* cycles the current wait has left to sleep through
  rest,        \* the count programmed after them
  ret,         \* what the last call returned
  asked,       \* the duration of the current call (history)
  elapsed,     \* input clocks since it began (history)
  clean,       \* no older count was running or pending when it began (history)
  noisy        \* another device woke the core during it (history)

hwVars == <<mode, count, pending>>
msgVars == <<isNew, writeIndex, msgAddress, flag>>
callVars == <<full, rest, ret>>
history == <<asked, elapsed, clean, noisy>>
timerVars == <<hwVars, msgVars, callVars, history, intr, handled, quick, pc>>

-----------------------------------------------------------------------------
(* compute_pit_wait, for a duration of n input clocks, n / Freq seconds.    *)

FullCycles(n) == n \div Cycle
RemainderCount(n) == ((n % Cycle) * Cycle) \div Freq

\* The number of clocks the 8254 counts for a count: 0 stands for a full cycle.
Clocks(k) == IF k = 0 THEN Cycle ELSE k

-----------------------------------------------------------------------------
TimerInit ==
  /\ mode = "none" /\ count = 0 /\ pending = FALSE
  /\ intr = TRUE
  /\ handled = FALSE
  /\ quick = FALSE
  /\ isNew = FALSE /\ writeIndex = 0
  /\ msgAddress = [i \in 0..Slots-1 |-> NoCell]
  /\ flag = [x \in Cells |-> 0]
  /\ pc = "idle"
  /\ full = 0 /\ rest = 0 /\ ret = 0
  /\ asked = 0 /\ elapsed = 0 /\ clean = TRUE /\ noisy = FALSE

\* The core is not halted, and no interrupt comes first.
Executes(label) == pc = label /\ ~(pending /\ intr)

Begin(n) == /\ asked' = n /\ elapsed' = 0
            /\ clean' = (~pending /\ count = 0) /\ noisy' = FALSE

\* Writing the mode register stops the counter until a count is written.
SetMode(m) == mode' = m /\ count' = 0 /\ UNCHANGED pending

\* set_pit_count: cli, then the two bytes of the count.
SetCount(k) == count' = Clocks(k) /\ intr' = FALSE /\ UNCHANGED <<mode, pending>>

CallWait(n) ==
  /\ Executes("idle")
  /\ Begin(n)
  /\ \/ /\ n <= 0
        /\ ret' = 1
        /\ UNCHANGED <<full, rest, pc>>
     \/ /\ n > 0
        /\ full' = FullCycles(n)
        /\ rest' = RemainderCount(n)
        /\ ret' = 0
        /\ pc' = IF FullCycles(n) > 0 THEN "loop_mode" ELSE "last_mode"
  /\ UNCHANGED <<hwVars, msgVars, intr, handled, quick>>

\* sync_apic_with_pit: a full cycle on the quick path of the handler.
CallPrecise ==
  /\ Executes("idle")
  /\ Begin(Cycle)
  /\ quick' = TRUE
  /\ rest' = 0 /\ full' = 0 /\ ret' = 0
  /\ pc' = "precise_mode"
  /\ UNCHANGED <<hwVars, msgVars, intr, handled>>

\* short_timeout_async.  Its assertion on pit_write_index stops the core.
CallTimeout(n, cell, new) ==
  /\ Executes("idle")
  /\ Begin(n)
  /\ UNCHANGED <<hwVars, intr, handled, quick, full>>
  /\ \/ /\ n <= 0
        /\ ret' = 1
        /\ UNCHANGED <<msgVars, rest, pc>>
     \/ /\ n > 0 /\ FullCycles(n) > 0
        /\ ret' = 2
        /\ UNCHANGED <<msgVars, rest, pc>>
     \/ /\ n > 0 /\ FullCycles(n) = 0
        /\ new /\ writeIndex >= Slots
        /\ pc' = "aborted"
        /\ UNCHANGED <<msgVars, rest, ret>>
     \/ /\ n > 0 /\ FullCycles(n) = 0
        /\ new /\ writeIndex < Slots
        /\ flag' = [flag EXCEPT ![cell] = 0]
        /\ msgAddress' = [msgAddress EXCEPT ![writeIndex] = cell]
        /\ isNew' = TRUE
        /\ writeIndex' = writeIndex + 1
        /\ rest' = RemainderCount(n)
        /\ ret' = 0
        /\ pc' = "async_mode"
     \/ /\ n > 0 /\ FullCycles(n) = 0
        /\ ~new
        /\ rest' = RemainderCount(n)
        /\ ret' = 0
        /\ pc' = "async_mode"
        /\ UNCHANGED msgVars

\* start_loop_wait and send_wait_count_command write the mode, then the count.
Program ==
  /\ \/ Executes("loop_mode") /\ SetMode("rate") /\ pc' = "loop_count"
     \/ Executes("last_mode") /\ SetMode("one_shot") /\ pc' = "last_count"
     \/ Executes("async_mode") /\ SetMode("one_shot") /\ pc' = "async_count"
     \/ Executes("precise_mode") /\ SetMode("one_shot") /\ pc' = "precise_count"
  /\ UNCHANGED <<msgVars, callVars, history, intr, handled, quick>>

Start ==
  /\ \/ Executes("loop_count") /\ SetCount(0) /\ pc' = "clear"
     \/ Executes("last_count") /\ SetCount(rest) /\ pc' = "clear"
     \/ Executes("async_count") /\ SetCount(rest) /\ pc' = "idle"
     \/ Executes("precise_count") /\ SetCount(rest) /\ pc' = "clear_busy"
  /\ UNCHANGED <<msgVars, callVars, history, handled, quick>>

\* A wait that does not forget the interrupts before it.
ClearNothing ==
  /\ \/ Executes("clear") /\ pc' = "sti"
     \/ Executes("clear_busy") /\ pc' = "busy"
  /\ UNCHANGED <<hwVars, msgVars, callVars, history, intr, handled, quick>>

\* wait_till_pit_interrupt, and its busy variant, forget earlier interrupts.
Clear ==
  /\ \/ Executes("clear") /\ pc' = "sti"
     \/ Executes("clear_busy") /\ pc' = "busy"
  /\ handled' = FALSE
  /\ UNCHANGED <<hwVars, msgVars, callVars, history, intr, quick>>

\* A wait that halts without enabling interrupts.
HltOnly ==
  /\ Executes("sti")
  /\ pc' = "halted"
  /\ UNCHANGED <<hwVars, msgVars, callVars, history, intr, handled, quick>>

\* sti; hlt.  When sti sets the flag, interrupts are held off until after hlt;
\* when the flag was set already, they are not.
StiHlt ==
  /\ Executes("sti")
  /\ pc' = IF intr THEN "hlt" ELSE "halted"
  /\ intr' = TRUE
  /\ UNCHANGED <<hwVars, msgVars, callVars, history, handled, quick>>

Hlt ==
  /\ Executes("hlt")
  /\ pc' = "halted"
  /\ UNCHANGED <<hwVars, msgVars, callVars, history, intr, handled, quick>>

\* The loop test after hlt, and the next cycle of pit::wait.
Check ==
  /\ Executes("check")
  /\ \/ ~handled /\ pc' = "sti" /\ full' = full
     \/ handled /\ full > 1 /\ pc' = "clear" /\ full' = full - 1
     \/ handled /\ full = 1 /\ pc' = "last_mode" /\ full' = 0
     \/ handled /\ full = 0 /\ pc' = "idle" /\ full' = 0
  /\ UNCHANGED <<hwVars, msgVars, rest, ret, history, intr, handled, quick>>

\* wait_till_pit_interrupt_busy, then the quick path is switched off again.
Busy ==
  /\ Executes("busy")
  /\ \/ ~handled /\ intr' = TRUE /\ UNCHANGED <<pc, quick>>
     \/ handled /\ pc' = "idle" /\ quick' = FALSE /\ UNCHANGED intr
  /\ UNCHANGED <<hwVars, msgVars, callVars, history, handled>>

Step == Program \/ Start \/ Clear \/ StiHlt \/ Hlt \/ Check \/ Busy

-----------------------------------------------------------------------------
(* Interrupts                                                               *)

\* The counter runs out: its interrupt reaches the core.
Fire ==
  /\ count > 0
  /\ pending' = TRUE
  /\ elapsed' = IF elapsed < MaxElapsed THEN elapsed + count ELSE elapsed
  /\ count' = IF mode = "rate" THEN count ELSE 0
  /\ UNCHANGED <<mode, msgVars, callVars, asked, clean, noisy, intr, handled, quick, pc>>

Woken == IF pc = "halted" THEN "check" ELSE pc

\* A handler that reads the slot after the newest message.
HandlerSlotNext == writeIndex

\* The slot that pit_interrupt_handler reads.
HandlerSlot == IF writeIndex # 0 /\ isNew THEN writeIndex - 1 ELSE writeIndex

\* pit_interrupt_handler in its wait mode.
Handler ==
  /\ ~quick
  /\ writeIndex' = HandlerSlot
  /\ LET cell == msgAddress[HandlerSlot] IN
       \/ /\ cell # NoCell
          /\ flag' = [flag EXCEPT ![cell] = 1]
          /\ isNew' = FALSE
       \/ /\ cell = NoCell
          /\ UNCHANGED <<flag, isNew>>
  /\ UNCHANGED msgAddress

\* The quick path of the assembly stub only reports the interrupt.
QuickHandler == quick /\ UNCHANGED msgVars

PitInterrupt ==
  /\ pending /\ intr
  /\ pending' = FALSE
  /\ Handler \/ QuickHandler
  /\ handled' = TRUE
  /\ pc' = Woken
  /\ UNCHANGED <<mode, count, callVars, history, intr, quick>>

\* Any other interrupt returns to where it found the core, past a hlt.
OtherInterrupt ==
  /\ intr /\ pc = "halted"
  /\ pc' = "check"
  /\ noisy' = TRUE
  /\ UNCHANGED <<hwVars, msgVars, callVars, asked, elapsed, clean, intr, handled, quick>>

-----------------------------------------------------------------------------
\* The callers: sync_apic_with_pit runs once, before any timeout exists.
Call ==
  \/ \E n \in Durations : CallWait(n)
  \/ \E n \in Durations, cell \in Cells, new \in BOOLEAN :
        CallTimeout(n, cell, new)
  \/ mode = "none" /\ CallPrecise

TimerNext == Call \/ Step \/ Fire \/ PitInterrupt \/ OtherInterrupt

\* The counter counts, an enabled interrupt is taken, and the core executes,
\* also between the interrupts of the rate generator, which are 55 ms apart.
TimerFairness == SF_timerVars(Step) /\ WF_timerVars(Fire) /\ WF_timerVars(PitInterrupt)

TimerSpec == TimerInit /\ [][TimerNext]_timerVars /\ TimerFairness

-----------------------------------------------------------------------------
Labels == {"idle", "aborted", "loop_mode", "loop_count", "last_mode",
           "last_count", "async_mode", "async_count", "precise_mode",
           "precise_count", "clear", "clear_busy", "sti", "hlt", "halted",
           "check", "busy"}

\* Every variable of the timer model has its type.
TypeOK ==
  /\ mode \in {"none", "rate", "one_shot"} /\ count \in 0..Cycle
  /\ pending \in BOOLEAN /\ intr \in BOOLEAN /\ handled \in BOOLEAN
  /\ quick \in BOOLEAN /\ isNew \in BOOLEAN /\ clean \in BOOLEAN
  /\ noisy \in BOOLEAN
  /\ writeIndex \in 0..Slots
  /\ msgAddress \in [0..Slots-1 -> Cells \cup {NoCell}]
  /\ flag \in [Cells -> {0, 1}]
  /\ pc \in Labels
  /\ full \in Nat /\ rest \in Nat /\ asked \in Nat /\ elapsed \in Nat
  /\ ret \in {0, 1, 2}

\* pit_interrupt_handler never reads past the end of pit_msg_address, even
\* when every slot is taken.
SlotInBounds == HandlerSlot \in 0..Slots-1

\* The clocks that pit::wait programs for a duration.
Programmed(n) == FullCycles(n) * Cycle + Clocks(RemainderCount(n))

\* pit::wait returns.
WaitEnds == pc = "check" /\ pc' = "idle"

\* A wait that starts with no older count running or pending lasts at least
\* as long as the counts it programmed, whatever other interrupts wake the core.
WaitLastsItsCounts ==
  [][WaitEnds /\ clean => elapsed >= Programmed(asked)]_timerVars

\* A call of the timer code during which no other device interrupts returns,
\* or stops at its assertion, whatever counts are running or pending.
QuietCallsReturn == pc # "idle" ~> pc \in {"idle", "aborted"} \/ noisy

=============================================================================
