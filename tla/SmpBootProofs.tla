---------------------------- MODULE SmpBootProofs ----------------------------
(***************************************************************************)
(* The timer first, on its own and for any counts, durations and number of *)
(* message slots: types, the bound of the message table, and that a wait   *)
(* lasts the counts it programmed.                                         *)
(*                                                                         *)
(* Then waking the application cores, for any MADT and any pauses: no core *)
(* runs before its main function is set, and the setup does not end before *)
(* every core is in it.  Neither needs the timer to be right: a pause or a *)
(* poll that ends early or late changes only when wake_core gives up.      *)
(***************************************************************************)
EXTENDS SmpBoot, SequenceTheorems, TLAPS

-----------------------------------------------------------------------------
(* The arithmetic of compute_pit_wait.                                      *)

\* A product divided by a divisor no smaller than one of its factors is at
\* most the other factor.
LEMMA DivBound ==
  ASSUME NEW m \in Nat, NEW c \in Nat, NEW f \in Nat \ {0}, c <= f
  PROVE  (m * c) \div f \in 0..m
<1> DEFINE q == (m * c) \div f
<1>1. q \in Int /\ m * c \in Nat /\ f * q <= m * c /\ m * c < f * q + f
  OBVIOUS
<1>2. m * c <= m * f
  OBVIOUS
<1>3. q >= 0
  <2> SUFFICES ASSUME q <= -1 PROVE FALSE
    BY <1>1
  <2>1. f * q <= f * (-1)
    BY <1>1
  <2> QED BY <1>1, <2>1
<1>4. q <= m
  <2> SUFFICES ASSUME q >= m + 1 PROVE FALSE
    BY <1>1
  <2>1. f * q >= f * (m + 1)
    BY <1>1
  <2>2. f * (m + 1) = m * f + f
    OBVIOUS
  <2> QED BY <1>1, <1>2, <2>1, <2>2
<1> QED BY <1>1, <1>3, <1>4

\* Quotient and remainder.
LEMMA DivMod ==
  ASSUME NEW n \in Nat, NEW c \in Nat \ {0}
  PROVE  /\ n \div c \in Nat /\ n % c \in 0..c-1
         /\ c * (n \div c) <= n
<1> DEFINE q == n \div c
<1>1. q \in Int /\ c * q <= n /\ n < c * q + c /\ n % c \in 0..c-1
  OBVIOUS
<1>2. q >= 0
  <2> SUFFICES ASSUME q <= -1 PROVE FALSE
    BY <1>1
  <2>1. c * q <= c * (-1)
    BY <1>1
  <2> QED BY <1>1, <2>1
<1> QED BY <1>1, <1>2

\* The full cycles and the remainder of a duration, and the clocks that are
\* programmed for it: at most one cycle more than was asked for.
LEMMA WaitCounts ==
  ASSUME NEW n \in Nat
  PROVE  /\ FullCycles(n) \in Nat
         /\ RemainderCount(n) \in 0..Cycle
         /\ Clocks(RemainderCount(n)) \in 1..Cycle
         /\ FullCycles(n) * Cycle \in Nat
         /\ FullCycles(n) * Cycle + Cycle <= n + Cycle
<1> DEFINE m == n % Cycle
<1>1. /\ FullCycles(n) \in Nat /\ m \in 0..Cycle-1
      /\ Cycle * FullCycles(n) <= n
  BY PitAssumption, DivMod DEF FullCycles
<1>2. RemainderCount(n) \in 0..m
  BY <1>1, PitAssumption, DivBound DEF RemainderCount
<1>3. FullCycles(n) * Cycle = Cycle * FullCycles(n) /\ FullCycles(n) * Cycle \in Nat
  BY <1>1, PitAssumption
<1> QED BY <1>1, <1>2, <1>3, PitAssumption DEF Clocks

-----------------------------------------------------------------------------
(* Types and the message table.                                             *)

\* A full table has a message the handler has not seen; this is what keeps
\* the handler off the slot after the last one.
FullTableIsNew == writeIndex = Slots => isNew

\* TypeOK with what a count needs of rest.
TimerTypes == TypeOK /\ rest <= Cycle /\ FullTableIsNew

\* The handler's slot exists.
LEMMA HandlerInBounds == TimerTypes => SlotInBounds
BY PitAssumption DEF TimerTypes, TypeOK, FullTableIsNew, SlotInBounds, HandlerSlot

\* Types of the variables that belong to no message.
CoreTypes ==
  /\ mode \in {"none", "rate", "one_shot"} /\ count \in 0..Cycle
  /\ pending \in BOOLEAN /\ intr \in BOOLEAN /\ handled \in BOOLEAN
  /\ quick \in BOOLEAN /\ clean \in BOOLEAN /\ noisy \in BOOLEAN
  /\ pc \in Labels
  /\ full \in Nat /\ rest \in 0..Cycle /\ asked \in Nat /\ elapsed \in Nat
  /\ ret \in {0, 1, 2}

\* Types of the message table and its cells.
TableTypes ==
  /\ isNew \in BOOLEAN /\ writeIndex \in 0..Slots
  /\ msgAddress \in [0..Slots-1 -> Cells \cup {NoCell}]
  /\ flag \in [Cells -> {0, 1}]
  /\ FullTableIsNew

\* The two halves are the whole.
LEMMA TypesSplit == TimerTypes <=> CoreTypes /\ TableTypes
BY PitAssumption DEF TimerTypes, TypeOK, CoreTypes, TableTypes

\* Every step preserves the types of the counter, the flags and the call.
LEMMA StepCore == CoreTypes /\ [TimerNext]_timerVars => CoreTypes'
<1> SUFFICES ASSUME CoreTypes, [TimerNext]_timerVars PROVE CoreTypes'
  OBVIOUS
<1> USE PitAssumption
<1>1. CASE UNCHANGED timerVars
  BY <1>1 DEF timerVars, hwVars, msgVars, callVars, history, CoreTypes
<1>2. ASSUME NEW n \in Durations, CallWait(n) PROVE CoreTypes'
  BY <1>2, WaitCounts DEF CallWait, Begin, Executes, hwVars, CoreTypes, Labels
<1>3. ASSUME NEW n \in Durations, NEW cell \in Cells, NEW new \in BOOLEAN,
             CallTimeout(n, cell, new)
      PROVE  CoreTypes'
  BY <1>3, WaitCounts DEF CallTimeout, Begin, Executes, hwVars, CoreTypes, Labels
<1>4. CASE CallPrecise
  <2>1. clean' \in BOOLEAN /\ noisy' \in BOOLEAN /\ quick' \in BOOLEAN
    BY <1>4, Zenon DEF CallPrecise, Begin
  <2>2. /\ asked' = Cycle /\ elapsed' = 0 /\ rest' = 0 /\ full' = 0 /\ ret' = 0
        /\ pc' = "precise_mode"
        /\ UNCHANGED <<mode, count, pending, intr, handled>>
    BY <1>4 DEF CallPrecise, Begin, hwVars
  <2> QED BY <2>1, <2>2 DEF CoreTypes, Labels
<1>5. CASE Program
  BY <1>5 DEF Program, SetMode, Executes, callVars, history, CoreTypes, Labels
<1>6. CASE Start
  <2>1. Clocks(0) \in 0..Cycle /\ Clocks(rest) \in 0..Cycle
    BY DEF Clocks, CoreTypes
  <2> QED
    BY <1>6, <2>1, ZenonT(30) DEF Start, SetCount, Executes, callVars, history, CoreTypes, Labels
<1>7. CASE Clear
  BY <1>7 DEF Clear, Executes, hwVars, callVars, history, CoreTypes, Labels
<1>8. CASE StiHlt \/ Hlt
  BY <1>8, ZenonT(30) DEF StiHlt, Hlt, Executes, hwVars, callVars, history, CoreTypes, Labels
<1>9. CASE Check
  BY <1>9 DEF Check, Executes, hwVars, history, CoreTypes, Labels
<1>10. CASE Busy
  BY <1>10 DEF Busy, Executes, hwVars, callVars, history, CoreTypes, Labels
<1>11. CASE Fire
  BY <1>11 DEF Fire, callVars, CoreTypes
<1>12. CASE PitInterrupt
  BY <1>12 DEF PitInterrupt, Woken, callVars, history, CoreTypes, Labels
<1>13. CASE OtherInterrupt
  BY <1>13 DEF OtherInterrupt, hwVars, callVars, CoreTypes, Labels
<1> QED
  BY <1>1, <1>2, <1>3, <1>4, <1>5, <1>6, <1>7, <1>8, <1>9, <1>10, <1>11, <1>12, <1>13
  DEF TimerNext, Call, Step

\* Every step preserves the types of the message table; only short_timeout_async
\* and the interrupt handler write it.
LEMMA StepTable == TableTypes /\ [TimerNext]_timerVars => TableTypes'
<1> SUFFICES ASSUME TableTypes, [TimerNext]_timerVars PROVE TableTypes'
  OBVIOUS
<1>1. CASE UNCHANGED msgVars
  BY <1>1 DEF msgVars, TableTypes, FullTableIsNew
<1>2. ASSUME NEW n \in Durations, NEW cell \in Cells, NEW new \in BOOLEAN,
             CallTimeout(n, cell, new), ~UNCHANGED msgVars
      PROVE  TableTypes'
  <2>1. /\ writeIndex < Slots /\ isNew' = TRUE /\ writeIndex' = writeIndex + 1
        /\ flag' = [flag EXCEPT ![cell] = 0]
        /\ msgAddress' = [msgAddress EXCEPT ![writeIndex] = cell]
    BY <1>2 DEF CallTimeout
  <2> QED BY <2>1, PitAssumption DEF TableTypes, FullTableIsNew
<1>3. CASE PitInterrupt /\ Handler
  <2>1. HandlerSlot \in 0..Slots-1
    BY PitAssumption DEF TableTypes, FullTableIsNew, HandlerSlot
  <2>2. /\ writeIndex' = HandlerSlot /\ msgAddress' = msgAddress
        /\ \/ /\ msgAddress[HandlerSlot] # NoCell
              /\ flag' = [flag EXCEPT ![msgAddress[HandlerSlot]] = 1]
              /\ isNew' = FALSE
           \/ flag' = flag /\ isNew' = isNew
    BY <1>3 DEF Handler
  <2>3. flag' \in [Cells -> {0, 1}] /\ isNew' \in BOOLEAN
    BY <2>1, <2>2 DEF TableTypes
  <2> QED BY <2>1, <2>2, <2>3, PitAssumption DEF TableTypes, FullTableIsNew
<1>4. CASE PitInterrupt /\ QuickHandler
  BY <1>1, <1>4 DEF QuickHandler
<1>5. CASE Fire \/ OtherInterrupt \/ Step \/ CallPrecise \/ UNCHANGED timerVars
  BY <1>1, <1>5 DEF Fire, OtherInterrupt, Step, Program, Start, Clear, StiHlt, Hlt,
     Check, Busy, CallPrecise, timerVars
<1>6. ASSUME NEW n \in Durations, CallWait(n) PROVE TableTypes'
  BY <1>1, <1>6 DEF CallWait
<1>7. CASE PitInterrupt
  BY <1>3, <1>4, <1>7 DEF PitInterrupt
<1> QED BY <1>1, <1>2, <1>5, <1>6, <1>7 DEF TimerNext, Call

\* The types hold in every reachable state.
THEOREM TimerTypeInvariance == TimerSpec => []TimerTypes
<1>1. TimerInit => CoreTypes
  <2>1. TimerInit => /\ pending \in BOOLEAN /\ intr \in BOOLEAN /\ handled \in BOOLEAN
                /\ quick \in BOOLEAN /\ clean \in BOOLEAN /\ noisy \in BOOLEAN
    BY Zenon DEF TimerInit
  <2>2. TimerInit => /\ mode = "none" /\ count = 0 /\ pc = "idle" /\ full = 0
                /\ rest = 0 /\ asked = 0 /\ elapsed = 0 /\ ret = 0
    BY Zenon DEF TimerInit
  <2> QED BY <2>1, <2>2, PitAssumption DEF CoreTypes, Labels
<1>2. TimerInit => TableTypes
  <2>1. TimerInit => isNew \in BOOLEAN
    BY Zenon DEF TimerInit
  <2>2. TimerInit => /\ writeIndex = 0
                /\ msgAddress = [i \in 0..Slots-1 |-> NoCell]
                /\ flag = [x \in Cells |-> 0]
    BY Zenon DEF TimerInit
  <2> QED BY <2>1, <2>2, PitAssumption DEF TableTypes, FullTableIsNew
<1>3. TimerTypes /\ [TimerNext]_timerVars => TimerTypes'
  BY StepCore, StepTable, TypesSplit, PTL
<1> QED BY <1>1, <1>2, <1>3, TypesSplit, PTL DEF TimerSpec

\* Every variable of the timer code keeps its type; in particular no count
\* passes the 8254's sixteen bits.
THEOREM TimerTypeCorrect == TimerSpec => []TypeOK
<1>1. TimerTypes => TypeOK
  BY DEF TimerTypes
<1> QED BY <1>1, TimerTypeInvariance, PTL

\* pit_interrupt_handler never reads past the end of pit_msg_address, for any
\* number of slots.
THEOREM HandlerStaysInTable == TimerSpec => []SlotInBounds
BY HandlerInBounds, TimerTypeInvariance, PTL

-----------------------------------------------------------------------------
(* The length of a wait.                                                    *)

Sleeping == {"clear", "sti", "hlt", "halted", "check"}

\* The clocks of the cycles a wait has slept through when it has k left.
Slept(k) == (FullCycles(asked) - k) * Cycle

\* The clocks of interrupts that have come and are not counted as slept yet:
\* one that is pending, and one that was handled since the flag was cleared.
Owed == (IF pending THEN Cycle ELSE 0)
          + (IF handled /\ pc # "clear" THEN Cycle ELSE 0)

\* Before the first cycle is programmed nothing counts.
BeforeLoop == pc \in {"loop_mode", "loop_count"} =>
  /\ full = FullCycles(asked) /\ full > 0
  /\ count = 0 /\ ~pending
  /\ pc = "loop_count" => mode = "rate"

\* In the cycles the rate generator runs, and every interrupt stands for a cycle.
InLoop == pc \in Sleeping /\ full > 0 =>
  /\ full <= FullCycles(asked)
  /\ mode = "rate" /\ count = Cycle
  /\ elapsed >= Slept(full) + Owed

\* Between the cycles and the last count the cycles are over; an interrupt of
\* the rate generator that is still to come is taken before the mode changes.
BeforeLast ==
  /\ pc \in {"last_mode", "last_count"} => full = 0 /\ elapsed >= Slept(0)
  /\ pc = "last_mode" => intr \/ (count = 0 /\ ~pending)
  /\ pc = "last_count" => mode = "one_shot" /\ count = 0 /\ ~pending

\* The last count: still running, or over.
InLast == pc \in Sleeping /\ full = 0 =>
  /\ mode = "one_shot"
  /\ \/ /\ count = Clocks(rest) /\ ~pending /\ (handled => pc = "clear")
        /\ elapsed >= Slept(0)
     \/ elapsed >= Slept(0) + Clocks(rest)

WaitLabels == Sleeping \cup {"loop_mode", "loop_count", "last_mode", "last_count"}

\* What is true of a wait that began with no older count running or pending.
WaitInv ==
  /\ pc \in WaitLabels => asked \in Durations /\ rest = RemainderCount(asked)
  /\ pc \in {"hlt", "halted", "check"} => intr
  /\ clean => BeforeLoop /\ InLoop /\ BeforeLast /\ InLast

\* Sleeping one cycle more, and the bound of the history.
LEMMA SleptFacts ==
  ASSUME asked \in Durations
  PROVE  /\ Slept(0) \in Nat /\ Slept(FullCycles(asked)) = 0
         /\ Slept(0) + Cycle < MaxElapsed
         /\ \A k \in Nat : Slept(k) \in Int
         /\ \A k \in Nat \ {0} : /\ Slept(k - 1) = Slept(k) + Cycle
                                 /\ Slept(k) + Cycle <= Slept(0)
<1> DEFINE F == FullCycles(asked)
<1>1. F \in Nat /\ F * Cycle \in Nat /\ F * Cycle + Cycle < MaxElapsed
  BY WaitCounts, PitAssumption
<1>2. ASSUME NEW k \in Nat PROVE Slept(k) = F * Cycle - k * Cycle /\ k * Cycle \in Nat
  BY <1>1, PitAssumption DEF Slept
<1>3. ASSUME NEW k \in Nat \ {0}
      PROVE  (k - 1) * Cycle = k * Cycle - Cycle /\ k * Cycle >= Cycle
  BY PitAssumption
<1> HIDE DEF F
<1>4. 0 * Cycle = 0
  BY PitAssumption
<1>5. Slept(0) = F * Cycle
  BY <1>1, <1>2, <1>4
<1>6. Slept(F) = 0
  BY <1>1, <1>2
<1>7. ASSUME NEW k \in Nat \ {0}
      PROVE  Slept(k - 1) = Slept(k) + Cycle /\ Slept(k) + Cycle <= Slept(0)
  <2>1. /\ Slept(k) = F * Cycle - k * Cycle /\ k * Cycle \in Nat
        /\ Slept(k - 1) = F * Cycle - (k - 1) * Cycle
    BY <1>2
  <2> QED BY <1>1, <1>3, <1>5, <2>1, PitAssumption
<1> QED BY <1>1, <1>2, <1>5, <1>6, <1>7, PitAssumption DEF F

\* The history of a call is kept until the next one.
LEMMA SleptSame == ASSUME asked' = asked, NEW k PROVE Slept(k)' = Slept(k)
BY DEF Slept

\* Every step preserves what is true of a wait.
LEMMA StepWait == TimerTypes /\ WaitInv /\ [TimerNext]_timerVars => WaitInv'
<1> SUFFICES ASSUME TimerTypes, WaitInv, [TimerNext]_timerVars PROVE WaitInv'
  OBVIOUS
<1>0. CoreTypes
  BY TypesSplit
<1> USE DEF WaitInv, WaitLabels, Sleeping
<1>1. CASE UNCHANGED timerVars
  BY <1>1, SleptSame
  DEF timerVars, hwVars, callVars, history, BeforeLoop, InLoop, BeforeLast, InLast, Owed
<1>2. ASSUME NEW n \in Durations, CallWait(n) PROVE WaitInv'
  <2>1. asked' = n /\ n \in Nat
    BY <1>2, PitAssumption DEF CallWait, Begin
  <2>2. clean' => count' = 0 /\ ~pending'
    BY <1>2, Zenon DEF CallWait, Begin, hwVars
  <2>3. CASE n <= 0
    BY <1>0, <1>2, <2>1, <2>3
    DEF CallWait, Executes, BeforeLoop, InLoop, BeforeLast, InLast
  <2>4. CASE n > 0 /\ FullCycles(n) > 0
    <3>1. full' = FullCycles(n) /\ rest' = RemainderCount(n) /\ pc' = "loop_mode"
      BY <1>2, <2>1, <2>4 DEF CallWait
    <3> QED
      BY <2>1, <2>2, <2>4, <3>1 DEF BeforeLoop, InLoop, BeforeLast, InLast
  <2>5. CASE n > 0 /\ ~(FullCycles(n) > 0)
    <3>1. FullCycles(n) = 0 /\ Slept(0)' = 0
      BY <2>1, <2>5, WaitCounts, PitAssumption DEF Slept
    <3>2. /\ full' = 0 /\ rest' = RemainderCount(n)
          /\ pc' = "last_mode" /\ elapsed' = 0
      BY <1>2, <2>1, <2>5, <3>1 DEF CallWait, Begin
    <3> QED
      BY <2>1, <2>2, <3>1, <3>2 DEF BeforeLoop, InLoop, BeforeLast, InLast
  <2> QED BY <2>1, <2>3, <2>4, <2>5
<1>3. ASSUME NEW n \in Durations, NEW cell \in Cells, NEW new \in BOOLEAN,
             CallTimeout(n, cell, new)
      PROVE  WaitInv'
  BY <1>3 DEF CallTimeout, Executes, BeforeLoop, InLoop, BeforeLast, InLast
<1>4. CASE CallPrecise
  BY <1>4 DEF CallPrecise, BeforeLoop, InLoop, BeforeLast, InLast
<1>5. CASE Program
  BY <1>0, <1>5, SleptSame
  DEF Program, SetMode, Executes, callVars, history, BeforeLoop, InLoop, BeforeLast, InLast
<1>6. CASE Start
  <2>1. CASE Executes("loop_count")
    BY <1>0, <1>6, <2>1, SleptSame, SleptFacts, PitAssumption
    DEF Start, SetCount, Clocks, Executes, callVars, history, CoreTypes, Owed,
        BeforeLoop, InLoop, BeforeLast, InLast
  <2>2. CASE Executes("last_count")
    BY <1>0, <1>6, <2>2, SleptSame
    DEF Start, SetCount, Executes, callVars, history,
        BeforeLoop, InLoop, BeforeLast, InLast
  <2>3. CASE Executes("async_count") \/ Executes("precise_count")
    BY <1>6, <2>3 DEF Start, Executes, BeforeLoop, InLoop, BeforeLast, InLast
  <2> QED BY <1>6, <2>1, <2>2, <2>3 DEF Start
<1>7. CASE Clear
  BY <1>0, <1>7, SleptSame, SleptFacts, PitAssumption
  DEF Clear, Executes, hwVars, callVars, history, CoreTypes, Owed,
      BeforeLoop, InLoop, BeforeLast, InLast
<1>8. CASE StiHlt \/ Hlt
  BY <1>0, <1>8, SleptSame
  DEF StiHlt, Hlt, Executes, hwVars, callVars, history, CoreTypes, Owed,
      BeforeLoop, InLoop, BeforeLast, InLast
<1>9. CASE Check
  <2>1. /\ pc = "check" /\ intr /\ ~pending /\ asked \in Durations
        /\ UNCHANGED <<mode, count, pending, intr, handled, asked, elapsed, clean, rest>>
    BY <1>9, Zenon DEF Check, Executes, hwVars, history
  <2>2. CASE ~handled /\ pc' = "sti" /\ full' = full
    BY <1>0, <2>1, <2>2, SleptSame
    DEF CoreTypes, Owed, BeforeLoop, InLoop, BeforeLast, InLast
  <2>3. CASE handled /\ full > 1 /\ pc' = "clear" /\ full' = full - 1
    <3>1. Slept(full') = Slept(full) + Cycle
      BY <1>0, <2>1, <2>3, SleptFacts DEF CoreTypes
    <3>2. Slept(full)' = Slept(full')
      BY <2>1 DEF Slept
    <3>3. clean => elapsed >= Slept(full) + Cycle
      BY <1>0, <2>1, <2>3, SleptFacts, PitAssumption DEF CoreTypes, InLoop, Owed
    <3>4. Owed' = 0
      BY <2>1, <2>3 DEF Owed
    <3>5. clean => elapsed' >= Slept(full)' + Owed'
      BY <1>0, <2>1, <2>3, <3>1, <3>2, <3>3, <3>4, SleptFacts, PitAssumption DEF CoreTypes
    <3>6. FullCycles(asked) \in Nat
      BY <2>1, WaitCounts, PitAssumption
    <3> QED
      BY <1>0, <2>1, <2>3, <3>5, <3>6
      DEF CoreTypes, BeforeLoop, InLoop, BeforeLast, InLast
  <2>4. CASE handled /\ full = 1 /\ pc' = "last_mode" /\ full' = 0
    <3>1. Slept(0) = Slept(1) + Cycle /\ Slept(0)' = Slept(0) /\ Slept(1) \in Int
      BY <2>1, SleptFacts DEF Slept
    <3>2. clean => elapsed >= Slept(1) + Cycle
      BY <1>0, <2>1, <2>4, <3>1, PitAssumption DEF CoreTypes, InLoop, Owed
    <3> QED
      BY <1>0, <2>1, <2>4, <3>1, <3>2
      DEF CoreTypes, BeforeLoop, InLoop, BeforeLast, InLast
  <2>5. CASE handled /\ full = 0 /\ pc' = "idle" /\ full' = 0
    BY <2>5 DEF BeforeLoop, InLoop, BeforeLast, InLast
  <2> QED BY <1>9, <2>2, <2>3, <2>4, <2>5 DEF Check
<1>10. CASE Busy
  BY <1>10 DEF Busy, Executes, BeforeLoop, InLoop, BeforeLast, InLast
<1>11. CASE Fire
  <2>1. /\ count > 0 /\ pending'
        /\ elapsed' = IF elapsed < MaxElapsed THEN elapsed + count ELSE elapsed
        /\ count' = IF mode = "rate" THEN count ELSE 0
        /\ UNCHANGED <<mode, intr, handled, pc, full, rest, asked, clean>>
    BY <1>11 DEF Fire, callVars
  <2>2. elapsed' >= elapsed /\ (elapsed' >= MaxElapsed \/ elapsed' = elapsed + count)
    BY <1>0, <2>1, PitAssumption DEF CoreTypes
  <2>3. clean => BeforeLoop'
    BY <2>1 DEF BeforeLoop
  <2>4. clean => InLoop'
    <3> SUFFICES ASSUME clean, pc \in Sleeping, full > 0 PROVE InLoop'
      BY <2>1 DEF InLoop
    <3>1. /\ asked \in Durations /\ mode = "rate" /\ count = Cycle
          /\ elapsed >= Slept(full) + (IF handled /\ pc # "clear" THEN Cycle ELSE 0)
      BY <1>0, SleptFacts, PitAssumption DEF InLoop, Owed, CoreTypes
    <3>2. elapsed' >= Slept(full) + Cycle + (IF handled /\ pc # "clear" THEN Cycle ELSE 0)
      BY <1>0, <2>1, <2>2, <3>1, SleptFacts, PitAssumption DEF CoreTypes
    <3>3. Slept(full)' = Slept(full) /\ Slept(full) \in Int
      BY <1>0, <2>1, <3>1, SleptFacts DEF Slept, CoreTypes
    <3> QED BY <1>0, <2>1, <3>1, <3>2, <3>3, PitAssumption DEF InLoop, Owed, CoreTypes
  <2>5. clean => BeforeLast'
    BY <1>0, <2>1, <2>2, SleptSame, SleptFacts DEF BeforeLast, CoreTypes
  <2>6. clean => InLast'
    <3> SUFFICES ASSUME clean, pc \in Sleeping, full = 0 PROVE InLast'
      BY <2>1 DEF InLast
    <3>1. asked \in Durations /\ mode = "one_shot" /\ Clocks(rest) \in 1..Cycle
      BY PitAssumption, WaitCounts DEF InLast
    <3>2. Slept(0)' = Slept(0)
      BY <2>1, SleptSame
    <3>3. elapsed' >= Slept(0) + Clocks(rest)
      BY <1>0, <2>1, <2>2, <3>1, SleptFacts, PitAssumption DEF InLast, CoreTypes
    <3> QED BY <2>1, <3>1, <3>2, <3>3 DEF InLast
  <2> QED BY <2>1, <2>3, <2>4, <2>5, <2>6
<1>12. CASE PitInterrupt
  BY <1>0, <1>12, SleptSame, SleptFacts, PitAssumption
  DEF PitInterrupt, Woken, callVars, history, CoreTypes, Owed,
      BeforeLoop, InLoop, BeforeLast, InLast
<1>13. CASE OtherInterrupt
  BY <1>0, <1>13, SleptSame
  DEF OtherInterrupt, hwVars, callVars, CoreTypes, Owed, BeforeLoop, InLoop, BeforeLast, InLast
<1> QED
  BY <1>1, <1>2, <1>3, <1>4, <1>5, <1>6, <1>7, <1>8, <1>9, <1>10, <1>11, <1>12, <1>13
  DEF TimerNext, Call, Step

\* A wait that starts with no older count running or pending lasts at least as
\* long as the counts it programmed, for every duration and every interleaving
\* with other interrupts.
THEOREM WaitsLast == TimerSpec => WaitLastsItsCounts
<1>1. TimerInit => WaitInv
  BY DEF TimerInit, WaitInv, WaitLabels, Sleeping, BeforeLoop, InLoop, BeforeLast, InLast
<1>2. TimerSpec => []WaitInv
  BY <1>1, StepWait, TimerTypeInvariance, PTL DEF TimerSpec
<1>3. ASSUME TimerTypes, WaitInv, [TimerNext]_timerVars
      PROVE  WaitEnds /\ clean => elapsed >= Programmed(asked)
  <2> SUFFICES ASSUME pc = "check", pc' = "idle", clean
               PROVE  elapsed >= Programmed(asked)
    BY DEF WaitEnds
  <2>1. CoreTypes
    BY <1>3, TypesSplit
  <2>2. Check
    BY <1>3
    DEF TimerNext, Call, Step, CallWait, CallTimeout, CallPrecise, Program, Start, Clear,
        StiHlt, Hlt, Busy, Fire, PitInterrupt, Woken, OtherInterrupt, Executes, timerVars
  <2>3. handled /\ full = 0 /\ asked \in Durations /\ rest = RemainderCount(asked)
    BY <1>3, <2>2 DEF Check, WaitInv, WaitLabels, Sleeping
  <2>4. elapsed >= Slept(0) + Clocks(rest)
    BY <1>3, <2>3 DEF WaitInv, InLast, Sleeping
  <2>5. Slept(0) = FullCycles(asked) * Cycle
    BY <2>3, WaitCounts, PitAssumption DEF Slept
  <2> QED BY <2>3, <2>4, <2>5 DEF Programmed
<1>4. TimerTypes /\ WaitInv /\ [TimerNext]_timerVars =>
        [WaitEnds /\ clean => elapsed >= Programmed(asked)]_timerVars
  BY <1>3
<1> QED BY <1>2, <1>4, TimerTypeInvariance, PTL DEF TimerSpec, WaitLastsItsCounts

-----------------------------------------------------------------------------
(* The inductive invariants                                                 *)

\* Where wake_core is, for one core of the MADT.
Waking == {"init", "deassert", "sipi", "arm", "poll", "entering"}

Sipis == {"sipi", "arm", "poll", "entering"}

\* Where a core is that took a SIPI.
Started == {"bootstrap", "loaded", "booted", "main"}

Types ==
  /\ bsp \in Waking \cup {"next", "done", "aborted"}
  /\ index \in Nat \ {0}
  /\ ap \in [APs -> {"reset", "wait_sipi"} \cup Started]

\* wake_core is called for an application core.
WakesAnAp == bsp \in Waking => index \in DOMAIN Madt /\ Core \in APs

\* The main function of a core is set before its first SIPI, and stays set.
MainFirst ==
  /\ bsp \in Sipis => Core \in coreMain
  /\ \A c \in APs : ap[c] \in Started => c \in coreMain
  /\ jumped = {}

MainInv == Types /\ WakesAnAp /\ MainFirst

\* A core that counts as active has been seen in its main function, but for
\* the one whose main the boot core is waiting for.  Core 0 counts as active
\* from the start.
ActiveEntered ==
  /\ \A c \in APs \ {0} : c \in active => c \in entered \/ (bsp = "entering" /\ c = Core)
  /\ bsp = "done" => APs \subseteq active

-----------------------------------------------------------------------------
(* The commands                                                             *)

\* The MADT's identifiers are indices of the kernel's arrays.
LEMMA Identifiers ==
  /\ Len(Madt) \in Nat /\ DOMAIN Madt = 1..Len(Madt)
  /\ CPUs \subseteq 0..MAX_CORE_COUNT - 1 /\ APs \subseteq CPUs
<1>1. Madt \in Seq(0..MAX_CORE_COUNT - 1)
  BY SmpAssumption
<1>2. Len(Madt) \in Nat /\ DOMAIN Madt = 1..Len(Madt)
  BY <1>1
<1>3. \A i \in DOMAIN Madt : Madt[i] \in 0..MAX_CORE_COUNT - 1
  BY <1>1, <1>2, ElementOfSeq
<1> QED BY <1>2, <1>3 DEF CPUs, APs

\* A command changes the state of the core it is sent to alone.
LEMMA OnlyTarget ==
  ASSUME Types, WakesAnAp, bsp \in Waking, NEW low, NEW c \in APs, c # Core
  PROVE  Delivered(low, Target(Core))[c] = ap[c]
<1>1. Core \in 0..MAX_CORE_COUNT - 1 /\ c \in 0..MAX_CORE_COUNT - 1
  BY Identifiers DEF WakesAnAp
<1>2. Target(Core) # Destination(c)
  BY <1>1, CommandWords
<1> QED BY <1>2 DEF Delivered

\* The states a command leaves the cores in; only a SIPI starts one.
LEMMA CommandTypes ==
  ASSUME Types, NEW low, NEW high
  PROVE  /\ Delivered(low, high) \in [APs -> {"reset", "wait_sipi"} \cup Started]
         /\ low \cap 8..10 # {9, 10} =>
              \A c \in APs : Delivered(low, high)[c] \in Started => ap[c] \in Started
BY DEF Types, Delivered, Started

-----------------------------------------------------------------------------
(* The boot core's steps                                                    *)

\* A step that leaves the application cores and their main functions alone.
LEMMA QuietMain ==
  ASSUME MainInv, UNCHANGED <<ap, coreMain, jumped>>, Types', WakesAnAp',
         bsp' \in Sipis => bsp \in Sipis /\ index' = index
  PROVE  MainInv'
BY DEF MainInv, MainFirst, Core

\* wake_core goes on for the same core, or the loop goes on.
LEMMA Places ==
  ASSUME Types, WakesAnAp, ap' \in [APs -> {"reset", "wait_sipi"} \cup Started],
         bsp \in Waking,
         \/ bsp' \in Waking /\ index' = index
         \/ bsp' = "next" /\ index' = index + 1
  PROVE  Types' /\ WakesAnAp'
BY DEF Types, WakesAnAp, Waking, Core

\* INIT, its deassertion and SIPI, whether or not the command went out.
LEMMA CommandInv ==
  ASSUME MainInv, SendInit \/ Deassert \/ SendSipi PROVE MainInv'
<1> USE DEF MainInv
<1>1. bsp \in Waking
  BY DEF SendInit, Deassert, SendSipi, At, Waking
<1>2. PICK low \in {InitCommand, DeassertCommand, SipiCommand} :
        /\ ap' = Delivered(low, Target(Core))
        /\ low = SipiCommand => bsp = "sipi" \/ low \cap 8..10 # {9, 10}
  BY CommandWords DEF SendInit, Deassert, SendSipi, At
<1>3. \/ bsp' \in Waking /\ index' = index
      \/ bsp' = "next" /\ index' = index + 1
  BY DEF SendInit, Deassert, SendSipi, Fails, Goto, Waking
<1>4. Types' /\ WakesAnAp'
  BY <1>1, <1>2, <1>3, CommandTypes, Places
<1>5. /\ jumped' = {} /\ coreMain \subseteq coreMain'
      /\ bsp' \in Sipis => index' = index /\ Core \in coreMain'
  BY DEF SendInit, Deassert, SendSipi, Fails, Goto, At, Sipis, MainFirst
<1>6. ASSUME NEW c \in APs, ap'[c] \in Started PROVE c \in coreMain'
  <2>1. CASE ap[c] \in Started
    BY <1>5, <2>1 DEF MainFirst
  <2>2. CASE ap[c] \notin Started
    <3>1. c = Core
      BY <1>1, <1>2, <1>6, <2>2, OnlyTarget
    <3>2. bsp = "sipi"
      BY <1>2, <1>6, <2>2, CommandTypes, CommandWords
    <3> QED BY <1>5, <3>1, <3>2 DEF MainFirst, Sipis
  <2> QED BY <2>1, <2>2
<1> QED BY <1>4, <1>5, <1>6 DEF MainFirst, Core

\* The loop over the MADT, the timeouts and the wait for a core's main.
LEMMA LoopInv ==
  ASSUME MainInv, NextCore \/ Arm \/ Poll \/ AwaitMain PROVE MainInv'
<1> USE DEF MainInv
<1>1. UNCHANGED <<ap, coreMain, jumped>>
  BY DEF NextCore, Arm, Poll, AwaitMain
<1>2. CASE NextCore
  <2>1. Types'
    BY <1>1, <1>2 DEF NextCore, At, Goto, Types, Waking
  <2>2. WakesAnAp' /\ bsp' \notin Sipis
    <3>1. bsp' \in Waking => bsp' = "init" /\ index' = index /\ index <= Len(Madt) /\ Core # BootCore
      BY <1>2 DEF NextCore, At, Goto, Waking
    <3>2. index <= Len(Madt) => index \in DOMAIN Madt /\ Core \in CPUs
      BY Identifiers DEF Types, Core, CPUs
    <3> QED BY <3>1, <3>2 DEF WakesAnAp, Waking, Sipis, Core, APs
  <2> QED BY <1>1, <2>1, <2>2, QuietMain
<1>3. CASE Arm \/ Poll \/ AwaitMain
  <2>1. /\ bsp \in Sipis /\ bsp \in Waking
        /\ \/ bsp' \in Waking /\ index' = index
           \/ bsp' = "next" /\ index' = index + 1
    <3>1. CASE Arm
      BY <3>1 DEF Arm, At, Goto, Waking, Sipis
    <3>2. CASE Poll
      BY <3>2 DEF Poll, At, Goto, Waking, Sipis
    <3>3. CASE AwaitMain
      BY <3>3 DEF AwaitMain, At, Goto, Waking, Sipis
    <3> QED BY <1>3, <3>1, <3>2, <3>3
  <2>2. Types' /\ WakesAnAp'
    BY <1>1, <2>1, Places DEF Types
  <2>3. bsp' \in Sipis => index' = index
    BY <2>1 DEF Sipis
  <2> QED BY <1>1, <2>1, <2>2, <2>3, QuietMain
<1> QED BY <1>2, <1>3

\* The steps of an application core.
LEMMA ApInv ==
  ASSUME MainInv, NEW c \in APs, ApStep(c) PROVE MainInv'
<1> USE DEF MainInv
<1>1. /\ ap[c] \in Started /\ UNCHANGED <<bsp, index, coreMain>>
      /\ \E s \in Started : ap' = [ap EXCEPT ![c] = s]
  BY DEF ApStep, Bootstrap, ReportBoot, EnterMain, Started
<1>2. jumped' = {}
  BY DEF ApStep, Bootstrap, ReportBoot, EnterMain, MainFirst, Started
<1>3. Types' /\ WakesAnAp'
  BY <1>1 DEF Types, WakesAnAp, Core
<1>4. MainFirst'
  BY <1>1, <1>2 DEF MainFirst, Core, Types
<1> QED BY <1>3, <1>4

\* Waking begins before the first core of the MADT.
LEMMA InitMain == Init => MainInv
BY DEF Init, MainInv, Types, WakesAnAp, MainFirst, Waking, Sipis, Started

\* Every step keeps it: main functions are set before the command that starts a core.
LEMMA StepMain == MainInv /\ [Next]_vars => MainInv'
<1> SUFFICES ASSUME MainInv, [Next]_vars PROVE MainInv'
  OBVIOUS
<1>1. CASE UNCHANGED bootVars
  BY <1>1 DEF bootVars, MainInv, Types, WakesAnAp, MainFirst, Core
<1>2. UNCHANGED vars \/ TimerStep => UNCHANGED bootVars
  BY DEF vars, TimerStep
<1> QED BY <1>1, <1>2, CommandInv, LoopInv, ApInv DEF Next, BspStep

\* However the commands, the pauses and the cores' own steps interleave, and
\* whatever command times out, no application core calls a main function that
\* is not set: wake_core sets it between INIT and SIPI, and a SIPI reaches no
\* other core.
THEOREM MainIsSetFirst == Spec => []MainIsSet
<1>1. MainInv => MainIsSet
  BY DEF MainInv, MainFirst, MainIsSet
<1> QED BY <1>1, InitMain, StepMain, PTL DEF Spec

-----------------------------------------------------------------------------
(* The end of the setup                                                     *)

\* Each step keeps what the list of active cores says.
LEMMA StepActive == MainInv /\ ActiveEntered /\ 0 \notin APs /\ [Next]_vars => ActiveEntered'
<1> SUFFICES ASSUME MainInv, ActiveEntered, 0 \notin APs, [Next]_vars PROVE ActiveEntered'
  OBVIOUS
<1>1. CASE UNCHANGED bootVars
  BY <1>1 DEF bootVars, ActiveEntered, Core
<1>2. UNCHANGED vars \/ TimerStep => UNCHANGED bootVars
  BY DEF vars, TimerStep
<1>3. CASE NextCore
  BY <1>3 DEF NextCore, At, Goto, ActiveEntered, Core, APs
<1>4. CASE SendInit \/ Deassert \/ SendSipi
  <2>1. bsp # "entering" /\ active' \subseteq active /\ entered' = entered /\ bsp' # "done"
    BY <1>4 DEF SendInit, Deassert, SendSipi, At, Goto, Fails
  <2> QED BY <2>1 DEF ActiveEntered
<1>5. CASE Arm
  BY <1>5 DEF Arm, At, Goto, ActiveEntered
<1>6. CASE Poll
  BY <1>6 DEF Poll, At, Goto, ActiveEntered, Core
<1>7. CASE AwaitMain
  BY <1>7 DEF AwaitMain, At, Goto, ActiveEntered
<1>8. ASSUME NEW c \in APs, ApStep(c) PROVE ActiveEntered'
  BY <1>8 DEF ApStep, Bootstrap, ReportBoot, EnterMain, ActiveEntered, Core
<1> QED BY <1>1, <1>2, <1>3, <1>4, <1>5, <1>6, <1>7, <1>8 DEF Next, BspStep

\* multicore_setup ends only when every application core is in its main
\* function, on a machine where identifier 0 is the boot core's or nobody's:
\* the code counts core 0 as active from the start.
THEOREM SetupEndsComplete == 0 \notin APs => (Spec => []SetupIsComplete)
<1> SUFFICES ASSUME 0 \notin APs PROVE Spec => []SetupIsComplete
  OBVIOUS
<1>1. Init => MainInv /\ ActiveEntered
  BY InitMain DEF Init, ActiveEntered
<1>2. MainInv /\ ActiveEntered /\ [Next]_vars => (MainInv /\ ActiveEntered)'
  BY StepMain, StepActive
<1>3. MainInv /\ ActiveEntered => SetupIsComplete
  BY DEF ActiveEntered, SetupIsComplete
<1> QED BY <1>1, <1>2, <1>3, PTL DEF Spec
=============================================================================
