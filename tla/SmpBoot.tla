------------------------------- MODULE SmpBoot -------------------------------
(***************************************************************************)
(* Waking the application cores: the loop of multicore_setup, wake_core    *)
(* with the INIT and SIPI commands it sends, and each application core     *)
(* from its bootstrap code to its main loop.  The boot core's pauses and   *)
(* timeouts are those of module Pit, step by step, interrupt by interrupt. *)
(*                                                                         *)
(* wake_core first polls for one short timeout (round 0), then sends a     *)
(* second SIPI and polls for Rounds further timeouts.                      *)
(***************************************************************************)
EXTENDS Pit, Sequences, FiniteSets, Registers

CONSTANTS Madt,        \* the cores' APIC identifiers in the order of the MADT
          BootCore,    \* the boot core's
          Silent,      \* application cores that never answer a SIPI
          IpiTimeouts, \* whether a LAPIC command may stay pending too long
          Pause,       \* the 10 ms between the commands, in PIT units
          ShortPoll,   \* the 1 ms of the first poll
          LongPoll,    \* the 50 ms of the later ones
          Rounds       \* timeout_count, 20 in the code

VARIABLES
  bsp,      \* where the boot core is in multicore_setup and wake_core
  index,    \* its position in the MADT's list of cores
  round,    \* the poll wake_core is in
  active,   \* core_is_active
  coreMain, \* cores whose entry of core_mains is set
  booted,   \* core_has_booted
  entered,  \* entered_main
  ap,       \* where each application core is
  jumped    \* application cores that called core_mains while it was not set

bootVars == <<bsp, index, round, active, coreMain, booted, entered, ap, jumped>>
vars == <<timerVars, bootVars>>

-----------------------------------------------------------------------------
CPUs == {Madt[i] : i \in DOMAIN Madt}
APs == CPUs \ {BootCore}
Core == Madt[index]

\* The arrays indexed by an APIC identifier, core_mains among them, end here.
MAX_CORE_COUNT == 12

ASSUME SmpAssumption ==
  /\ Madt \in Seq(0..MAX_CORE_COUNT - 1) /\ BootCore \in CPUs /\ Silent \subseteq APs
  /\ {Pause, ShortPoll, LongPoll} \subseteq Durations
  /\ Rounds \in Nat \ {0}

\* wake_core has one finished flag, a local whose slot each call reuses.
Finished == CHOOSE cell \in Cells : TRUE

Init ==
  /\ TimerInit
  /\ bsp = "next" /\ index = 1 /\ round = 0
  /\ active = {0}  \* core_is_active[0], whatever the boot core is
  /\ coreMain = {} /\ booted = {} /\ entered = {} /\ jumped = {}
  /\ ap = [c \in APs |-> "reset"]

\* The boot core executes at label, outside the timer's code.
At(label) == bsp = label /\ Executes("idle")

Goto(label) == bsp' = label

\* wake_core returns an error: the core counts as inactive and the loop goes on.
Fails == Goto("next") /\ index' = index + 1 /\ active' = active \ {Core}

-----------------------------------------------------------------------------
(* multicore_setup and wake_core                                            *)

\* A loop without the final assertion that every core is active.
NextCoreUnchecked ==
  /\ At("next")
  /\ Goto(IF index > Len(Madt) THEN "done"
          ELSE IF Core = BootCore THEN "next" ELSE "init")
  /\ index' = IF index <= Len(Madt) /\ Core = BootCore THEN index + 1 ELSE index
  /\ round' = 0
  /\ UNCHANGED <<timerVars, active, coreMain, booted, entered, ap, jumped>>

\* The loop over the MADT skips the boot core; after it every core must be active.
NextCore ==
  /\ At("next")
  /\ \/ /\ index > Len(Madt)
        /\ Goto(IF CPUs \subseteq active THEN "done" ELSE "aborted")
        /\ UNCHANGED <<index, round>>
     \/ /\ index <= Len(Madt) /\ Core = BootCore
        /\ index' = index + 1
        /\ UNCHANGED <<bsp, round>>
     \/ /\ index <= Len(Madt) /\ Core # BootCore
        /\ Goto("init")
        /\ round' = 0
        /\ UNCHANGED index
  /\ UNCHANGED <<timerVars, active, coreMain, booted, entered, ap, jumped>>

\* The three commands' low words.  core_bootstrap is the page of its code.
core_bootstrap == 8
InitCommand == Command([vector_number |-> 0, delivery_mode |-> delivery_mode.init])
DeassertCommand ==
  Command([vector_number |-> 0, delivery_mode |-> delivery_mode.init,
           level |-> level.deassert, trigger_mode |-> trigger_mode.level])
SipiCommand == Command([vector_number |-> core_bootstrap, delivery_mode |-> delivery_mode.start_up])

\* The destination bits of a core's identifier.
Destination(c) == {24 + b : b \in {i \in 0..7 : (c \div 2 ^ i) % 2 = 1}}

\* What the words say, evaluated: no command but the SIPI starts a core, and a
\* target's word is the destination of that core alone.
ASSUME CommandWords ==
  /\ InitCommand \cap 8..10 # {9, 10} /\ DeassertCommand \cap 8..10 # {9, 10}
  /\ \A c, d \in 0..MAX_CORE_COUNT - 1 : Target(c) = Destination(d) => c = d

\* What the cores do with a command, by the bits of its words: bits 24 to 31
\* of the high word name the core, 8 to 10 of the low word say what it is and
\* 14 its level.  INIT resets the core, its deassertion does nothing, and only
\* a core that waits for a SIPI takes it.
Delivered(low, high) ==
  [c \in APs |->
     IF high # Destination(c) THEN ap[c]
     ELSE IF low \cap 8..10 = {8, 10} /\ 14 \in low THEN "wait_sipi"
     ELSE IF low \cap 8..10 = {9, 10} /\ ap[c] = "wait_sipi" /\ c \notin Silent
     THEN "bootstrap" ELSE ap[c]]

\* send_init resets the core and, when the command went out, pauses.
SendInit ==
  /\ At("init")
  /\ ap' = Delivered(InitCommand, Target(Core))
  /\ \/ /\ Goto("deassert")
        /\ CallWait(Pause)
        /\ UNCHANGED <<index, active>>
     \/ /\ IpiTimeouts
        /\ Fails
        /\ UNCHANGED timerVars
  /\ UNCHANGED <<round, coreMain, booted, entered, jumped>>

\* A wake_core that forgets to set the core's main function.
DeassertNoMain ==
  /\ At("deassert")
  /\ Goto("sipi")
  /\ CallWait(Pause)
  /\ UNCHANGED <<index, active, coreMain, round, booted, entered, ap, jumped>>

\* The deassert command ends send_init; wake_core sets the core's main
\* function and pauses again.
Deassert ==
  /\ At("deassert")
  /\ ap' = Delivered(DeassertCommand, Target(Core))
  /\ \/ /\ Goto("sipi")
        /\ coreMain' = coreMain \cup {Core}
        /\ CallWait(Pause)
        /\ UNCHANGED <<index, active>>
     \/ /\ IpiTimeouts
        /\ Fails
        /\ UNCHANGED <<timerVars, coreMain>>
  /\ UNCHANGED <<round, booted, entered, jumped>>

\* send_sipi.
SendSipi ==
  /\ At("sipi")
  /\ ap' = Delivered(SipiCommand, Target(Core))
  /\ \/ /\ Goto("arm")
        /\ UNCHANGED <<index, active>>
     \/ /\ IpiTimeouts
        /\ Fails
  /\ UNCHANGED <<timerVars, round, coreMain, booted, entered, jumped>>

\* Only the first poll is a new timeout.
Arm ==
  /\ At("arm")
  /\ IF round = 0 THEN CallTimeout(ShortPoll, Finished, TRUE)
                  ELSE CallTimeout(LongPoll, Finished, FALSE)
  /\ Goto("poll")
  /\ UNCHANGED <<index, round, active, coreMain, booted, entered, ap, jumped>>

\* One look at core_has_booted, then at finished.
Poll ==
  LET seen == flag[Finished] = 1
      last == round = Rounds
  IN
  /\ At("poll")
  /\ Goto(IF Core \in booted THEN "entering"
          ELSE IF ~seen THEN "poll"
          ELSE IF last THEN "next"
          ELSE IF round = 0 THEN "sipi" ELSE "arm")
  /\ round' = IF Core \notin booted /\ seen /\ ~last THEN round + 1 ELSE round
  /\ index' = IF Core \notin booted /\ seen /\ last THEN index + 1 ELSE index
  /\ active' = IF Core \in booted THEN active \cup {Core} ELSE active
  /\ UNCHANGED <<timerVars, coreMain, booted, entered, ap, jumped>>

\* The boot core spins until the woken core is in its main function.
AwaitMain ==
  /\ At("entering")
  /\ Core \in entered
  /\ Goto("next")
  /\ index' = index + 1
  /\ UNCHANGED <<timerVars, round, active, coreMain, booted, entered, ap, jumped>>

BspStep == NextCore \/ SendInit \/ Deassert \/ SendSipi \/ Arm \/ Poll \/ AwaitMain

-----------------------------------------------------------------------------
(* The application cores                                                    *)

\* The bootstrap code reads core_mains and then reports that it booted.
Bootstrap(c) ==
  /\ ap[c] = "bootstrap"
  /\ ap' = [ap EXCEPT ![c] = "loaded"]
  /\ jumped' = IF c \in coreMain THEN jumped ELSE jumped \cup {c}
  /\ UNCHANGED <<timerVars, bsp, index, round, active, coreMain, booted, entered>>

ReportBoot(c) ==
  /\ ap[c] = "loaded"
  /\ ap' = [ap EXCEPT ![c] = "booted"]
  /\ booted' = booted \cup {c}
  /\ UNCHANGED <<timerVars, bsp, index, round, active, coreMain, entered, jumped>>

\* application_core_main, up to its hlt loop.
EnterMain(c) ==
  /\ ap[c] = "booted"
  /\ ap' = [ap EXCEPT ![c] = "main"]
  /\ entered' = entered \cup {c}
  /\ UNCHANGED <<timerVars, bsp, index, round, active, coreMain, booted, jumped>>

ApStep(c) == Bootstrap(c) \/ ReportBoot(c) \/ EnterMain(c)

TimerStep ==
  /\ Step \/ Fire \/ PitInterrupt \/ OtherInterrupt
  /\ UNCHANGED bootVars

Next == BspStep \/ TimerStep \/ \E c \in APs : ApStep(c)

\* Every core executes its instructions, the counter counts, and an enabled
\* interrupt is taken.
Fairness ==
  /\ SF_vars(BspStep)
  /\ \A c \in APs : WF_vars(ApStep(c))
  /\ SF_vars(Step /\ UNCHANGED bootVars)
  /\ WF_vars(Fire /\ UNCHANGED bootVars)
  /\ WF_vars(PitInterrupt /\ UNCHANGED bootVars)

Spec == Init /\ [][Next]_vars /\ Fairness

-----------------------------------------------------------------------------

\* No application core calls a main function that wake_core has not yet set.
MainIsSet == jumped = {}

\* multicore_setup ends only when every core it counts as active runs its
\* main function, and then every core is one of them.
SetupIsComplete == bsp = "done" => APs \subseteq entered

\* Waking the cores ends, with every core awake or at the final assertion,
\* unless another device interrupts one of the pauses.
SetupEnds == []~noisy => <>(bsp \in {"done", "aborted"})
=============================================================================
