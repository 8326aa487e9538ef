------------------------------- MODULE Kprintf -------------------------------
(***************************************************************************)
(* The callers of the reentrant lock: kprintf_argc and vkprintf of         *)
(* stdio/stdio.c, running in kernel code, in interrupt handlers and in     *)
(* exception handlers of every core.                                       *)
(*                                                                         *)
(* A core runs a stack of kprintf activations (frames); only the topmost   *)
(* one executes.  The lock's contexts are the pairs <<core, level>>.       *)
(*                                                                         *)
(* The ways of entering kprintf:                                           *)
(*   "call"   kernel code; kprintf_argc may find that the argument count   *)
(*            and the format disagree, and then aborts;                    *)
(*   "irq"    an interrupt handler that prints and returns with iret;      *)
(*   "abort"  an assertion or abort(): _2abort_msg_fmt prints its messages *)
(*            one by one and halts the core;                               *)
(* and, for an exception raised while a frame is formatting,               *)
(*   "stub"   isr_stub: a message, then a loop;                            *)
(*   "np"     interrupt_11_handler: three messages, then a loop;           *)
(*   "df"     interrupt_8_handler: two messages, then iret with the error  *)
(*            code still on the stack, which is a protection fault;        *)
(*   "gp"     interrupt_13_handler: two messages, a breakpoint on the      *)
(*            instruction that faulted, then the same iret;                *)
(*   "again"  interrupt_13_handler for the fault of an iret: if it is its  *)
(*            own, the breakpoint is on it now and the next exception is   *)
(*            the debug exception, whose handler is an isr_stub;           *)
(*   "bound"  interrupt_5_handler, which loads the selector of the code    *)
(*            segment (idt.c's kernel_cs) into ds before it prints.        *)
(* The last word of _abort, "ABORTED", goes to the terminal without the    *)
(* lock; the model does not follow it.                                     *)
(***************************************************************************)
EXTENDS Naturals, Sequences, FiniteSets

CONSTANTS CPUs,          \* the cores' APIC identifiers
          MaxRecursion,  \* the lock's recursion limit
          AbortMessages, \* the messages of _2abort_msg_fmt, 4 in the code
          MaxNest,       \* bound on the frames of one core
          MaxEntries     \* bound on the kprintf calls of one core

ASSUME KprintfAssumption ==
  /\ CPUs \subseteq Nat /\ MaxRecursion \in Nat \ {0}
  /\ AbortMessages \in Nat \ {0} /\ MaxNest \in Nat \ {0} /\ MaxEntries \in Nat

VARIABLES state, pc, op, expected, depth,   \* the lock's, see ReentrantLock
          frames,    \* each core's stack of kprintf activations
          intr,      \* each core's interrupt flag
          home,      \* the interrupt flag each core's kernel code runs with
          stopped,   \* cores that halted or spin forever in a handler
          entries    \* kprintf calls made so far by each core

Contexts == CPUs \X (1..MaxNest)

Lock == INSTANCE ReentrantLock
          WITH CpuOf <- [t \in Contexts |-> t[1]]

lockVars == <<state, pc, op, expected, depth>>
vars == <<lockVars, frames, intr, home, stopped, entries>>

-----------------------------------------------------------------------------
\* An activation is a record: how it was entered (via), how far it is (phase:
\* entry, locking, body, unlocking, restore, ret), the flags irq_save kept, a
\* format that disagrees with argc (bad), the messages left to print (left).
Exceptions == {"stub", "np", "df", "gp"}
Faults == Exceptions \cup {"again"}

\* The messages of an entry.
Messages(via) ==
  CASE via = "abort" -> AbortMessages
    [] via = "np" -> 3
    [] via \in {"df", "gp", "again", "bound"} -> 2
    [] OTHER -> 1

Running(c) == frames[c] # <<>> /\ ~stopped[c]
Level(c) == Len(frames[c])
Top(c) == frames[c][Level(c)]

\* A core identifier that is read through a segment every core shares.
ContextOfCoreZero(c) == <<0, Level(c)>>

\* Exception handlers that replaced fs before they ask for the core's identifier.
ContextAfterFault(c) ==
  <<IF Top(c).via \in Faults THEN CHOOSE d \in CPUs : d # c ELSE c, Level(c)>>

\* The lock's name for the topmost activation of a core.
Context(c) == <<c, Level(c)>>

SetTop(c, frame) == frames' = [frames EXCEPT ![c][Level(c)] = frame]

Init ==
  /\ Lock!Init
  /\ frames = [c \in CPUs |-> <<>>]
  /\ intr \in [CPUs -> BOOLEAN]
  /\ home = intr
  /\ stopped = [c \in CPUs |-> FALSE]
  /\ entries = [c \in CPUs |-> 0]

Push(c, via, bad) ==
  /\ ~stopped[c]
  /\ Level(c) < MaxNest
  /\ entries[c] < MaxEntries
  /\ entries' = [entries EXCEPT ![c] = @ + 1]
  /\ frames' = [frames EXCEPT ![c] =
        Append(@, [via |-> via, phase |-> "entry", flags |-> FALSE, bad |-> bad,
                   left |-> Messages(via)])]
  /\ UNCHANGED <<lockVars, home>>

\* Kernel code calls kprintf; bad is a format that disagrees with argc.
KernelPrints(c) ==
  /\ frames[c] = <<>>
  /\ \E bad \in BOOLEAN : Push(c, "call", bad)
  /\ UNCHANGED <<intr, stopped>>

\* An interrupt is delivered through an interrupt gate, which clears IF.
InterruptPrints(c) ==
  /\ intr[c]
  /\ Push(c, "irq", FALSE)
  /\ intr' = [intr EXCEPT ![c] = FALSE]
  /\ UNCHANGED stopped

\* An exception in the part of kprintf that formats.
FaultPrints(c) ==
  /\ frames[c] # <<>> /\ Top(c).phase = "body"
  /\ \E via \in Exceptions : Push(c, via, FALSE)
  /\ intr' = [intr EXCEPT ![c] = FALSE]
  /\ UNCHANGED stopped

\* BOUND's handler can store nothing: the code segment is not writable, so the
\* lock's first store is a protection fault, and so is that of every handler the
\* faults lead to.  The core spends the rest of its time there.
BoundFault(c) ==
  /\ frames[c] # <<>> /\ Top(c).phase = "body"
  /\ Push(c, "bound", FALSE)
  /\ intr' = [intr EXCEPT ![c] = FALSE]
  /\ stopped' = [stopped EXCEPT ![c] = TRUE]

\* An assertion or an abort() in the part of kprintf that formats.
AssertPrints(c) ==
  /\ frames[c] # <<>> /\ Top(c).phase = "body"
  /\ Push(c, "abort", FALSE)
  /\ UNCHANGED <<intr, stopped>>

\* An irq_save that reads the flags without disabling interrupts.
IrqSaveNoCli(c) ==
  /\ Running(c) /\ Top(c).phase = "entry"
  /\ SetTop(c, [Top(c) EXCEPT !.phase = "locking", !.flags = intr[c]])
  /\ Lock!CallLock(Context(c))
  /\ UNCHANGED <<intr, home, stopped, entries>>

\* irq_save, then the call of reentrant_lock.
IrqSave(c) ==
  /\ Running(c) /\ Top(c).phase = "entry"
  /\ SetTop(c, [Top(c) EXCEPT !.phase = "locking", !.flags = intr[c]])
  /\ intr' = [intr EXCEPT ![c] = FALSE]
  /\ Lock!CallLock(Context(c))
  /\ UNCHANGED <<home, stopped, entries>>

\* A step of reentrant_lock or reentrant_unlock; next is where it returns to.
LockStep(c, phase, next) ==
  /\ Running(c) /\ Top(c).phase = phase
  /\ Lock!Inside(Context(c))
  /\ SetTop(c, [Top(c) EXCEPT
                  !.phase = IF pc'[Context(c)] = "out" THEN next ELSE phase])
  /\ UNCHANGED <<intr, home, stopped, entries>>

Locking(c) == LockStep(c, "locking", "body")

\* A return path of kprintf that misses the unlock.
PrintDoneNoUnlock(c) ==
  /\ Running(c) /\ Top(c).phase = "body"
  /\ SetTop(c, [Top(c) EXCEPT !.phase = "restore"])
  /\ UNCHANGED <<lockVars, intr, home, stopped, entries>>

\* The text is on the terminal: the call of reentrant_unlock.
PrintDone(c) ==
  /\ Running(c) /\ Top(c).phase = "body"
  /\ SetTop(c, [Top(c) EXCEPT !.phase = "unlocking"])
  /\ Lock!CallUnlock(Context(c))
  /\ UNCHANGED <<intr, home, stopped, entries>>

Unlocking(c) == LockStep(c, "unlocking", "restore")

IrqRestore(c) ==
  /\ Running(c) /\ Top(c).phase = "restore"
  /\ intr' = [intr EXCEPT ![c] = Top(c).flags]
  /\ SetTop(c, [Top(c) EXCEPT !.phase = "ret", !.left = @ - 1])
  /\ UNCHANGED <<lockVars, home, stopped, entries>>

\* kprintf_argc calls abort() after it reported a bad format.
BadFormat(c) ==
  /\ Running(c) /\ Top(c).phase = "ret"
  /\ Top(c).bad
  /\ SetTop(c, [Top(c) EXCEPT !.via = "abort", !.bad = FALSE,
                             !.phase = "entry", !.left = AbortMessages])
  /\ UNCHANGED <<lockVars, intr, home, stopped, entries>>

\* _2abort_msg_fmt or an exception handler goes on to its next message.
NextMessage(c) ==
  /\ Running(c) /\ Top(c).phase = "ret"
  /\ Top(c).left > 0
  /\ SetTop(c, [Top(c) EXCEPT !.phase = "entry"])
  /\ UNCHANGED <<lockVars, intr, home, stopped, entries>>

\* The exception that the iret of a handler with an error code raises.
After(via) == CASE via = "df" -> "gp" [] via = "gp" -> "again" [] via = "again" -> "stub"

\* interrupt_8_handler and interrupt_13_handler reach their iret.
IretFaults(c) ==
  /\ Running(c) /\ Top(c).phase = "ret"
  /\ Top(c).left = 0
  /\ Top(c).via \in {"df", "gp", "again"}
  /\ SetTop(c, [Top(c) EXCEPT !.via = After(Top(c).via), !.phase = "entry",
                             !.left = Messages(After(Top(c).via))])
  /\ UNCHANGED <<lockVars, intr, home, stopped, entries>>

\* After the last message _abort halts the core; isr_stub and
\* interrupt_11_handler loop.
Stop(c) ==
  /\ Running(c) /\ Top(c).phase = "ret"
  /\ Top(c).left = 0
  /\ Top(c).via \in {"stub", "np", "abort"}
  /\ stopped' = [stopped EXCEPT ![c] = TRUE]
  /\ intr' = [intr EXCEPT ![c] = FALSE]
  /\ UNCHANGED <<lockVars, frames, home, entries>>

\* kprintf returns to kernel code, or to a handler whose iret restores the
\* flag of the code it interrupted, which was set.
Return(c) ==
  /\ Running(c) /\ Top(c).phase = "ret"
  /\ ~Top(c).bad /\ Top(c).via \in {"call", "irq"}
  /\ intr' = [intr EXCEPT ![c] = @ \/ Top(c).via = "irq"]
  /\ frames' = [frames EXCEPT ![c] = SubSeq(@, 1, Level(c) - 1)]
  /\ UNCHANGED <<lockVars, home, stopped, entries>>

\* The steps a core takes by itself, once inside kprintf.
Proceed(c) == \/ IrqSave(c) \/ Locking(c) \/ PrintDone(c)
              \/ Unlocking(c) \/ IrqRestore(c) \/ BadFormat(c)
              \/ NextMessage(c) \/ IretFaults(c) \/ Stop(c) \/ Return(c)

Enter(c) == \/ KernelPrints(c) \/ InterruptPrints(c)
            \/ FaultPrints(c) \/ BoundFault(c) \/ AssertPrints(c)

Next == \E c \in CPUs : Proceed(c) \/ Enter(c)

\* A core executes instructions for as long as it is not stopped.
Fairness == \A c \in CPUs : WF_vars(Proceed(c))

Spec == Init /\ [][Next]_vars /\ Fairness

-----------------------------------------------------------------------------

\* Output of two cores never mixes: while a frame of one core is putting its
\* text on the terminal, no frame of another core is.
OutputExclusive ==
  \A c, d \in CPUs : c # d =>
    \A i \in 1..Level(c), j \in 1..Level(d) :
      ~(frames[c][i].phase = "body" /\ frames[d][j].phase = "body")

\* irq_save and irq_restore keep the interrupt flag right: a core that holds the
\* lock has interrupts disabled, so that no handler can spin on a lock its own
\* core holds; and kernel code outside kprintf runs with the interrupt flag it
\* had before its prints, nested ones and interrupts included.
IrqFlagIsKept ==
  \A c \in CPUs :
    /\ depth[c] > 0 => ~intr[c]
    /\ frames[c] = <<>> /\ ~stopped[c] => intr[c] = home[c]

\* An exception inside kprintf is reported although its core holds the lock: its
\* handler gets through all of its messages, those of the exceptions its iret
\* raises, and comes to rest; no kprintf of a handler waits for the lock of its
\* own core.  The exception is BOUND, whose handler cannot print.
FaultIsReported ==
  \A c \in CPUs :
    (frames[c] # <<>> /\ Top(c).via \in Faults) ~>
      stopped[c] /\ (Top(c).left = 0 \/ Top(c).via = "bound")

\* Every kprintf completes, unless a core died while it held the lock.
PrintsComplete ==
  \A c \in CPUs :
    Running(c) ~> \/ frames[c] = <<>>
                  \/ \E d \in CPUs : stopped[d] /\ (d = c \/ depth[d] > 0)
=============================================================================
