--------------------------------- MODULE Ipi ---------------------------------
(***************************************************************************)
(* Inter-processor interrupts: apic::send_ipi posts the vector in the      *)
(* receiver's mailbox, last_interrupt_received[receiver][sender], under a  *)
(* spin lock and then has the local APIC interrupt the receiver;           *)
(* apic::wait_till_interrupt halts and searches the mailbox after every    *)
(* interrupt.                                                              *)
(***************************************************************************)
EXTENDS Naturals

CONSTANTS Count,        \* runtime_core_count; the cores are 0..Count-1
          Vectors,      \* interrupt vectors
          NoInterrupt   \* NO_INTERRUPT

Cores == 0..Count-1

ASSUME IpiAssumption ==
  /\ Count \in Nat \ {0}
  /\ Vectors \subseteq Nat \ {0} /\ NoInterrupt \in Nat \ Vectors

VARIABLES lock, spin, holders,  \* last_interrupt_received_spin_lock
          mailbox,  \* last_interrupt_received
          irr,      \* vectors each local APIC has to deliver
          intr,     \* each core's interrupt flag
          pc,       \* where each core is in send_ipi or wait_till_interrupt
          peer,     \* send_ipi's receiver, or the sender being looked at
          vector,   \* the vector being sent or waited for
          flags,    \* the interrupt flag saved by wait_till_interrupt
          lir,      \* the entry that wait_till_interrupt read
          handled,  \* apic_wait_interrupt_handled
          posted    \* each sender's last post, until a wait has read it (history)

Spin == INSTANCE SpinLock

lockVars == <<lock, spin, holders>>
ipiVars == <<mailbox, irr, intr, pc, peer, vector, flags, lir, handled, posted>>
vars == <<lockVars, ipiVars>>

\* The mailbox is zero-initialised; 0 is no vector that is ever sent.
Init ==
  /\ Spin!Init
  /\ mailbox = [c \in Cores |-> [s \in Cores |-> 0]]
  /\ irr = [c \in Cores |-> {}]
  /\ intr \in [Cores -> BOOLEAN]
  /\ pc = [c \in Cores |-> "idle"]
  /\ peer = [c \in Cores |-> 0]
  /\ vector = [c \in Cores |-> NoInterrupt]
  /\ flags = [c \in Cores |-> FALSE]
  /\ lir = [c \in Cores |-> 0]
  /\ handled = [c \in Cores |-> FALSE]
  /\ posted = [c \in Cores |-> [s \in Cores |-> NoInterrupt]]

Goto(c, label) == pc' = [pc EXCEPT ![c] = label]

\* The call of simple_spin_lock returned: the core is past its lock step.
Unlocked(c) == spin[c] = "out"

SendIpi(c, target, v) ==
  /\ pc[c] = "idle"
  /\ Goto(c, "post")
  /\ peer' = [peer EXCEPT ![c] = target]
  /\ vector' = [vector EXCEPT ![c] = v]
  /\ Spin!CallSpinLock(c)
  /\ UNCHANGED <<mailbox, irr, intr, flags, lir, handled, posted>>

\* A post that does not wait for the lock.
PostWithoutLock(c) ==
  /\ pc[c] = "post"
  /\ mailbox' = [mailbox EXCEPT ![peer[c]][c] = vector[c]]
  /\ posted' = [posted EXCEPT ![peer[c]][c] = vector[c]]
  /\ spin' = [spin EXCEPT ![c] = "out"]
  /\ Goto(c, "command")
  /\ UNCHANGED <<lock, holders, irr, intr, peer, vector, flags, lir, handled>>

\* The vector is written to the receiver's mailbox; the lock is released.
Post(c) ==
  /\ pc[c] = "post" /\ Unlocked(c)
  /\ mailbox' = [mailbox EXCEPT ![peer[c]][c] = vector[c]]
  /\ posted' = [posted EXCEPT ![peer[c]][c] = vector[c]]
  /\ Spin!SpinUnlock(c)
  /\ Goto(c, "command")
  /\ UNCHANGED <<irr, intr, peer, vector, flags, lir, handled>>

\* The local APIC's command register; send_ipi returns, in time or with an error.
Command(c) ==
  /\ pc[c] = "command"
  /\ \/ irr' = [irr EXCEPT ![peer[c]] = @ \cup {vector[c]}]
     \/ irr' = irr
  /\ Goto(c, "idle")
  /\ peer' = [peer EXCEPT ![c] = 0]
  /\ vector' = [vector EXCEPT ![c] = NoInterrupt]
  /\ UNCHANGED <<lockVars, mailbox, intr, flags, lir, handled, posted>>

\* irq_save, then sti.
WaitTillInterrupt(c, v) ==
  /\ pc[c] = "idle"
  /\ vector' = [vector EXCEPT ![c] = v]
  /\ flags' = [flags EXCEPT ![c] = intr[c]]
  /\ intr' = [intr EXCEPT ![c] = TRUE]
  /\ Goto(c, "hlt")
  /\ UNCHANGED <<lockVars, mailbox, irr, peer, lir, handled, posted>>

\* hlt; an interrupt that is already there is taken first.
Halt(c) ==
  /\ pc[c] = "hlt" /\ irr[c] = {}
  /\ Goto(c, "halted")
  /\ UNCHANGED <<lockVars, mailbox, irr, intr, peer, vector, flags, lir, handled, posted>>

\* The search of the mailbox begins with sender 0.
Awake(c) ==
  /\ pc[c] = "awake"
  /\ peer' = [peer EXCEPT ![c] = 0]
  /\ Goto(c, "look")
  /\ Spin!CallSpinLock(c)
  /\ UNCHANGED <<mailbox, irr, intr, vector, flags, lir, handled, posted>>

\* The sender's entry is read; the history forgets a post that this wait is for.
Look(c) ==
  /\ pc[c] = "look" /\ Unlocked(c)
  /\ lir' = [lir EXCEPT ![c] = mailbox[c][peer[c]]]
  /\ posted' = IF mailbox[c][peer[c]] = vector[c]
               THEN [posted EXCEPT ![c][peer[c]] = NoInterrupt] ELSE posted
  /\ Goto(c, "test")
  /\ UNCHANGED <<lockVars, mailbox, irr, intr, peer, vector, flags, handled>>

\* The entry held the vector: it is cleared and the wait returns.
Found(c) ==
  /\ pc[c] = "test"
  /\ lir[c] = vector[c]
  /\ mailbox' = [mailbox EXCEPT ![c][peer[c]] = NoInterrupt]
  /\ Spin!SpinUnlock(c)
  /\ intr' = [intr EXCEPT ![c] = flags[c]]
  /\ Goto(c, "idle")
  /\ peer' = [peer EXCEPT ![c] = 0]
  /\ vector' = [vector EXCEPT ![c] = NoInterrupt]
  /\ flags' = [flags EXCEPT ![c] = FALSE]
  /\ lir' = [lir EXCEPT ![c] = 0]
  /\ UNCHANGED <<irr, handled, posted>>

\* Any other entry: the next sender's turn begins with taking the lock, and
\* after the last sender the core halts again.  Nothing releases the lock.
NotFound(c) ==
  /\ pc[c] = "test"
  /\ lir[c] # vector[c]
  /\ IF peer[c] + 1 < Count
     THEN /\ peer' = [peer EXCEPT ![c] = @ + 1]
          /\ Spin!CallSpinLock(c)
          /\ Goto(c, "look")
     ELSE /\ Goto(c, "hlt")
          /\ UNCHANGED <<lockVars, peer>>
  /\ lir' = [lir EXCEPT ![c] = 0]
  /\ UNCHANGED <<mailbox, irr, intr, vector, flags, handled, posted>>

\* A step of simple_spin_lock.
Spinning(c) == Spin!SpinStep(c) /\ UNCHANGED ipiVars

\* apic_wait_interrupt_handler_asm, the handler of vector 58, notes that it ran
\* and acknowledges the interrupt; it returns into the wait.
Interrupt(c) ==
  /\ intr[c]
  /\ \E v \in irr[c] : irr' = [irr EXCEPT ![c] = @ \ {v}]
  /\ handled' = [handled EXCEPT ![c] = TRUE]
  /\ Goto(c, IF pc[c] = "halted" THEN "awake" ELSE pc[c])
  /\ UNCHANGED <<lockVars, mailbox, intr, peer, vector, flags, lir, posted>>

Call(c) == \E v \in Vectors :
             \/ \E target \in Cores : SendIpi(c, target, v)
             \/ WaitTillInterrupt(c, v)

Next == \E c \in Cores :
          \/ Call(c) \/ Post(c) \/ Command(c) \/ Halt(c) \/ Awake(c)
          \/ Look(c) \/ Found(c) \/ NotFound(c)
          \/ Spinning(c) \/ Interrupt(c)

Spec == Init /\ [][Next]_vars

-----------------------------------------------------------------------------
\* Every variable of the interrupt model has its type.
TypeOK ==
  /\ Spin!TypeOK
  /\ mailbox \in [Cores -> [Cores -> Vectors \cup {0, NoInterrupt}]]
  /\ irr \in [Cores -> SUBSET Vectors]
  /\ intr \in [Cores -> BOOLEAN] /\ flags \in [Cores -> BOOLEAN]
  /\ pc \in [Cores -> {"idle", "post", "command", "hlt", "halted", "awake", "look",
                      "test"}]
  /\ peer \in [Cores -> Cores]
  /\ vector \in [Cores -> Vectors \cup {NoInterrupt}]
  /\ lir \in [Cores -> Vectors \cup {0, NoInterrupt}]
  /\ handled \in [Cores -> BOOLEAN]
  /\ posted \in [Cores -> [Cores -> Vectors \cup {NoInterrupt}]]

\* A core is past taking the mailbox's lock, in send_ipi or in the search of
\* wait_till_interrupt, and has not released it.
InMailbox(c) == \/ pc[c] \in {"post", "look"} /\ Unlocked(c)
                \/ pc[c] = "test"

\* send_ipi and wait_till_interrupt never have two cores in the mailbox at a time.
MailboxExclusive ==
  \A c, d \in Cores : InMailbox(c) /\ InMailbox(d) => c = d

\* No post is lost: until a wait for it has read a vector that send_ipi posted,
\* the vector stays in the receiver's mailbox.  A receiver that reads an entry
\* and then clears it must not clear a post that came between the two, and a
\* sender must not overwrite another's.
NoPostIsLost ==
  \A c, s \in Cores :
    posted[c][s] \in Vectors => mailbox[c][s] = posted[c][s]
=============================================================================
