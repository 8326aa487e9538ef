------------------------------ MODULE SpinLock ------------------------------
(***************************************************************************)
(* The spin lock of stdlib/atomic.h: a word that is 0 or 1, taken with a   *)
(* compare-and-swap after a read-only spin and released with a plain store *)
(* that does not ask who holds it.                                         *)
(***************************************************************************)
EXTENDS Naturals

CONSTANT Cores

VARIABLES lock,    \* the lock word
          spin,    \* where each core is in the lock's code
          holders  \* cores that took the lock and have not released it (history)

vars == <<lock, spin, holders>>

Init ==
  /\ lock = 0
  /\ spin = [c \in Cores |-> "out"]
  /\ holders = {}

Goto(c, label) == spin' = [spin EXCEPT ![c] = label]

CallSpinLock(c) ==
  /\ spin[c] = "out"
  /\ Goto(c, "read")
  /\ UNCHANGED <<lock, holders>>

\* The read-only spin ends when the word is seen to be 0.
SpinRead(c) ==
  /\ spin[c] = "read"
  /\ lock = 0
  /\ Goto(c, "cas")
  /\ UNCHANGED <<lock, holders>>

\* A read and a store where the code compares and swaps.
SpinStore(c) ==
  /\ spin[c] = "cas"
  /\ lock' = 1
  /\ holders' = holders \cup {c}
  /\ Goto(c, "out")

\* The compare-and-swap takes the lock, or fails and returns to the spin; being
\* weak it may fail without cause.
SpinCas(c) ==
  /\ spin[c] = "cas"
  /\ \/ /\ lock = 0
        /\ lock' = 1
        /\ holders' = holders \cup {c}
        /\ Goto(c, "out")
     \/ /\ Goto(c, "read")
        /\ UNCHANGED <<lock, holders>>

\* spin_trylock: one compare-and-swap, no spin.
SpinTrylock(c) ==
  /\ spin[c] = "out"
  /\ lock = 0
  /\ lock' = 1
  /\ holders' = holders \cup {c}
  /\ UNCHANGED spin

\* simple_spin_unlock by a core that holds the lock, as its callers do.
SpinUnlock(c) ==
  /\ spin[c] = "out"
  /\ c \in holders
  /\ lock' = 0
  /\ holders' = holders \ {c}
  /\ UNCHANGED spin

SpinStep(c) == SpinRead(c) \/ SpinCas(c)

Next == \E c \in Cores : \/ CallSpinLock(c) \/ SpinStep(c)
                         \/ SpinTrylock(c) \/ SpinUnlock(c)

Spec == Init /\ [][Next]_vars

-----------------------------------------------------------------------------
\* Every variable of the spin lock's model has its type.
TypeOK ==
  /\ lock \in {0, 1}
  /\ spin \in [Cores -> {"out", "read", "cas"}]
  /\ holders \subseteq Cores

\* At most one core holds a spin lock at a time, whatever the order of the
\* cores' reads and swaps.
AtMostOneHolder == \A c, d \in holders : c = d

\* The word is 1 exactly while some core holds the lock: no release is lost
\* and no lock is left behind without a holder.
WordMatchesHolders == lock = 1 <=> holders # {}
=============================================================================
