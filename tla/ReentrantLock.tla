---------------------------- MODULE ReentrantLock ----------------------------
(***************************************************************************)
(* The reentrant lock of cpu/multicore/multicore.c, one step per atomic    *)
(* access to the 32-bit lock word.                                         *)
(*                                                                         *)
(* A context is a flow of control that may call the lock: the kernel code  *)
(* of a core, or an interrupt or exception handler nested on it.  All the  *)
(* contexts of a core share its APIC identifier, which is all the lock     *)
(* knows of its caller.  Here contexts interleave freely and call in any   *)
(* order; module Kprintf adds the nesting discipline of the real callers.  *)
(***************************************************************************)
EXTENDS Naturals

CONSTANTS Contexts,      \* flows of control that call the lock
          CPUs,          \* the cores' APIC identifiers
          CpuOf,         \* the core each context runs on
          MaxRecursion   \* the largest recursion count, 0x7FFF in the code

ASSUME LockAssumption ==
  /\ CPUs \subseteq Nat
  /\ CpuOf \in [Contexts -> CPUs]
  /\ MaxRecursion \in Nat \ {0}

VARIABLES state,      \* the lock word
          pc,         \* where each context is inside the lock's code
          op,         \* the operation a context in reentrant_trylock is part of
          expected,   \* each context's copy of the word, as its last access left it
          depth       \* acquisitions of each core not yet released (history)

vars == <<state, pc, op, expected, depth>>

-----------------------------------------------------------------------------
(* The lock word: bit 31, bits 0-15 and bits 16-30.  A free word is zero,   *)
(* so its owner field names core 0.                                         *)

Words == [locked : BOOLEAN, owner : Nat, recursion : 0..MaxRecursion]

Free == [locked |-> FALSE, owner |-> 0, recursion |-> 0]

\* The word a core writes when it acquires a free lock.
Taken(c) == [locked |-> TRUE, owner |-> c, recursion |-> 1]

\* The test (word & (LOCK_FLAG | OWNER_MASK)) == (LOCK_FLAG | cpu_id).
OwnedBy(word, c) == word.locked /\ word.owner = c

Deeper(word) == [word EXCEPT !.recursion = @ + 1]

\* A release that forgets the recursion count.
ReleasedAtOnce(word) == Free

\* What reentrant_unlock stores: one level less, or the free word.
Released(word) == IF word.recursion > 1
                  THEN [word EXCEPT !.recursion = @ - 1]
                  ELSE Free

-----------------------------------------------------------------------------
Init ==
  /\ state = Free
  /\ pc = [t \in Contexts |-> "out"]
  /\ op = [t \in Contexts |-> "lock"]
  /\ expected = [t \in Contexts |-> Free]
  /\ depth = [c \in CPUs |-> 0]

Goto(t, label) == pc' = [pc EXCEPT ![t] = label]

Load(t) == expected' = [expected EXCEPT ![t] = state]

\* The operation returns, and with it its locals are gone.
Leave(t) == /\ Goto(t, "out")
            /\ op' = [op EXCEPT ![t] = "lock"]
            /\ expected' = [expected EXCEPT ![t] = Free]

\* A plain store where the code compares and swaps.
SwapBlindly(t, desired, newDepth) ==
  /\ state' = desired
  /\ depth' = [depth EXCEPT ![CpuOf[t]] = newDepth]
  /\ Leave(t)

\* A compare-and-swap that succeeds: the word still is what t expected.
\* It ends the operation, and changes the calling core's count by one level.
Swap(t, desired, newDepth) ==
  /\ state = expected[t]
  /\ state' = desired
  /\ depth' = [depth EXCEPT ![CpuOf[t]] = newDepth]
  /\ Leave(t)

\* A compare-and-swap that fails reloads the expected value and goes on at label.
SwapFails(t, label) ==
  /\ state # expected[t]
  /\ Load(t)
  /\ Goto(t, label)
  /\ UNCHANGED <<state, op, depth>>

CallLock(t) ==
  /\ pc[t] = "out"
  /\ Goto(t, "lock_load")
  /\ op' = [op EXCEPT ![t] = "lock"]
  /\ UNCHANGED <<state, expected, depth>>

CallTrylock(t) ==
  /\ pc[t] = "out"
  /\ Goto(t, "try_load")
  /\ op' = [op EXCEPT ![t] = "trylock"]
  /\ UNCHANGED <<state, expected, depth>>

CallUnlock(t) ==
  /\ pc[t] = "out"
  /\ Goto(t, "unlock_load")
  /\ UNCHANGED <<state, op, expected, depth>>

\* reentrant_lock: the first look at the word chooses the fast path.
LockLoad(t) ==
  /\ pc[t] = "lock_load"
  /\ Load(t)
  /\ Goto(t, IF OwnedBy(state, CpuOf[t]) THEN "fast_cas" ELSE "try_load")
  /\ UNCHANGED <<state, op, depth>>

\* reentrant_lock: one turn of the fast path, taken by a core that owns the lock.
FastCas(t) ==
  LET c == CpuOf[t] IN
  /\ pc[t] = "fast_cas"
  /\ \/ /\ expected[t].recursion = MaxRecursion
        /\ Goto(t, "try_load")
        /\ UNCHANGED <<state, op, expected, depth>>
     \/ /\ expected[t].recursion # MaxRecursion
        /\ Swap(t, Deeper(expected[t]), depth[c] + 1)
     \/ /\ expected[t].recursion # MaxRecursion
        /\ SwapFails(t, IF OwnedBy(state, c) THEN "fast_cas" ELSE "try_load")

TryLoad(t) ==
  /\ pc[t] = "try_load"
  /\ Load(t)
  /\ Goto(t, "try_cas")
  /\ UNCHANGED <<state, op, depth>>

\* A trylock that does not ask who holds the lock.
RefusesFullOnly(word, c) == word.locked /\ word.recursion = MaxRecursion

\* The cases in which reentrant_trylock returns false.
Refuses(word, c) ==
  word.locked /\ (word.owner # c \/ word.recursion = MaxRecursion)

\* reentrant_trylock: one turn of its loop.  Inside reentrant_lock a refusal
\* starts the read-only spin.
TryCas(t) ==
  LET c == CpuOf[t]
      desired == IF expected[t].locked THEN Deeper(expected[t]) ELSE Taken(c)
  IN
  /\ pc[t] = "try_cas"
  /\ \/ /\ Refuses(expected[t], c) /\ op[t] = "lock"
        /\ Goto(t, "spin")
        /\ UNCHANGED <<state, op, expected, depth>>
     \/ /\ Refuses(expected[t], c) /\ op[t] = "trylock"
        /\ Leave(t)
        /\ UNCHANGED <<state, depth>>
     \/ /\ ~Refuses(expected[t], c)
        /\ Swap(t, desired, depth[c] + 1)
     \/ /\ ~Refuses(expected[t], c)
        /\ SwapFails(t, "try_cas")

\* reentrant_lock: the read-only spin ends when the lock flag is seen clear.
Spin(t) ==
  /\ pc[t] = "spin"
  /\ ~state.locked
  /\ Goto(t, "try_load")
  /\ UNCHANGED <<state, op, expected, depth>>

UnlockLoad(t) ==
  /\ pc[t] = "unlock_load"
  /\ Load(t)
  /\ Goto(t, "unlock_cas")
  /\ UNCHANGED <<state, op, depth>>

\* An unlock without the sanity check on the owner.
UnlockCasUnchecked(t) ==
  /\ pc[t] = "unlock_cas"
  /\ \/ Swap(t, Released(expected[t]), depth[CpuOf[t]] - 1)
     \/ SwapFails(t, "unlock_cas")

\* reentrant_unlock: one turn of its loop.  A lock the core does not own is
\* left alone.
UnlockCas(t) ==
  LET c == CpuOf[t] IN
  /\ pc[t] = "unlock_cas"
  /\ \/ /\ ~OwnedBy(expected[t], c)
        /\ Leave(t)
        /\ UNCHANGED <<state, depth>>
     \/ /\ OwnedBy(expected[t], c)
        /\ Swap(t, Released(expected[t]), depth[c] - 1)
     \/ /\ OwnedBy(expected[t], c)
        /\ SwapFails(t, "unlock_cas")

\* A step inside the lock's code.
Inside(t) == \/ LockLoad(t) \/ FastCas(t)
             \/ TryLoad(t) \/ TryCas(t) \/ Spin(t)
             \/ UnlockLoad(t) \/ UnlockCas(t)

Call(t) == CallLock(t) \/ CallTrylock(t) \/ CallUnlock(t)

Next == \E t \in Contexts : Inside(t) \/ Call(t)

Spec == Init /\ [][Next]_vars

-----------------------------------------------------------------------------
Labels == {"out", "lock_load", "fast_cas", "try_load", "try_cas", "spin",
           "unlock_load", "unlock_cas"}

\* Every variable of the lock's model has its type.
TypeOK ==
  /\ state \in Words
  /\ pc \in [Contexts -> Labels]
  /\ op \in [Contexts -> {"lock", "trylock"}]
  /\ expected \in [Contexts -> Words]
  /\ depth \in [CPUs -> 0..MaxRecursion]

\* The lock word always tells the truth about who holds the lock and how
\* deeply: a locked word names the one core with unreleased acquisitions and
\* counts them, a free word is zero.
WordCounts ==
  /\ state.locked => state.owner \in CPUs /\ state.recursion > 0
  /\ ~state.locked => state = Free
  /\ \A c \in CPUs :
       depth[c] = IF OwnedBy(state, c) THEN state.recursion ELSE 0

\* A context on the fast path of reentrant_lock increments the recursion
\* field of a word whose owner field is its own core's.
FastPathOwns ==
  \A t \in Contexts : pc[t] = "fast_cas" => OwnedBy(expected[t], CpuOf[t])

\* Mutual exclusion: reentrant_lock never lets two cores hold the lock.
MutualExclusion ==
  \A c, d \in CPUs : c # d => depth[c] = 0 \/ depth[d] = 0

\* A held word is changed only by code running on the owning core, one
\* recursion level at a time, and is never handed to another core directly:
\* an unlock by a core that does not own the lock has no effect.
OnlyOwnerChanges ==
  [][state.locked /\ state' # state =>
       /\ \E t \in Contexts : CpuOf[t] = state.owner /\ pc'[t] # pc[t]
       /\ \/ state' = Free /\ state.recursion = 1
          \/ /\ OwnedBy(state', state.owner)
             /\ \/ state'.recursion = state.recursion + 1
                \/ state'.recursion + 1 = state.recursion]_vars

-----------------------------------------------------------------------------
Mutex == INSTANCE ReentrantMutex

\* The lock implements the abstract reentrant mutex: between the atomic
\* accesses of any number of cores its acquisitions and releases take effect
\* one at a time, each at one compare-and-swap.
ImplementsMutex == Mutex!Spec
=============================================================================
