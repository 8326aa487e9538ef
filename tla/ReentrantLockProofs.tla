------------------------- MODULE ReentrantLockProofs -------------------------
(***************************************************************************)
(* Safety of the reentrant lock for any number of cores and contexts and   *)
(* any recursion limit.                                                    *)
(***************************************************************************)
EXTENDS ReentrantLock, TLAPS

\* The inductive invariant.  Mutual exclusion is not inductive by itself: a
\* compare-and-swap is right only because the word it expects, when it still
\* is the word in memory, tells the truth about the cores' counts.
IInv == TypeOK /\ WordCounts /\ FastPathOwns

\* The words the operations store are lock words, and the recursion field
\* stays within its bits.
LEMMA StoredWords ==
  ASSUME NEW c \in CPUs, NEW w \in Words
  PROVE  /\ Free \in Words
         /\ Taken(c) \in Words
         /\ w.recursion # MaxRecursion => Deeper(w) \in Words
         /\ w.recursion > 0 => Released(w) \in Words
BY LockAssumption DEF Words, Free, Taken, Deeper, Released

\* The lock starts free, with no core inside.
LEMMA InitInv == Init => IInv
BY LockAssumption
   DEF Init, IInv, TypeOK, WordCounts, FastPathOwns, Words, Free, Labels, OwnedBy

\* A load changes only the context's copy of the word.
LEMMA LoadInv ==
  ASSUME IInv, NEW t \in Contexts, NEW label \in Labels,
         Load(t), Goto(t, label), UNCHANGED <<state, op, depth>>,
         label = "fast_cas" => OwnedBy(state, CpuOf[t])
  PROVE  IInv'
<1> USE DEF IInv
<1>1. TypeOK'
  BY DEF TypeOK, Load, Goto
<1>2. WordCounts'
  BY DEF WordCounts, OwnedBy
<1>3. FastPathOwns'
  BY DEF FastPathOwns, TypeOK, Load, Goto, OwnedBy
<1> QED BY <1>1, <1>2, <1>3

\* A step that only moves a context somewhere other than the fast path.
LEMMA MoveInv ==
  ASSUME IInv, NEW t \in Contexts, NEW label \in Labels \ {"fast_cas"},
         Goto(t, label), op' \in [Contexts -> {"lock", "trylock"}],
         UNCHANGED <<state, expected, depth>>
  PROVE  IInv'
<1> USE DEF IInv
<1>1. TypeOK'
  BY DEF TypeOK, Goto
<1>2. WordCounts'
  BY DEF WordCounts, OwnedBy
<1>3. FastPathOwns'
  BY DEF FastPathOwns, TypeOK, Goto, OwnedBy
<1> QED BY <1>1, <1>2, <1>3

\* An operation that returns without having changed the word.
LEMMA LeaveInv ==
  ASSUME IInv, NEW t \in Contexts, Leave(t), UNCHANGED <<state, depth>>
  PROVE  IInv'
<1> USE DEF IInv
<1>1. TypeOK'
  BY LockAssumption DEF TypeOK, Leave, Goto, Labels, Words, Free
<1>2. WordCounts'
  BY DEF WordCounts, OwnedBy
<1>3. FastPathOwns'
  BY DEF FastPathOwns, TypeOK, Leave, Goto, OwnedBy
<1> QED BY <1>1, <1>2, <1>3

\* A successful compare-and-swap that takes the lock one level deeper.
LEMMA AcquireInv ==
  ASSUME IInv, NEW t \in Contexts, NEW desired,
         Swap(t, desired, depth[CpuOf[t]] + 1),
         \/ /\ OwnedBy(state, CpuOf[t])
            /\ state.recursion # MaxRecursion
            /\ desired = Deeper(state)
         \/ ~state.locked /\ desired = Taken(CpuOf[t])
  PROVE  IInv'
<1> DEFINE c == CpuOf[t]
<1> USE DEF IInv
<1>0. c \in CPUs
  BY LockAssumption
<1>1. /\ desired \in Words
      /\ desired.locked /\ desired.owner = c
      /\ desired.recursion = depth[c] + 1
      /\ depth[c] + 1 \in 1..MaxRecursion
      /\ \A d \in CPUs : d # c => depth[d] = 0
  <2>1. state \in Words /\ depth \in [CPUs -> 0..MaxRecursion]
    BY DEF TypeOK
  <2>2. CASE /\ OwnedBy(state, c)
             /\ state.recursion # MaxRecursion
             /\ desired = Deeper(state)
    <3>1. /\ desired \in Words
          /\ desired.locked /\ desired.owner = c
          /\ desired.recursion = state.recursion + 1
          /\ state.recursion + 1 \in 1..MaxRecursion
      BY <2>1, <2>2, LockAssumption DEF Words, OwnedBy, Deeper
    <3> QED BY <1>0, <2>2, <3>1 DEF WordCounts, OwnedBy
  <2>3. CASE ~state.locked /\ desired = Taken(c)
    <3>1. /\ desired \in Words
          /\ desired.locked /\ desired.owner = c
          /\ desired.recursion = 1
          /\ 1 \in 1..MaxRecursion
      <4>1. c \in Nat
        BY <1>0, LockAssumption, Zenon
      <4>3. 1 \in 1..MaxRecursion
        BY LockAssumption, SMT
      <4>2. desired = [locked |-> TRUE, owner |-> c, recursion |-> 1]
        BY <2>3 DEF Taken
      <4> HIDE DEF c
      <4> QED BY <4>1, <4>2, <4>3 DEF Words
    <3>2. \A d \in CPUs : depth[d] = 0
      BY <2>3 DEF WordCounts, OwnedBy
    <3> QED BY <1>0, <3>1, <3>2
  <2> QED BY <2>2, <2>3
<1>2. TypeOK'
  <2>1. Free \in Words
    BY LockAssumption DEF Words, Free
  <2> QED BY <1>0, <1>1, <2>1 DEF TypeOK, Swap, Leave, Goto, Labels
<1>3. WordCounts'
  BY <1>0, <1>1, LockAssumption DEF WordCounts, TypeOK, Swap, OwnedBy
<1>4. FastPathOwns'
  BY DEF FastPathOwns, TypeOK, Swap, Leave, Goto, OwnedBy
<1> QED BY <1>2, <1>3, <1>4

\* A successful compare-and-swap of reentrant_unlock.
LEMMA ReleaseInv ==
  ASSUME IInv, NEW t \in Contexts, OwnedBy(state, CpuOf[t]),
         Swap(t, Released(state), depth[CpuOf[t]] - 1)
  PROVE  IInv'
<1> DEFINE c == CpuOf[t]
<1> USE DEF IInv
<1>0. c \in CPUs
  BY LockAssumption
<1>1. /\ state \in Words /\ state.recursion \in 1..MaxRecursion
      /\ depth[c] = state.recursion
      /\ \A d \in CPUs : d # c => depth[d] = 0
  BY <1>0, LockAssumption DEF WordCounts, TypeOK, Words, OwnedBy
<1>2. Released(state) \in Words /\ Free \in Words
  BY <1>0, <1>1, StoredWords
<1>3. TypeOK'
  BY <1>0, <1>1, <1>2, LockAssumption DEF TypeOK, Swap, Leave, Goto, Labels
<1>4. WordCounts'
  <2>1. CASE state.recursion > 1
    BY <1>0, <1>1, <2>1, LockAssumption
       DEF WordCounts, TypeOK, Swap, OwnedBy, Released, Words
  <2>2. CASE state.recursion = 1
    BY <1>0, <1>1, <2>2, LockAssumption
       DEF WordCounts, TypeOK, Swap, OwnedBy, Released, Free
  <2> QED BY <1>1, <2>1, <2>2
<1>5. FastPathOwns'
  BY DEF FastPathOwns, TypeOK, Swap, Leave, Goto, OwnedBy
<1> QED BY <1>3, <1>4, <1>5

\* Every step of every context preserves the inductive invariant.
LEMMA StepInv == IInv /\ [Next]_vars => IInv'
<1> SUFFICES ASSUME IInv, [Next]_vars PROVE IInv'
  OBVIOUS
<1>1. CASE UNCHANGED vars
  BY <1>1 DEF vars, IInv, TypeOK, WordCounts, FastPathOwns, OwnedBy
<1>2. ASSUME NEW t \in Contexts, Call(t) PROVE IInv'
  <2>1. op' \in [Contexts -> {"lock", "trylock"}]
    BY <1>2 DEF Call, CallLock, CallTrylock, CallUnlock, IInv, TypeOK
  <2> QED BY <1>2, <2>1, MoveInv
          DEF Call, CallLock, CallTrylock, CallUnlock, Labels
<1>3. ASSUME NEW t \in Contexts, LockLoad(t) PROVE IInv'
  BY <1>3, LoadInv DEF LockLoad, Labels
<1>4. ASSUME NEW t \in Contexts, FastCas(t) PROVE IInv'
  <2>1. OwnedBy(expected[t], CpuOf[t])
    BY <1>4 DEF FastCas, IInv, FastPathOwns
  <2>2. CASE /\ Goto(t, "try_load")
             /\ UNCHANGED <<state, op, expected, depth>>
    BY <2>2, MoveInv DEF IInv, TypeOK, Labels
  <2>3. CASE /\ expected[t].recursion # MaxRecursion
             /\ Swap(t, Deeper(expected[t]), depth[CpuOf[t]] + 1)
    BY <2>1, <2>3, AcquireInv DEF Swap
  <2>4. CASE SwapFails(t, IF OwnedBy(state, CpuOf[t]) THEN "fast_cas"
                                                      ELSE "try_load")
    BY <2>4, LoadInv DEF SwapFails, Labels
  <2> QED BY <1>4, <2>2, <2>3, <2>4 DEF FastCas
<1>5. ASSUME NEW t \in Contexts, TryLoad(t) PROVE IInv'
  BY <1>5, LoadInv DEF TryLoad, Labels
<1>6. ASSUME NEW t \in Contexts, TryCas(t) PROVE IInv'
  <2> DEFINE c == CpuOf[t]
             desired == IF expected[t].locked THEN Deeper(expected[t])
                                              ELSE Taken(c)
  <2>1. CASE Goto(t, "spin") /\ UNCHANGED <<state, op, expected, depth>>
    BY <2>1, MoveInv DEF IInv, TypeOK, Labels
  <2>4. CASE Leave(t) /\ UNCHANGED <<state, depth>>
    BY <2>4, LeaveInv
  <2>2. CASE ~Refuses(expected[t], c) /\ Swap(t, desired, depth[c] + 1)
    <3>1. \/ /\ OwnedBy(state, c)
             /\ state.recursion # MaxRecursion
             /\ desired = Deeper(state)
          \/ ~state.locked /\ desired = Taken(c)
      BY <2>2 DEF Refuses, Swap, OwnedBy
    <3> QED BY <2>2, <3>1, AcquireInv
  <2>3. CASE SwapFails(t, "try_cas")
    BY <2>3, LoadInv DEF SwapFails, Labels
  <2> QED BY <1>6, <2>1, <2>2, <2>3, <2>4 DEF TryCas
<1>7. ASSUME NEW t \in Contexts, Spin(t) PROVE IInv'
  BY <1>7, MoveInv DEF Spin, Labels, IInv, TypeOK
<1>8. ASSUME NEW t \in Contexts, UnlockLoad(t) PROVE IInv'
  BY <1>8, LoadInv DEF UnlockLoad, Labels
<1>9. ASSUME NEW t \in Contexts, UnlockCas(t) PROVE IInv'
  <2>1. CASE Leave(t) /\ UNCHANGED <<state, depth>>
    BY <2>1, LeaveInv
  <2>2. CASE /\ OwnedBy(expected[t], CpuOf[t])
             /\ Swap(t, Released(expected[t]), depth[CpuOf[t]] - 1)
    BY <2>2, ReleaseInv DEF Swap
  <2>3. CASE SwapFails(t, "unlock_cas")
    BY <2>3, LoadInv DEF SwapFails, Labels
  <2> QED BY <1>9, <2>1, <2>2, <2>3 DEF UnlockCas
<1> QED
  BY <1>1, <1>2, <1>3, <1>4, <1>5, <1>6, <1>7, <1>8, <1>9 DEF Next, Inside

\* The inductive invariant holds in every reachable state.
THEOREM Invariance == Spec => []IInv
<1>1. Init => IInv
  BY InitInv
<1>2. IInv /\ [Next]_vars => IInv'
  BY StepInv
<1> QED BY <1>1, <1>2, PTL DEF Spec

\* The types of reentrant_lock's word, of the contexts' copies of it and of
\* the cores' counts are preserved; the recursion field never overflows into
\* the flag bit.
THEOREM TypeCorrect == Spec => []TypeOK
<1>1. IInv => TypeOK
  BY DEF IInv
<1> QED BY <1>1, Invariance, PTL

\* The lock word always names the holding core and counts its unreleased
\* acquisitions.
THEOREM WordIsTruthful == Spec => []WordCounts
<1>1. IInv => WordCounts
  BY DEF IInv
<1> QED BY <1>1, Invariance, PTL

\* reentrant_lock and reentrant_trylock never let two cores hold the lock.
THEOREM Exclusion == Spec => []MutualExclusion
<1>1. IInv => MutualExclusion
  BY DEF IInv, WordCounts, MutualExclusion, OwnedBy
<1> QED BY <1>1, Invariance, PTL

\* What a successful compare-and-swap does to a held word: it was made by the
\* owning core and moves the recursion count by one.
LEMMA HeldWordSteps ==
  ASSUME IInv, Next, state.locked, state' # state
  PROVE  /\ \E t \in Contexts : CpuOf[t] = state.owner /\ pc'[t] # pc[t]
         /\ \/ state' = Free /\ state.recursion = 1
            \/ /\ OwnedBy(state', state.owner)
               /\ \/ state'.recursion = state.recursion + 1
                  \/ state'.recursion + 1 = state.recursion
<1> USE DEF IInv
<1>1. PICK t \in Contexts : FastCas(t) \/ TryCas(t) \/ UnlockCas(t)
  BY DEF Next, Inside, Call, CallLock, CallTrylock, CallUnlock, LockLoad,
         TryLoad, Spin, UnlockLoad
<1>2. /\ state = expected[t] /\ OwnedBy(state, CpuOf[t]) /\ Goto(t, "out")
      /\ state' = Deeper(state) \/ state' = Released(state)
  <2>1. CASE FastCas(t)
    BY <2>1 DEF FastCas, FastPathOwns, Swap, SwapFails, Leave
  <2>2. CASE TryCas(t)
    BY <2>2 DEF TryCas, Swap, SwapFails, Leave, Refuses, OwnedBy
  <2>3. CASE UnlockCas(t)
    BY <2>3 DEF UnlockCas, Swap, SwapFails, Leave
  <2> QED BY <1>1, <2>1, <2>2, <2>3
<1>3. pc'[t] # pc[t]
  BY <1>1, <1>2 DEF Goto, TypeOK, FastCas, TryCas, UnlockCas
<1>4. state \in Words /\ state.recursion > 0
  BY DEF TypeOK, WordCounts
<1>5. \/ state' = Free /\ state.recursion = 1
      \/ /\ OwnedBy(state', state.owner)
         /\ \/ state'.recursion = state.recursion + 1
            \/ state'.recursion + 1 = state.recursion
  BY <1>2, <1>4, LockAssumption DEF Deeper, Released, OwnedBy, Words
<1> QED BY <1>2, <1>3, <1>5 DEF OwnedBy

\* No core can change a lock that another core holds, in particular by a
\* reentrant_unlock of a lock it does not own.
THEOREM HeldLockIsOwners == Spec => OnlyOwnerChanges
<1>1. IInv /\ [Next]_vars =>
        [state.locked /\ state' # state =>
           /\ \E t \in Contexts : CpuOf[t] = state.owner /\ pc'[t] # pc[t]
           /\ \/ state' = Free /\ state.recursion = 1
              \/ /\ OwnedBy(state', state.owner)
                 /\ \/ state'.recursion = state.recursion + 1
                    \/ state'.recursion + 1 = state.recursion]_vars
  BY HeldWordSteps DEF vars
<1> QED BY <1>1, Invariance, PTL DEF Spec, OnlyOwnerChanges

\* Every step of the lock is an acquisition or release of the abstract
\* reentrant mutex, or does not touch it.
LEMMA MutexStep == IInv /\ [Next]_vars => [Mutex!Next]_depth
<1> SUFFICES ASSUME IInv, Next, depth' # depth PROVE Mutex!Next
  BY DEF vars
<1> USE DEF IInv
<1>1. PICK t \in Contexts : FastCas(t) \/ TryCas(t) \/ UnlockCas(t)
  BY DEF Next, Inside, Call, CallLock, CallTrylock, CallUnlock, LockLoad,
         TryLoad, Spin, UnlockLoad
<1> DEFINE c == CpuOf[t]
<1>2. c \in CPUs
  BY LockAssumption
<1>3. CASE /\ depth' = [depth EXCEPT ![c] = depth[c] + 1]
           /\ ~state.locked \/ (OwnedBy(state, c) /\ state.recursion # MaxRecursion)
  <2>1. /\ \A d \in CPUs \ {c} : depth[d] = 0
        /\ depth[c] < MaxRecursion
    <3>1. state.recursion \in 0..MaxRecursion /\ MaxRecursion \in Nat \ {0}
      BY LockAssumption DEF TypeOK, Words
    <3>2. \A d \in CPUs : depth[d] = IF OwnedBy(state, d) THEN state.recursion ELSE 0
      BY DEF WordCounts
    <3> HIDE DEF c
    <3> QED BY <1>2, <1>3, <3>1, <3>2 DEF OwnedBy
  <2> QED BY <1>2, <1>3, <2>1 DEF Mutex!Next, Mutex!Acquire
<1>4. CASE depth' = [depth EXCEPT ![c] = depth[c] - 1] /\ OwnedBy(state, c)
  <2>1. depth[c] > 0
    BY <1>2, <1>4 DEF WordCounts, OwnedBy
  <2> QED BY <1>2, <1>4, <2>1 DEF Mutex!Next, Mutex!Release
<1>5. CASE FastCas(t)
  BY <1>3, <1>5 DEF FastCas, FastPathOwns, Swap, SwapFails
<1>6. CASE TryCas(t)
  <2>1. /\ ~Refuses(expected[t], c) /\ state = expected[t]
        /\ depth' = [depth EXCEPT ![c] = depth[c] + 1]
    BY <1>6 DEF TryCas, Swap, SwapFails
  <2>2. ~state.locked \/ (OwnedBy(state, c) /\ state.recursion # MaxRecursion)
    BY <2>1 DEF Refuses, OwnedBy
  <2> QED BY <1>3, <2>1, <2>2
<1>7. CASE UnlockCas(t)
  BY <1>4, <1>7 DEF UnlockCas, Swap, SwapFails
<1> QED BY <1>1, <1>5, <1>6, <1>7

\* The compare-and-swap lock implements the abstract reentrant mutex.
THEOREM Refinement == Spec => ImplementsMutex
<1>1. Init => Mutex!Init
  BY DEF Init, Mutex!Init
<1>2. IInv /\ [Next]_vars => [Mutex!Next]_depth
  BY MutexStep
<1> QED BY <1>1, <1>2, Invariance, PTL DEF Spec, ImplementsMutex, Mutex!Spec
=============================================================================
