---------------------------- MODULE KprintfProofs ----------------------------
(***************************************************************************)
(* Printing from kernel code, interrupt handlers, exception handlers and   *)
(* assertions of any number of cores, nested to any depth: the texts of    *)
(* two cores never mix and the interrupt flag is kept.  The terminal they  *)
(* print on and the text they print come last.                             *)
(*                                                                         *)
(* kprintf uses the lock only through its functions, so what               *)
(* ReentrantLockProofs proves of the lock holds here.  What kprintf adds   *)
(* is that a core's count of acquisitions is the number of its activations *)
(* that are past the lock and not past the unlock.                         *)
(***************************************************************************)
EXTENDS Kprintf, Terminal, Printf, FiniteSetTheorems, SequenceTheorems,
        WellFoundedInduction, TLAPS

LockProofs == INSTANCE ReentrantLockProofs
                WITH CpuOf <- [t \in Contexts |-> t[1]]

-----------------------------------------------------------------------------
(* The inductive invariant                                                  *)

\* Phases outside irq_save .. irq_restore, the ones inside, and those in which
\* the activation holds the lock.
Calm == {"entry", "ret"}
Busy == {"locking", "body", "unlocking", "restore"}
Held == {"body", "unlocking"}

Vias == {"call", "irq", "abort", "bound"} \cup Faults

Frames == [via : Vias, phase : Calm \cup Busy,
           flags : BOOLEAN, bad : BOOLEAN, left : Int]

\* The types of the variables that are not the lock's.
Types ==
  /\ frames \in [CPUs -> Seq(Frames)]
  /\ \A c \in CPUs : Level(c) <= MaxNest
  /\ intr \in [CPUs -> BOOLEAN] /\ home \in [CPUs -> BOOLEAN]
  /\ stopped \in [CPUs -> BOOLEAN] /\ entries \in [CPUs -> Nat]

Phase(c, i) == frames[c][i].phase

\* The activations of a core that hold the lock.
Holding(c) == {i \in 1..Level(c) : Phase(c, i) \in Held}

Locks == {"lock_load", "fast_cas", "try_load", "try_cas", "spin"}
Unlocks == {"unlock_load", "unlock_cas"}

\* Only the topmost activation of a core is inside the lock's code, in the
\* function its phase names; it never calls trylock; and a core that unlocks
\* has seen itself own the lock.
InLock ==
  /\ \A t \in Contexts :
       LET c == t[1]
           top == t[2] = Level(c)
       IN /\ op[t] = "lock"
          /\ pc[t] \in Locks <=> top /\ Phase(c, t[2]) = "locking"
          /\ pc[t] \in Unlocks <=> top /\ Phase(c, t[2]) = "unlocking"
          /\ pc[t] = "unlock_cas" => Lock!OwnedBy(expected[t], c)

\* The lock's count of a core is the number of its activations that hold it.
Counted == \A c \in CPUs : depth[c] = Cardinality(Holding(c))

\* An activation that is not the topmost waits before irq_save, after
\* irq_restore or in its body.  Below one that an interrupt started, or that
\* found interrupts on, no activation is between irq_save and irq_restore.
Nested ==
  \A c \in CPUs : \A i \in 1..Level(c) :
    LET f == frames[c][i]
    IN /\ i < Level(c) => f.phase \in Calm \cup {"body"}
       /\ f.via = "call" => i = 1
       /\ f.via = "irq" \/ (f.flags /\ f.phase \in Busy) =>
            \A j \in 1..i - 1 : Phase(c, j) \in Calm

\* Where the interrupt flag can be set: in a core whose kernel code runs with
\* it set, and outside irq_save .. irq_restore of all its activations.
Flagged ==
  \A c \in CPUs :
    /\ intr[c] => home[c] /\ \A i \in 1..Level(c) : Phase(c, i) \in Calm
    /\ \A i \in 1..Level(c) : frames[c][i].via = "irq" \/ frames[c][i].flags => home[c]
    /\ frames[c] = <<>> /\ ~stopped[c] => intr[c] = home[c]
    /\ frames[c] # <<>> /\ frames[c][1].via = "call" =>
         /\ Phase(c, 1) \in Busy => frames[c][1].flags = home[c]
         /\ Level(c) = 1 /\ Phase(c, 1) \in Calm => intr[c] = home[c]

KInv == Types /\ InLock /\ Counted /\ Nested /\ Flagged

IInv == LockProofs!IInv /\ KInv

-----------------------------------------------------------------------------
(* Frames                                                                   *)

\* The lock's assumption holds of the contexts of kprintf.
LEMMA LockAssumed ==
  /\ CPUs \subseteq Nat
  /\ [t \in Contexts |-> t[1]] \in [Contexts -> CPUs]
  /\ MaxRecursion \in Nat \ {0}
BY KprintfAssumption DEF Contexts

\* What is known of the topmost activation of a core that has one.
LEMMA TopFrame ==
  ASSUME Types, NEW c \in CPUs, frames[c] # <<>>
  PROVE  /\ Level(c) \in 1..MaxNest /\ Top(c) \in Frames
         /\ Context(c) \in Contexts
<1>1. frames[c] \in Seq(Frames) /\ Level(c) <= MaxNest
  BY DEF Types
<1>2. Level(c) \in 1..MaxNest /\ Top(c) \in Frames
  BY <1>1, KprintfAssumption DEF Level, Top
<1> QED BY <1>2 DEF Context, Contexts

\* SetTop replaces one activation and keeps the others.
LEMMA SetTopFrames ==
  ASSUME Types, NEW c \in CPUs, frames[c] # <<>>, NEW f \in Frames, SetTop(c, f)
  PROVE  /\ frames' \in [CPUs -> Seq(Frames)]
         /\ \A d \in CPUs : Level(d)' = Level(d)
         /\ \A d \in CPUs : \A i \in 1..Level(d) :
              frames'[d][i] = IF d = c /\ i = Level(c) THEN f ELSE frames[d][i]
<1>1. frames \in [CPUs -> Seq(Frames)]
  BY DEF Types
<1>2. Level(c) \in 1..Len(frames[c])
  BY <1>1 DEF Level
<1>3. frames' = [frames EXCEPT ![c] = [frames[c] EXCEPT ![Level(c)] = f]]
  BY DEF SetTop
<1>4. /\ [frames[c] EXCEPT ![Level(c)] = f] \in Seq(Frames)
      /\ Len([frames[c] EXCEPT ![Level(c)] = f]) = Len(frames[c])
      /\ \A i \in 1..Level(c) : [frames[c] EXCEPT ![Level(c)] = f][i]
                                = IF i = Level(c) THEN f ELSE frames[c][i]
  BY <1>1, <1>2 DEF Level
<1> QED BY <1>1, <1>3, <1>4 DEF Level

\* The lock's own invariant is inductive here too.
LEMMA LockInvStep == LockProofs!IInv /\ [LockProofs!Next]_(LockProofs!vars) => LockProofs!IInv'
BY LockProofs!StepInv, LockAssumed

-----------------------------------------------------------------------------
(* The lock                                                                 *)

\* Every step of this specification is a step of the lock or leaves it alone.
LEMMA LockUsed ==
  Types /\ [Next]_vars => [LockProofs!Next]_(LockProofs!vars)
<1> SUFFICES ASSUME Types, [Next]_vars PROVE [LockProofs!Next]_(LockProofs!vars)
  OBVIOUS
<1>1. CASE UNCHANGED vars
  BY <1>1 DEF vars, lockVars, LockProofs!vars
<1>2. ASSUME NEW c \in CPUs, IrqSave(c) PROVE LockProofs!Next
  BY <1>2, TopFrame DEF IrqSave, Running, Lock!CallLock, Lock!Goto,
     LockProofs!Next, LockProofs!Call, LockProofs!CallLock, LockProofs!Goto
<1>3. ASSUME NEW c \in CPUs, PrintDone(c) PROVE LockProofs!Next
  BY <1>3, TopFrame DEF PrintDone, Running, Lock!CallUnlock, Lock!Goto,
     LockProofs!Next, LockProofs!Call, LockProofs!CallUnlock, LockProofs!Goto
<1>4. ASSUME NEW c \in CPUs, Locking(c) \/ Unlocking(c) PROVE LockProofs!Next
  <2>1. Context(c) \in Contexts /\ Lock!Inside(Context(c))
    BY <1>4, TopFrame DEF Locking, Unlocking, LockStep, Running
  <2>2. LockProofs!Inside(Context(c))
    BY <2>1 DEF Lock!Inside, Lock!LockLoad, Lock!FastCas, Lock!TryLoad, Lock!TryCas,
       Lock!Spin, Lock!UnlockLoad, Lock!UnlockCas, Lock!Load, Lock!Goto, Lock!Leave,
       Lock!Swap, Lock!SwapFails, Lock!OwnedBy, Lock!Deeper, Lock!Taken, Lock!Refuses,
       Lock!Released, Lock!Free,
       LockProofs!Inside, LockProofs!LockLoad, LockProofs!FastCas, LockProofs!TryLoad,
       LockProofs!TryCas, LockProofs!Spin, LockProofs!UnlockLoad, LockProofs!UnlockCas,
       LockProofs!Load, LockProofs!Goto, LockProofs!Leave, LockProofs!Swap,
       LockProofs!SwapFails, LockProofs!OwnedBy, LockProofs!Deeper, LockProofs!Taken,
       LockProofs!Refuses, LockProofs!Released, LockProofs!Free
  <2> QED BY <2>1, <2>2 DEF LockProofs!Next
<1>5. ASSUME NEW c \in CPUs,
             \/ IrqRestore(c) \/ BadFormat(c) \/ NextMessage(c) \/ IretFaults(c)
             \/ Stop(c) \/ Return(c) \/ Enter(c)
      PROVE  UNCHANGED LockProofs!vars
  BY <1>5 DEF IrqRestore, BadFormat, NextMessage, IretFaults, Stop, Return, Enter,
     KernelPrints, InterruptPrints, FaultPrints, BoundFault, AssertPrints, Push, lockVars, LockProofs!vars
<1> QED BY <1>1, <1>2, <1>3, <1>4, <1>5 DEF Next, Proceed

\* What a step inside the lock's code does to the counts, for a context that
\* called reentrant_lock or reentrant_unlock.
LEMMA InsideStep ==
  ASSUME LockProofs!IInv, NEW t \in Contexts, Lock!Inside(t), op[t] = "lock"
  PROVE  /\ \A u \in Contexts : op[u] = "lock" => op'[u] = "lock"
         /\ \A u \in Contexts : u # t => pc'[u] = pc[u] /\ expected'[u] = expected[u]
         /\ \/ pc[t] \in Locks /\ pc'[t] \in Locks /\ depth' = depth
            \/ /\ pc[t] \in Locks /\ pc'[t] = "out"
               /\ depth' = [depth EXCEPT ![t[1]] = depth[t[1]] + 1]
            \/ /\ pc[t] \in Unlocks /\ pc'[t] \in Unlocks /\ depth' = depth
               /\ expected'[t] = state
            \/ pc[t] = "unlock_cas" /\ ~Lock!OwnedBy(expected[t], t[1])
            \/ /\ pc[t] \in Unlocks /\ pc'[t] = "out"
               /\ depth' = [depth EXCEPT ![t[1]] = depth[t[1]] - 1]
<1> USE DEF Locks, Unlocks, Lock!Goto, Lock!Load, Lock!Leave, Lock!Swap, Lock!SwapFails
<1>1. /\ pc \in [Contexts -> LockProofs!Labels]
      /\ op \in [Contexts -> {"lock", "trylock"}]
      /\ expected \in [Contexts -> LockProofs!Words]
  BY DEF LockProofs!IInv, LockProofs!TypeOK
<1>2. CASE Lock!LockLoad(t)
  BY <1>1, <1>2 DEF Lock!LockLoad
<1>3. CASE Lock!FastCas(t)
  BY <1>1, <1>3 DEF Lock!FastCas
<1>4. CASE Lock!TryLoad(t)
  BY <1>1, <1>4 DEF Lock!TryLoad
<1>5. CASE Lock!TryCas(t)
  BY <1>1, <1>5 DEF Lock!TryCas
<1>6. CASE Lock!Spin(t)
  BY <1>1, <1>6 DEF Lock!Spin
<1>7. CASE Lock!UnlockLoad(t)
  BY <1>1, <1>7 DEF Lock!UnlockLoad
<1>8. CASE Lock!UnlockCas(t)
  BY <1>1, <1>8 DEF Lock!UnlockCas
<1> QED BY <1>2, <1>3, <1>4, <1>5, <1>6, <1>7, <1>8 DEF Lock!Inside

-----------------------------------------------------------------------------
(* Changing the topmost activation                                          *)

\* The activations that hold the lock, when the topmost one takes it, keeps it
\* or gives it up.
LEMMA HoldingSteps ==
  ASSUME Types, NEW c \in CPUs, frames[c] # <<>>, NEW f \in Frames, SetTop(c, f)
  PROVE  /\ \A d \in CPUs \ {c} : Holding(d)' = Holding(d)
         /\ (f.phase \in Held <=> Top(c).phase \in Held) => Holding(c)' = Holding(c)
         /\ f.phase \in Held /\ Top(c).phase \notin Held =>
              Cardinality(Holding(c))' = Cardinality(Holding(c)) + 1
         /\ f.phase \notin Held /\ Top(c).phase \in Held =>
              Cardinality(Holding(c))' = Cardinality(Holding(c)) - 1
<1>1. /\ \A d \in CPUs : Level(d)' = Level(d)
      /\ \A d \in CPUs : \A i \in 1..Level(d) :
           Phase(d, i)' = IF d = c /\ i = Level(c) THEN f.phase ELSE Phase(d, i)
  BY SetTopFrames DEF Phase
<1>2. Level(c) \in 1..Level(c) /\ Phase(c, Level(c)) = Top(c).phase
  BY TopFrame DEF Phase, Top
<1>3. IsFiniteSet(Holding(c)) /\ Cardinality(Holding(c)) \in Nat
  <2>1. 1 \in Int /\ Level(c) \in Int
    BY TopFrame, KprintfAssumption
  <2>2. IsFiniteSet(1..Level(c))
    BY <2>1, FS_Interval
  <2> QED BY <2>2, FS_Subset, FS_CardinalityType DEF Holding
<1>4. ASSUME NEW d \in CPUs \ {c} PROVE Holding(d)' = Holding(d)
  BY <1>1 DEF Holding
<1>5. ASSUME f.phase \in Held <=> Top(c).phase \in Held PROVE Holding(c)' = Holding(c)
  BY <1>1, <1>2, <1>5 DEF Holding
<1>6. ASSUME f.phase \in Held, Top(c).phase \notin Held
      PROVE  Cardinality(Holding(c))' = Cardinality(Holding(c)) + 1
  <2>1. Holding(c)' = Holding(c) \cup {Level(c)} /\ Level(c) \notin Holding(c)
    BY <1>1, <1>2, <1>6 DEF Holding
  <2>2. Cardinality(Holding(c) \cup {Level(c)}) = Cardinality(Holding(c)) + 1
    BY <1>3, <2>1, FS_AddElement
  <2> QED BY <2>1, <2>2
<1>7. ASSUME f.phase \notin Held, Top(c).phase \in Held
      PROVE  Cardinality(Holding(c))' = Cardinality(Holding(c)) - 1
  <2>1. Holding(c)' = Holding(c) \ {Level(c)} /\ Level(c) \in Holding(c)
    BY <1>1, <1>2, <1>7 DEF Holding
  <2>2. Cardinality(Holding(c) \ {Level(c)}) = Cardinality(Holding(c)) - 1
    BY <1>3, <2>1, FS_RemoveElement
  <2> QED BY <2>1, <2>2
<1> QED BY <1>4, <1>5, <1>6, <1>7

\* A core with an activation that holds the lock owns the lock's word.
LEMMA HolderOwns ==
  ASSUME LockProofs!IInv, Types, Counted, NEW c \in CPUs, NEW i \in 1..Level(c),
         Phase(c, i) \in Held
  PROVE  depth[c] > 0 /\ Lock!OwnedBy(state, c)
<1>1. IsFiniteSet(Holding(c)) /\ i \in Holding(c)
  <2>1. 1 \in Int /\ Level(c) \in Int
    BY DEF Types, Level
  <2>2. IsFiniteSet(1..Level(c))
    BY <2>1, FS_Interval
  <2> QED BY <2>2, FS_Subset DEF Holding
<1>2. Cardinality(Holding(c)) \in Nat /\ Cardinality(Holding(c)) # 0
  BY <1>1, FS_CardinalityType, FS_EmptySet
<1>3. depth[c] > 0
  BY <1>2 DEF Counted
<1> QED BY <1>3 DEF LockProofs!IInv, LockProofs!WordCounts, LockProofs!OwnedBy, Lock!OwnedBy

\* A step that leaves the lock alone and moves the topmost activation between
\* phases outside the lock.
LEMMA OutsideInv ==
  ASSUME Types, InLock, Counted, NEW c \in CPUs, frames[c] # <<>>,
         NEW f \in Frames, SetTop(c, f), UNCHANGED lockVars,
         Top(c).phase \in Calm \cup {"restore"}, f.phase \in Calm \cup {"restore"}
  PROVE  InLock' /\ Counted'
<1>1. /\ \A d \in CPUs : Level(d)' = Level(d)
      /\ \A d \in CPUs : \A i \in 1..Level(d) :
           Phase(d, i)' = IF d = c /\ i = Level(c) THEN f.phase ELSE Phase(d, i)
  BY SetTopFrames DEF Phase
<1>2. Level(c) \in 1..Level(c) /\ Phase(c, Level(c)) = Top(c).phase
  BY TopFrame DEF Phase, Top
<1>3. InLock'
  BY <1>1, <1>2 DEF InLock, Calm, Lock!OwnedBy, lockVars, Contexts, Types, Level
<1>4. Counted'
  BY HoldingSteps DEF Counted, Calm, Held, lockVars
<1> QED BY <1>3, <1>4

\* A step inside the lock's code, or a call of it, by the topmost activation.
LEMMA LockMove ==
  ASSUME Types, InLock, NEW c \in CPUs, frames[c] # <<>>, NEW f \in Frames, SetTop(c, f),
         \A u \in Contexts : op'[u] = "lock",
         \A u \in Contexts : u # Context(c) => pc'[u] = pc[u] /\ expected'[u] = expected[u],
         pc'[Context(c)] \in Locks <=> f.phase = "locking",
         pc'[Context(c)] \in Unlocks <=> f.phase = "unlocking",
         pc'[Context(c)] = "unlock_cas" => Lock!OwnedBy(expected'[Context(c)], c)
  PROVE  InLock'
<1>1. /\ \A d \in CPUs : Level(d)' = Level(d)
      /\ \A d \in CPUs : \A i \in 1..Level(d) :
           Phase(d, i)' = IF d = c /\ i = Level(c) THEN f.phase ELSE Phase(d, i)
  BY SetTopFrames DEF Phase
<1>2. Level(c) \in 1..Level(c)
  BY TopFrame
<1> SUFFICES ASSUME NEW t \in Contexts
             PROVE  /\ op'[t] = "lock"
                    /\ pc'[t] \in Locks <=> t[2] = Level(t[1])' /\ Phase(t[1], t[2])' = "locking"
                    /\ pc'[t] \in Unlocks <=> t[2] = Level(t[1])' /\ Phase(t[1], t[2])' = "unlocking"
                    /\ pc'[t] = "unlock_cas" => Lock!OwnedBy(expected'[t], t[1])
  BY DEF InLock, Lock!OwnedBy
<1>3. t[1] \in CPUs /\ t[2] \in 1..MaxNest /\ t = <<t[1], t[2]>>
  BY DEF Contexts
<1>4. CASE t = Context(c)
  <2>1. t[1] = c /\ t[2] = Level(c)
    BY <1>4 DEF Context
  <2> QED BY <1>1, <1>2, <1>3, <1>4, <2>1
<1>5. CASE t # Context(c)
  <2>1. ~(t[1] = c /\ t[2] = Level(c))
    BY <1>3, <1>5 DEF Context
  <2>2. t[2] = Level(t[1]) => Phase(t[1], t[2])' = Phase(t[1], t[2])
    <3>1. t[2] = Level(t[1]) => t[2] \in 1..Level(t[1])
      BY <1>3
    <3> QED BY <1>1, <1>3, <2>1, <3>1
  <2> QED BY <1>1, <1>3, <1>5, <2>2 DEF InLock
<1> QED BY <1>4, <1>5

-----------------------------------------------------------------------------
(* The steps of a core inside kprintf                                       *)

\* What SetTop with a new phase, flags or way of entry means for the parts of
\* the invariant that are not about the lock.
LEMMA TopInv ==
  ASSUME Types, Nested, Flagged, NEW c \in CPUs, frames[c] # <<>>,
         NEW f \in Frames, SetTop(c, f), intr' \in [CPUs -> BOOLEAN],
         \A d \in CPUs \ {c} : intr'[d] = intr[d],
         UNCHANGED <<home, stopped, entries>>,
         f.via = Top(c).via \/ f.via \notin {"call", "irq"},
         f.flags /\ f.phase \in Busy => \A j \in 1..Level(c) - 1 : Phase(c, j) \in Calm,
         intr'[c] => f.phase \in Calm /\ home[c] /\ \A j \in 1..Level(c) - 1 : Phase(c, j) \in Calm,
         f.flags => home[c],
         Level(c) = 1 /\ f.via = "call" =>
           /\ f.phase \in Busy => f.flags = home[c]
           /\ f.phase \in Calm => intr'[c] = home[c]
  PROVE  Types' /\ Nested' /\ Flagged'
<1>1. /\ frames' \in [CPUs -> Seq(Frames)]
      /\ \A d \in CPUs : Level(d)' = Level(d)
      /\ \A d \in CPUs : \A i \in 1..Level(d) :
           frames'[d][i] = IF d = c /\ i = Level(c) THEN f ELSE frames[d][i]
  BY SetTopFrames
<1>2. /\ Level(c) \in 1..Level(c) /\ Level(c) \in Nat \ {0}
      /\ Top(c) = frames[c][Level(c)]
  BY TopFrame, KprintfAssumption DEF Top
<1>3. \A d \in CPUs : Level(d) \in Nat /\ (frames[d] = <<>> <=> Level(d) = 0)
  BY DEF Types, Level
<1>4. \A d \in CPUs : frames'[d] = <<>> <=> Level(d) = 0
  BY <1>1 DEF Level
<1>5. Types'
  BY <1>1 DEF Types
<1>6. Nested'
  <2> SUFFICES ASSUME NEW d \in CPUs, NEW i \in 1..Level(d)
               PROVE  LET g == frames'[d][i]
                      IN /\ i < Level(d) => g.phase \in Calm \cup {"body"}
                         /\ g.via = "call" => i = 1
                         /\ g.via = "irq" \/ (g.flags /\ g.phase \in Busy) =>
                              \A j \in 1..i - 1 : Phase(d, j)' \in Calm
    BY <1>1 DEF Nested
  <2>1. \A j \in 1..i - 1 : j \in 1..Level(d) /\ Phase(d, j)' = Phase(d, j)
    BY <1>1, <1>3 DEF Phase
  <2>2. /\ i < Level(d) => frames[d][i].phase \in Calm \cup {"body"}
        /\ frames[d][i].via = "call" => i = 1
        /\ frames[d][i].via = "irq" \/ (frames[d][i].flags /\ frames[d][i].phase \in Busy) =>
             \A j \in 1..i - 1 : Phase(d, j) \in Calm
    BY DEF Nested
  <2>3. CASE d = c /\ i = Level(c)
    <3>1. frames'[d][i] = f /\ frames[d][i] = Top(c) /\ ~(i < Level(d))
      BY <1>1, <1>2, <2>3
    <3> QED BY <2>1, <2>2, <2>3, <3>1
  <2>4. CASE ~(d = c /\ i = Level(c))
    <3>1. frames'[d][i] = frames[d][i]
      BY <1>1, <2>4
    <3> QED BY <2>1, <2>2, <3>1
  <2> QED BY <2>3, <2>4
<1>7. Flagged'
  <2> SUFFICES ASSUME NEW d \in CPUs
               PROVE  /\ intr'[d] => home[d] /\ \A i \in 1..Level(d) : Phase(d, i)' \in Calm
                      /\ \A i \in 1..Level(d) :
                           frames'[d][i].via = "irq" \/ frames'[d][i].flags => home[d]
                      /\ Level(d) = 0 /\ ~stopped[d] => intr'[d] = home[d]
                      /\ Level(d) # 0 /\ frames'[d][1].via = "call" =>
                           /\ Phase(d, 1)' \in Busy => frames'[d][1].flags = home[d]
                           /\ Level(d) = 1 /\ Phase(d, 1)' \in Calm => intr'[d] = home[d]
    <3>1. home' = home /\ stopped' = stopped
      OBVIOUS
    <3> QED BY <1>1, <1>4, <3>1 DEF Flagged, Phase
  <2>1. /\ intr[d] => home[d] /\ \A i \in 1..Level(d) : frames[d][i].phase \in Calm
        /\ \A i \in 1..Level(d) :
             frames[d][i].via = "irq" \/ frames[d][i].flags => home[d]
        /\ Level(d) = 0 /\ ~stopped[d] => intr[d] = home[d]
        /\ Level(d) # 0 /\ frames[d][1].via = "call" =>
             /\ frames[d][1].phase \in Busy => frames[d][1].flags = home[d]
             /\ Level(d) = 1 /\ frames[d][1].phase \in Calm => intr[d] = home[d]
    <3>1. frames[d] = <<>> <=> Level(d) = 0
      BY <1>3
    <3> QED BY <3>1 DEF Flagged, Phase
  <2>2. Level(d) # 0 => 1 \in 1..Level(d)
    BY <1>3
  <2>3. CASE d # c
    <3>1. /\ \A i \in 1..Level(d) : frames'[d][i] = frames[d][i]
          /\ intr'[d] = intr[d]
      BY <1>1, <2>3
    <3> QED BY <2>1, <2>2, <3>1 DEF Phase
  <2>4. CASE d = c
    <3>1. \A i \in 1..Level(c) : i = Level(c) \/ i \in 1..Level(c) - 1
      BY <1>2
    <3>2. /\ \A i \in 1..Level(c) - 1 : i \in 1..Level(c) /\ frames'[c][i] = frames[c][i]
          /\ frames'[c][Level(c)] = f /\ Level(c) # 0
      BY <1>1, <1>2
    <3>3. intr'[c] => home[c] /\ \A i \in 1..Level(c) : Phase(c, i)' \in Calm
      BY <3>1, <3>2 DEF Phase
    <3>4. \A i \in 1..Level(c) : frames'[c][i].via = "irq" \/ frames'[c][i].flags => home[c]
      <4> SUFFICES ASSUME NEW i \in 1..Level(c)
                   PROVE  frames'[c][i].via = "irq" \/ frames'[c][i].flags => home[c]
        OBVIOUS
      <4>1. CASE i = Level(c)
        BY <1>2, <2>1, <2>4, <3>2, <4>1
      <4>2. CASE i \in 1..Level(c) - 1
        BY <2>1, <2>4, <3>2, <4>2
      <4> QED BY <3>1, <4>1, <4>2
    <3>5. CASE Level(c) = 1
      BY <2>4, <3>2, <3>3, <3>4, <3>5 DEF Phase
    <3>6. CASE Level(c) # 1
      <4>1. frames'[c][1] = frames[c][1] /\ frames[c][1].phase = Phase(c, 1)'
        BY <1>2, <3>2, <3>6 DEF Phase
      <4> QED BY <2>1, <2>4, <3>2, <3>3, <3>4, <3>6, <4>1
    <3> QED BY <3>5, <3>6
  <2> QED BY <2>3, <2>4
<1> QED BY <1>5, <1>6, <1>7


\* What the invariant says of the topmost activation.
LEMMA TopKnown ==
  ASSUME Types, Nested, Flagged, NEW c \in CPUs, frames[c] # <<>>
  PROVE  /\ Level(c) \in 1..Level(c) /\ Top(c) \in Frames
         /\ Top(c).via = "irq" \/ (Top(c).flags /\ Top(c).phase \in Busy) =>
              \A j \in 1..Level(c) - 1 : Phase(c, j) \in Calm
         /\ intr[c] => /\ home[c] /\ Top(c).phase \in Calm
                       /\ \A j \in 1..Level(c) - 1 : Phase(c, j) \in Calm
         /\ Top(c).via = "irq" \/ Top(c).flags => home[c]
         /\ Top(c).via = "call" =>
              /\ Level(c) = 1
              /\ Top(c).phase \in Busy => Top(c).flags = home[c]
              /\ Top(c).phase \in Calm => intr[c] = home[c]
<1>1. Level(c) \in 1..Level(c) /\ Top(c) \in Frames /\ Level(c) \in Nat
  BY TopFrame, KprintfAssumption
<1>2. Top(c) = frames[c][Level(c)] /\ Top(c).phase = Phase(c, Level(c))
  BY DEF Top, Phase
<1>3. Top(c).via = "irq" \/ (Top(c).flags /\ Top(c).phase \in Busy) =>
        \A j \in 1..Level(c) - 1 : Phase(c, j) \in Calm
  BY <1>1, <1>2 DEF Nested
<1>4. \A j \in 1..Level(c) - 1 : j \in 1..Level(c)
  BY <1>1
<1>5. intr[c] => /\ home[c] /\ Top(c).phase \in Calm
                 /\ \A j \in 1..Level(c) - 1 : Phase(c, j) \in Calm
  BY <1>1, <1>2, <1>4 DEF Flagged
<1>6. Top(c).via = "irq" \/ Top(c).flags => home[c]
  BY <1>1, <1>2 DEF Flagged
<1>7. ASSUME Top(c).via = "call"
      PROVE  /\ Level(c) = 1
             /\ Top(c).phase \in Busy => Top(c).flags = home[c]
             /\ Top(c).phase \in Calm => intr[c] = home[c]
  <2>1. Level(c) = 1
    BY <1>1, <1>2, <1>7 DEF Nested
  <2>2. Top(c) = frames[c][1] /\ Top(c).phase = Phase(c, 1)
    BY <1>2, <2>1
  <2> QED BY <1>7, <2>1, <2>2 DEF Flagged
<1> QED BY <1>1, <1>3, <1>5, <1>6, <1>7

\* Every entry has a number of messages, and the exception of an iret is one.
LEMMA MessageCounts ==
  /\ \A via \in Vias : Messages(via) \in Int
  /\ \A via \in {"df", "gp", "again"} : After(via) \in Faults
<1>1. \A via \in Vias : Messages(via) \in Int
  BY KprintfAssumption DEF Messages
<1>2. \A via \in {"df", "gp", "again"} : After(via) \in Faults
  BY DEF After, Faults, Exceptions
<1> QED BY <1>1, <1>2

\* irq_restore, the abort after a bad format, the next message of an abort or of
\* an exception handler, and the exception that a handler's iret raises.
LEMMA OutsideSteps ==
  ASSUME KInv, NEW c \in CPUs,
         IrqRestore(c) \/ BadFormat(c) \/ NextMessage(c) \/ IretFaults(c)
  PROVE  KInv'
<1> USE DEF KInv
<1> frames[c] # <<>> /\ UNCHANGED <<lockVars, home, stopped, entries>>
  BY DEF IrqRestore, BadFormat, NextMessage, IretFaults, Running
<1>1. intr \in [CPUs -> BOOLEAN] /\ home \in [CPUs -> BOOLEAN]
  BY DEF Types
<1>2. CASE IrqRestore(c)
  <2> DEFINE f == [Top(c) EXCEPT !.phase = "ret", !.left = @ - 1]
  <2>1. SetTop(c, f) /\ Top(c).phase = "restore" /\ intr' = [intr EXCEPT ![c] = Top(c).flags]
    BY <1>2 DEF IrqRestore
  <2>2. /\ f \in Frames /\ f.phase = "ret" /\ f.via = Top(c).via /\ f.flags = Top(c).flags
        /\ Top(c).flags \in BOOLEAN
    <3>1. Top(c) \in Frames /\ Top(c).left - 1 \in Int
      BY TopKnown DEF Frames
    <3> QED BY <3>1 DEF Frames, Calm
  <2> HIDE DEF f
  <2>3. InLock' /\ Counted'
    BY <2>1, <2>2, OutsideInv DEF Calm
  <2>4. /\ intr' \in [CPUs -> BOOLEAN] /\ intr'[c] = Top(c).flags
        /\ \A d \in CPUs \ {c} : intr'[d] = intr[d]
    BY <1>1, <2>1, <2>2
  <2>5. Types' /\ Nested' /\ Flagged'
    <3>1. Top(c).phase \in Busy /\ f.phase \in Calm /\ f.phase \notin Busy
      BY <2>1, <2>2 DEF Busy, Calm
    <3> QED BY <2>1, <2>2, <2>4, <3>1, TopKnown, TopInv
  <2> QED BY <2>3, <2>5
<1>3. CASE BadFormat(c)
  <2> DEFINE f == [Top(c) EXCEPT !.via = "abort", !.bad = FALSE,
                                 !.phase = "entry", !.left = AbortMessages]
  <2>1. SetTop(c, f) /\ Top(c).phase = "ret" /\ UNCHANGED intr
    BY <1>3 DEF BadFormat
  <2>2. f \in Frames /\ f.phase = "entry" /\ f.via = "abort" /\ f.flags = Top(c).flags
    <3>1. Top(c) \in Frames /\ AbortMessages \in Int /\ FALSE \in BOOLEAN
      BY TopKnown, KprintfAssumption
    <3> QED BY <3>1 DEF Frames, Calm, Vias
  <2> HIDE DEF f
  <2>3. InLock' /\ Counted'
    BY <2>1, <2>2, OutsideInv DEF Calm
  <2>4. Types' /\ Nested' /\ Flagged'
    <3>1. f.phase \in Calm /\ f.phase \notin Busy
      BY <2>2 DEF Busy, Calm
    <3> QED BY <1>1, <2>1, <2>2, <3>1, TopKnown, TopInv
  <2> QED BY <2>3, <2>4
<1>4. CASE NextMessage(c)
  <2> DEFINE f == [Top(c) EXCEPT !.phase = "entry"]
  <2>1. SetTop(c, f) /\ Top(c).phase = "ret" /\ UNCHANGED intr
    BY <1>4 DEF NextMessage
  <2>2. f \in Frames /\ f.phase = "entry" /\ f.via = Top(c).via /\ f.flags = Top(c).flags
    BY TopKnown DEF Frames, Calm
  <2> HIDE DEF f
  <2>3. InLock' /\ Counted'
    BY <2>1, <2>2, OutsideInv DEF Calm
  <2>4. Types' /\ Nested' /\ Flagged'
    <3>1. f.phase \in Calm /\ f.phase \notin Busy /\ Top(c).phase \in Calm
      BY <2>1, <2>2 DEF Busy, Calm
    <3> QED BY <1>1, <2>1, <2>2, <3>1, TopKnown, TopInv
  <2> QED BY <2>3, <2>4
<1>5. CASE IretFaults(c)
  <2> DEFINE v == After(Top(c).via)
             f == [Top(c) EXCEPT !.via = v, !.phase = "entry", !.left = Messages(v)]
  <2>1. SetTop(c, f) /\ Top(c).phase = "ret" /\ UNCHANGED intr
    BY <1>5 DEF IretFaults
  <2>2. v \in Vias /\ v \notin {"call", "irq"} /\ Messages(v) \in Int
    <3>1. v \in Faults
      BY <1>5, MessageCounts DEF IretFaults
    <3> HIDE DEF v
    <3> QED BY <3>1, MessageCounts DEF Vias, Faults, Exceptions
  <2> HIDE DEF v
  <2>3. f \in Frames /\ f.phase = "entry" /\ f.via = v /\ f.flags = Top(c).flags
    BY <2>2, TopKnown DEF Frames, Calm
  <2> HIDE DEF f
  <2>4. InLock' /\ Counted'
    BY <2>1, <2>3, OutsideInv DEF Calm
  <2>5. Types' /\ Nested' /\ Flagged'
    <3>1. f.phase \in Calm /\ f.phase \notin Busy
      BY <2>3 DEF Busy, Calm
    <3> QED BY <1>1, <2>1, <2>2, <2>3, <3>1, TopKnown, TopInv
  <2> QED BY <2>4, <2>5
<1> QED BY <1>2, <1>3, <1>4, <1>5

\* irq_save and the call of reentrant_lock.
LEMMA IrqSaveInv ==
  ASSUME LockProofs!IInv, KInv, NEW c \in CPUs, IrqSave(c) PROVE KInv'
<1> USE DEF KInv
<1> DEFINE f == [Top(c) EXCEPT !.phase = "locking", !.flags = intr[c]]
<1>1. /\ frames[c] # <<>> /\ Top(c).phase = "entry" /\ SetTop(c, f)
      /\ intr' = [intr EXCEPT ![c] = FALSE]
      /\ Lock!CallLock(Context(c)) /\ UNCHANGED <<home, stopped, entries>>
  BY DEF IrqSave, Running
<1>2. intr \in [CPUs -> BOOLEAN] /\ home \in [CPUs -> BOOLEAN]
  BY DEF Types
<1>3. f \in Frames /\ f.phase = "locking" /\ f.via = Top(c).via /\ f.flags = intr[c]
  BY <1>1, <1>2, TopKnown DEF Frames, Busy
<1> HIDE DEF f
<1>4. Types' /\ Nested' /\ Flagged'
  <2>1. Top(c).phase \in Calm /\ f.phase \in Busy /\ f.phase \notin Calm
    BY <1>1, <1>3 DEF Busy, Calm
  <2>2. /\ intr' \in [CPUs -> BOOLEAN] /\ intr'[c] = FALSE
        /\ \A d \in CPUs \ {c} : intr'[d] = intr[d]
    BY <1>1, <1>2
  <2> QED BY <1>1, <1>3, <2>1, <2>2, TopKnown, TopInv
<1>5. Counted'
  <2>1. Top(c).phase \notin Held /\ f.phase \notin Held /\ depth' = depth
    BY <1>1, <1>3 DEF Held, Lock!CallLock
  <2> QED BY <1>1, <1>3, <2>1, HoldingSteps DEF Counted
<1>6. InLock'
  <2>1. Context(c) \in Contexts
    BY <1>1, TopFrame
  <2>2. /\ pc' = [pc EXCEPT ![Context(c)] = "lock_load"]
        /\ op' = [op EXCEPT ![Context(c)] = "lock"] /\ UNCHANGED expected
    BY <1>1 DEF Lock!CallLock, Lock!Goto
  <2>3. pc \in [Contexts -> LockProofs!Labels] /\ op \in [Contexts -> {"lock", "trylock"}]
    BY DEF LockProofs!IInv, LockProofs!TypeOK
  <2>4. \A u \in Contexts : op'[u] = "lock"
    BY <2>2, <2>3 DEF InLock
  <2>5. /\ pc'[Context(c)] = "lock_load"
        /\ \A u \in Contexts : u # Context(c) => pc'[u] = pc[u] /\ expected'[u] = expected[u]
    BY <2>1, <2>2, <2>3
  <2> QED BY <1>1, <1>3, <2>4, <2>5, LockMove DEF Locks, Unlocks
<1> QED BY <1>4, <1>5, <1>6

\* A move between phases inside irq_save .. irq_restore.
LEMMA BusyInv ==
  ASSUME Types, Nested, Flagged, NEW c \in CPUs, frames[c] # <<>>,
         NEW f \in Frames, SetTop(c, f), UNCHANGED <<intr, home, stopped, entries>>,
         f.via = Top(c).via, f.flags = Top(c).flags,
         Top(c).phase \in Busy, f.phase \in Busy
  PROVE  Types' /\ Nested' /\ Flagged'
<1>1. intr \in [CPUs -> BOOLEAN] /\ home \in [CPUs -> BOOLEAN]
  BY DEF Types
<1>2. Top(c).phase \notin Calm /\ f.phase \notin Calm
  BY DEF Busy, Calm
<1> QED BY <1>1, <1>2, TopKnown, TopInv

\* The call of reentrant_unlock.
LEMMA PrintDoneInv ==
  ASSUME LockProofs!IInv, KInv, NEW c \in CPUs, PrintDone(c) PROVE KInv'
<1> USE DEF KInv
<1> DEFINE f == [Top(c) EXCEPT !.phase = "unlocking"]
<1>1. /\ frames[c] # <<>> /\ Top(c).phase = "body" /\ SetTop(c, f)
      /\ Lock!CallUnlock(Context(c)) /\ UNCHANGED <<intr, home, stopped, entries>>
  BY DEF PrintDone, Running
<1>2. intr \in [CPUs -> BOOLEAN] /\ home \in [CPUs -> BOOLEAN]
  BY DEF Types
<1>3. f \in Frames /\ f.phase = "unlocking" /\ f.via = Top(c).via /\ f.flags = Top(c).flags
  BY <1>1, TopKnown DEF Frames, Busy
<1> HIDE DEF f
<1>4. Types' /\ Nested' /\ Flagged'
  BY <1>1, <1>2, <1>3, BusyInv DEF Busy
<1>5. Counted'
  <2>1. Top(c).phase \in Held /\ f.phase \in Held /\ depth' = depth
    BY <1>1, <1>3 DEF Held, Lock!CallUnlock
  <2> QED BY <1>1, <1>3, <2>1, HoldingSteps DEF Counted
<1>6. InLock'
  <2>1. Context(c) \in Contexts
    BY <1>1, TopFrame
  <2>2. pc' = [pc EXCEPT ![Context(c)] = "unlock_load"] /\ UNCHANGED <<op, expected>>
    BY <1>1 DEF Lock!CallUnlock, Lock!Goto
  <2>3. pc \in [Contexts -> LockProofs!Labels]
    BY DEF LockProofs!IInv, LockProofs!TypeOK
  <2>4. \A u \in Contexts : op'[u] = "lock"
    BY <2>2 DEF InLock
  <2>5. /\ pc'[Context(c)] = "unlock_load"
        /\ \A u \in Contexts : u # Context(c) => pc'[u] = pc[u] /\ expected'[u] = expected[u]
    BY <2>1, <2>2, <2>3
  <2> QED BY <1>1, <1>3, <2>4, <2>5, LockMove DEF Locks, Unlocks
<1> QED BY <1>4, <1>5, <1>6

\* A step inside reentrant_lock or reentrant_unlock: the activation holds the
\* lock from the compare-and-swap that counts it to the one that uncounts it.
LEMMA LockStepInv ==
  ASSUME LockProofs!IInv, KInv, NEW c \in CPUs, Locking(c) \/ Unlocking(c) PROVE KInv'
<1> USE DEF KInv
<1> DEFINE t == Context(c)
           next == IF Top(c).phase = "locking" THEN "body" ELSE "restore"
           f == [Top(c) EXCEPT !.phase = IF pc'[t] = "out" THEN next ELSE Top(c).phase]
<1>1. /\ frames[c] # <<>> /\ Top(c).phase \in {"locking", "unlocking"} /\ SetTop(c, f)
      /\ Lock!Inside(t) /\ UNCHANGED <<intr, home, stopped, entries>>
  BY DEF Locking, Unlocking, LockStep, Running
<1>2. intr \in [CPUs -> BOOLEAN] /\ home \in [CPUs -> BOOLEAN]
  BY DEF Types
<1>3. /\ f \in Frames /\ f.via = Top(c).via /\ f.flags = Top(c).flags
      /\ f.phase = IF pc'[t] = "out" THEN next ELSE Top(c).phase
  <2>1. Top(c) \in Frames /\ next \in Busy
    BY <1>1, TopKnown DEF Busy
  <2> QED BY <2>1 DEF Frames
<1> HIDE DEF f
<1>4. Types' /\ Nested' /\ Flagged'
  <2>1. Top(c).phase \in Busy /\ f.phase \in Busy
    BY <1>1, <1>3 DEF Busy
  <2> QED BY <1>1, <1>2, <1>3, <2>1, BusyInv
<1>5. /\ t \in Contexts /\ t[1] = c /\ op[t] = "lock"
      /\ pc[t] \in Locks <=> Top(c).phase = "locking"
      /\ pc[t] \in Unlocks <=> Top(c).phase = "unlocking"
      /\ pc[t] = "unlock_cas" => Lock!OwnedBy(expected[t], c)
  <2>1. t \in Contexts /\ t[1] = c /\ t[2] = Level(c) /\ Phase(c, t[2]) = Top(c).phase
    BY <1>1, TopFrame DEF Context, Phase, Top
  <2> QED BY <2>1 DEF InLock
<1>6. /\ \A u \in Contexts : op'[u] = "lock"
      /\ \A u \in Contexts : u # t => pc'[u] = pc[u] /\ expected'[u] = expected[u]
  BY <1>1, <1>5, InsideStep DEF InLock
<1>7. Locks \cap Unlocks = {} /\ "out" \notin Locks /\ "out" \notin Unlocks
      /\ "unlock_cas" \in Unlocks
  BY DEF Locks, Unlocks
<1>8. depth \in [CPUs -> Nat]
  BY KprintfAssumption DEF LockProofs!IInv, LockProofs!TypeOK
<1> HIDE DEF t
<1>9. CASE pc[t] \in Locks /\ pc'[t] \in Locks /\ depth' = depth
  <2>1. Top(c).phase = "locking" /\ f.phase = "locking" /\ pc'[t] \notin Unlocks
    BY <1>3, <1>5, <1>7, <1>9
  <2>2. Counted'
    BY <1>1, <1>3, <1>9, <2>1, HoldingSteps DEF Counted, Held
  <2>3. InLock'
    BY <1>1, <1>3, <1>6, <1>7, <1>9, <2>1, LockMove DEF t
  <2> QED BY <1>4, <2>2, <2>3
<1>10. CASE /\ pc[t] \in Locks /\ pc'[t] = "out"
            /\ depth' = [depth EXCEPT ![t[1]] = depth[t[1]] + 1]
  <2>1. Top(c).phase = "locking" /\ f.phase = "body" /\ pc'[t] \notin Locks \cup Unlocks
    BY <1>3, <1>5, <1>7, <1>10
  <2>2. Counted'
    <3>1. /\ \A d \in CPUs \ {c} : Holding(d)' = Holding(d)
          /\ Cardinality(Holding(c))' = Cardinality(Holding(c)) + 1
      BY <1>1, <1>3, <2>1, HoldingSteps DEF Held
    <3> QED BY <1>5, <1>8, <1>10, <3>1 DEF Counted
  <2>3. InLock'
    BY <1>1, <1>3, <1>6, <1>7, <2>1, LockMove DEF t
  <2> QED BY <1>4, <2>2, <2>3
<1>11. CASE /\ pc[t] \in Unlocks /\ pc'[t] \in Unlocks /\ depth' = depth
            /\ expected'[t] = state
  <2>1. Top(c).phase = "unlocking" /\ f.phase = "unlocking" /\ pc'[t] \notin Locks
    BY <1>3, <1>5, <1>7, <1>11
  <2>2. Counted'
    BY <1>1, <1>3, <1>11, <2>1, HoldingSteps DEF Counted, Held
  <2>3. Lock!OwnedBy(expected'[t], c)
    <3>1. Level(c) \in 1..Level(c) /\ Phase(c, Level(c)) \in Held
      BY <1>1, <2>1, TopFrame DEF Phase, Top, Held
    <3> QED BY <1>11, <3>1, HolderOwns
  <2>4. InLock'
    BY <1>1, <1>3, <1>6, <1>7, <1>11, <2>1, <2>3, LockMove DEF t
  <2> QED BY <1>4, <2>2, <2>4
<1>12. CASE /\ pc[t] \in Unlocks /\ pc'[t] = "out"
            /\ depth' = [depth EXCEPT ![t[1]] = depth[t[1]] - 1]
  <2>1. Top(c).phase = "unlocking" /\ f.phase = "restore" /\ pc'[t] \notin Locks \cup Unlocks
    BY <1>3, <1>5, <1>7, <1>12
  <2>2. Counted'
    <3>1. /\ \A d \in CPUs \ {c} : Holding(d)' = Holding(d)
          /\ Cardinality(Holding(c))' = Cardinality(Holding(c)) - 1
      BY <1>1, <1>3, <2>1, HoldingSteps DEF Held
    <3> QED BY <1>5, <1>8, <1>12, <3>1 DEF Counted
  <2>3. InLock'
    BY <1>1, <1>3, <1>6, <1>7, <2>1, LockMove DEF t
  <2> QED BY <1>4, <2>2, <2>3
<1> QED BY <1>1, <1>5, <1>9, <1>10, <1>11, <1>12, InsideStep

\* A core that halts or loops forever.
LEMMA StopInv ==
  ASSUME KInv, NEW c \in CPUs, Stop(c) PROVE KInv'
<1> USE DEF KInv
<1>1. /\ frames[c] # <<>> /\ Top(c).via # "call"
      /\ stopped' = [stopped EXCEPT ![c] = TRUE] /\ intr' = [intr EXCEPT ![c] = FALSE]
      /\ UNCHANGED <<lockVars, frames, home, entries>>
  BY DEF Stop, Running
<1>2. Types'
  BY <1>1 DEF Types, Level
<1>3. InLock' /\ Counted' /\ Nested'
  BY <1>1 DEF InLock, Counted, Nested, Holding, Phase, Level, Lock!OwnedBy, lockVars
<1>4. Flagged'
  <2> SUFFICES ASSUME NEW d \in CPUs
               PROVE  /\ intr'[d] => home[d] /\ \A i \in 1..Level(d) : Phase(d, i) \in Calm
                      /\ \A i \in 1..Level(d) :
                           frames[d][i].via = "irq" \/ frames[d][i].flags => home[d]
                      /\ frames[d] = <<>> /\ ~stopped'[d] => intr'[d] = home[d]
                      /\ frames[d] # <<>> /\ frames[d][1].via = "call" =>
                           /\ Phase(d, 1) \in Busy => frames[d][1].flags = home[d]
                           /\ Level(d) = 1 /\ Phase(d, 1) \in Calm => intr'[d] = home[d]
    BY <1>1 DEF Flagged, Phase, Level
  <2>1. CASE d = c
    <3>1. intr'[d] = FALSE
      BY <1>1, <2>1 DEF Types
    <3>2. Level(d) = 1 => frames[d][1].via # "call"
      BY <1>1, <2>1 DEF Top
    <3> QED BY <1>1, <2>1, <3>1, <3>2 DEF Flagged
  <2>2. CASE d # c
    <3>1. intr'[d] = intr[d] /\ stopped'[d] = stopped[d]
      BY <1>1, <2>2 DEF Types
    <3> QED BY <3>1 DEF Flagged
  <2> QED BY <2>1, <2>2
<1> QED BY <1>2, <1>3, <1>4

\* kprintf returns: the activation below becomes the topmost one.
LEMMA ReturnInv ==
  ASSUME KInv, NEW c \in CPUs, Return(c) PROVE KInv'
<1> USE DEF KInv
<1>1. /\ frames[c] # <<>> /\ Top(c).phase = "ret" /\ Top(c).via \in {"call", "irq"}
      /\ intr' = [intr EXCEPT ![c] = @ \/ Top(c).via = "irq"]
      /\ frames' = [frames EXCEPT ![c] = SubSeq(@, 1, Level(c) - 1)]
      /\ UNCHANGED <<lockVars, home, stopped, entries>>
  BY DEF Return, Running
<1>2. /\ frames \in [CPUs -> Seq(Frames)] /\ intr \in [CPUs -> BOOLEAN]
      /\ home \in [CPUs -> BOOLEAN]
  BY DEF Types
<1>3. /\ Level(c) \in Nat \ {0} /\ Level(c) <= MaxNest /\ Level(c) \in 1..Level(c)
      /\ Phase(c, Level(c)) = "ret"
  BY <1>1, TopFrame, KprintfAssumption DEF Phase, Top
<1>4. /\ frames' \in [CPUs -> Seq(Frames)]
      /\ Level(c)' = Level(c) - 1
      /\ \A i \in 1..Level(c) - 1 : frames'[c][i] = frames[c][i] /\ i \in 1..Level(c)
      /\ \A d \in CPUs \ {c} : frames'[d] = frames[d] /\ Level(d)' = Level(d)
  <2>1. /\ SubSeq(frames[c], 1, Level(c) - 1) \in Seq(Frames)
        /\ Len(SubSeq(frames[c], 1, Level(c) - 1)) = Level(c) - 1
        /\ \A i \in 1..Level(c) - 1 : SubSeq(frames[c], 1, Level(c) - 1)[i] = frames[c][i]
    <3>1. /\ Len(frames[c]) = Level(c) /\ 1 \in Int /\ Level(c) - 1 \in Int
          /\ frames[c] \in Seq(Frames)
      BY <1>2, <1>3 DEF Level
    <3>2. \A i \in 1..Level(c) - 1 : frames[c][i] \in Frames
      BY <1>3, <3>1
    <3>3. /\ SubSeq(frames[c], 1, Level(c) - 1) \in Seq(Frames)
          /\ Len(SubSeq(frames[c], 1, Level(c) - 1))
               = IF 1 <= Level(c) - 1 THEN Level(c) - 1 - 1 + 1 ELSE 0
          /\ \A i \in 1..(Level(c) - 1 - 1 + 1) :
               SubSeq(frames[c], 1, Level(c) - 1)[i] = frames[c][1 + i - 1]
      BY <3>1, <3>2, SubSeqProperties
    <3> QED BY <1>3, <3>3
  <2> QED BY <1>1, <1>2, <1>3, <2>1 DEF Level
<1>5. /\ intr' \in [CPUs -> BOOLEAN]
      /\ intr'[c] <=> intr[c] \/ Top(c).via = "irq"
      /\ \A d \in CPUs \ {c} : intr'[d] = intr[d]
  BY <1>1, <1>2
<1>6. Types'
  BY <1>1, <1>3, <1>4, <1>5, KprintfAssumption, SMTT(30) DEF Types
<1>7. Nested'
  <2> SUFFICES ASSUME NEW d \in CPUs, NEW i \in 1..Level(d)'
               PROVE  /\ i < Level(d)' => frames'[d][i].phase \in Calm \cup {"body"}
                      /\ frames'[d][i].via = "call" => i = 1
                      /\ frames'[d][i].via = "irq"
                           \/ (frames'[d][i].flags /\ frames'[d][i].phase \in Busy) =>
                           \A j \in 1..i - 1 : frames'[d][j].phase \in Calm
    BY DEF Nested, Phase
  <2>1. Level(d) \in Nat /\ i \in 1..Level(d) /\ frames'[d][i] = frames[d][i]
        /\ (i < Level(d)' => i < Level(d))
        /\ \A j \in 1..i - 1 : frames'[d][j] = frames[d][j]
    <3>1. CASE d = c
      BY <1>3, <1>4, <3>1
    <3>2. CASE d # c
      BY <1>2, <1>4, <3>2 DEF Level
    <3> QED BY <3>1, <3>2
  <2>2. /\ i < Level(d) => frames[d][i].phase \in Calm \cup {"body"}
        /\ frames[d][i].via = "call" => i = 1
        /\ frames[d][i].via = "irq" \/ (frames[d][i].flags /\ frames[d][i].phase \in Busy) =>
             \A j \in 1..i - 1 : frames[d][j].phase \in Calm
    BY <2>1 DEF Nested, Phase
  <2> QED BY <2>1, <2>2
<1>8. Counted'
  <2>1. \A d \in CPUs : Holding(d)' = Holding(d)
    <3>1. Holding(c)' = Holding(c)
      <4>1. \A i \in 1..Level(c) : i \in 1..Level(c) - 1 \/ i = Level(c)
        BY <1>3
      <4>2. Phase(c, Level(c)) \notin Held
        BY <1>3 DEF Held
      <4> QED BY <1>4, <4>1, <4>2 DEF Holding, Phase
    <3> QED BY <1>4, <3>1 DEF Holding, Phase
  <2> QED BY <1>1, <2>1 DEF Counted, lockVars
<1>9. InLock'
  <2> SUFFICES ASSUME NEW t \in Contexts
               PROVE  /\ op[t] = "lock"
                      /\ pc[t] \in Locks <=> t[2] = Level(t[1])' /\ frames'[t[1]][t[2]].phase = "locking"
                      /\ pc[t] \in Unlocks <=> t[2] = Level(t[1])' /\ frames'[t[1]][t[2]].phase = "unlocking"
                      /\ pc[t] = "unlock_cas" => Lock!OwnedBy(expected[t], t[1])
    BY <1>1 DEF InLock, Lock!OwnedBy, Phase, lockVars
  <2>1. t[1] \in CPUs /\ t[2] \in 1..MaxNest
    BY DEF Contexts
  <2>2. /\ op[t] = "lock"
        /\ pc[t] \in Locks <=> t[2] = Level(t[1]) /\ frames[t[1]][t[2]].phase = "locking"
        /\ pc[t] \in Unlocks <=> t[2] = Level(t[1]) /\ frames[t[1]][t[2]].phase = "unlocking"
        /\ pc[t] = "unlock_cas" => Lock!OwnedBy(expected[t], t[1])
    BY DEF InLock, Phase
  <2>3. CASE t[1] # c
    BY <1>4, <2>1, <2>2, <2>3
  <2>4. CASE t[1] = c
    <3>1. pc[t] \notin Locks \cup Unlocks
      BY <1>3, <2>2, <2>4 DEF Phase
    <3>2. t[2] = Level(c)' => frames'[c][t[2]].phase \in Calm \cup {"body"}
      <4>1. t[2] = Level(c)' => t[2] \in 1..Level(c) - 1 /\ t[2] < Level(c) /\ t[2] \in 1..Level(c)
        BY <1>3, <1>4, <2>1
      <4> QED BY <1>4, <4>1 DEF Nested
    <3> QED BY <2>2, <2>4, <3>1, <3>2 DEF Calm
  <2> QED BY <2>3, <2>4
<1>10. Flagged'
  <2> SUFFICES ASSUME NEW d \in CPUs
               PROVE  /\ intr'[d] => home[d] /\ \A i \in 1..Level(d)' : frames'[d][i].phase \in Calm
                      /\ \A i \in 1..Level(d)' :
                           frames'[d][i].via = "irq" \/ frames'[d][i].flags => home[d]
                      /\ frames'[d] = <<>> /\ ~stopped[d] => intr'[d] = home[d]
                      /\ frames'[d] # <<>> /\ frames'[d][1].via = "call" =>
                           /\ frames'[d][1].phase \in Busy => frames'[d][1].flags = home[d]
                           /\ Level(d)' = 1 /\ frames'[d][1].phase \in Calm => intr'[d] = home[d]
    BY <1>1, ZenonT(30) DEF Flagged, Phase
  <2>1. CASE d # c
    <3>1. /\ frames'[d] = frames[d] /\ Level(d)' = Level(d) /\ intr'[d] = intr[d]
      BY <1>4, <1>5, <2>1
    <3>2. /\ intr[d] => home[d] /\ \A i \in 1..Level(d) : frames[d][i].phase \in Calm
          /\ \A i \in 1..Level(d) : frames[d][i].via = "irq" \/ frames[d][i].flags => home[d]
          /\ frames[d] = <<>> /\ ~stopped[d] => intr[d] = home[d]
          /\ frames[d] # <<>> /\ frames[d][1].via = "call" =>
               /\ frames[d][1].phase \in Busy => frames[d][1].flags = home[d]
               /\ Level(d) = 1 /\ frames[d][1].phase \in Calm => intr[d] = home[d]
      BY DEF Flagged, Phase
    <3> HIDE DEF KInv
    <3> QED BY <3>1, <3>2
  <2>2. CASE d = c
    <3>1. frames'[c] = <<>> <=> Level(c) = 1
      <4>1. frames'[c] \in Seq(Frames) /\ Len(frames'[c]) = Level(c) - 1
        BY <1>4 DEF Level
      <4> QED BY <1>3, <4>1, EmptySeq
    <3>2. intr'[c] => home[c] /\ \A i \in 1..Level(c)' : frames'[c][i].phase \in Calm
      BY <1>1, <1>3, <1>4, <1>5, TopKnown DEF Phase
    <3>3. \A i \in 1..Level(c)' : frames'[c][i].via = "irq" \/ frames'[c][i].flags => home[c]
      BY <1>3, <1>4 DEF Flagged
    <3>4. Top(c).via = "irq" => home[c] /\ intr'[c]
      BY <1>1, <1>5, TopKnown
    <3>5. Top(c).via = "call" => Level(c) = 1 /\ intr'[c] = home[c]
      <4>1. Top(c).phase \in Calm
        BY <1>1 DEF Calm
      <4>2. Top(c).via = "call" => intr'[c] = intr[c]
        BY <1>2, <1>5
      <4> QED BY <1>1, <4>1, <4>2, TopKnown
    <3>6. intr'[c] = home[c]
      BY <1>1, <1>2, <1>5, <3>4, <3>5
    <3>7. ASSUME Level(c) # 1, frames'[c][1].via = "call", frames'[c][1].phase \in Busy
          PROVE  frames'[c][1].flags = home[c]
      <4>1. frames'[c][1] = frames[c][1]
        BY <1>3, <1>4, <3>7
      <4> QED BY <1>1, <3>7, <4>1 DEF Flagged, Phase
    <3> QED BY <2>2, <3>1, <3>2, <3>3, <3>6, <3>7
  <2> QED BY <2>1, <2>2
<1> QED BY <1>6, <1>7, <1>8, <1>9, <1>10

-----------------------------------------------------------------------------
(* Entering kprintf                                                         *)

\* A new activation on top of one that is not inside the lock's code.
LEMMA PushInv ==
  ASSUME KInv, NEW c \in CPUs, NEW via \in Vias,
         NEW bad \in BOOLEAN, Push(c, via, bad),
         intr' \in [CPUs -> BOOLEAN], \A d \in CPUs \ {c} : intr'[d] = intr[d],
         stopped' \in [CPUs -> BOOLEAN],
         \A d \in CPUs \ {c} : stopped'[d] = stopped[d],
         frames[c] # <<>> => Top(c).phase \in Calm \cup {"body"},
         via = "call" => Level(c) = 0,
         via = "irq" => intr[c] /\ home[c],
         intr'[c] => intr[c],
         via = "call" => intr'[c] = home[c]
  PROVE  KInv'
<1> USE DEF KInv
<1> DEFINE f == [via |-> via, phase |-> "entry", flags |-> FALSE, bad |-> bad,
                 left |-> Messages(via)]
<1>1. /\ Level(c) < MaxNest
      /\ entries' = [entries EXCEPT ![c] = @ + 1]
      /\ frames' = [frames EXCEPT ![c] = Append(@, f)]
      /\ UNCHANGED <<lockVars, home>>
  BY DEF Push
<1>2. /\ frames \in [CPUs -> Seq(Frames)] /\ intr \in [CPUs -> BOOLEAN]
      /\ home \in [CPUs -> BOOLEAN] /\ entries \in [CPUs -> Nat]
  BY DEF Types
<1>3. f \in Frames /\ f.phase = "entry" /\ f.via = via /\ ~f.flags
  BY MessageCounts DEF Frames, Calm
<1> HIDE DEF f
<1>4. Level(c) \in Nat /\ frames[c] \in Seq(Frames) /\ Len(frames[c]) = Level(c)
      /\ (frames[c] = <<>> <=> Level(c) = 0)
  BY <1>2 DEF Level
<1>5. /\ frames' \in [CPUs -> Seq(Frames)] /\ frames'[c] # <<>>
      /\ Level(c)' = Level(c) + 1
      /\ frames'[c][Level(c) + 1] = f
      /\ \A i \in 1..Level(c) : frames'[c][i] = frames[c][i]
      /\ \A d \in CPUs \ {c} : frames'[d] = frames[d] /\ Level(d)' = Level(d)
  <2>1. /\ Append(frames[c], f) \in Seq(Frames) /\ Append(frames[c], f) # <<>>
        /\ Len(Append(frames[c], f)) = Level(c) + 1
        /\ Append(frames[c], f)[Level(c) + 1] = f
        /\ \A i \in 1..Level(c) : Append(frames[c], f)[i] = frames[c][i]
    BY <1>3, <1>4, AppendProperties
  <2> QED BY <1>1, <1>2, <2>1 DEF Level
<1>6. \A i \in 1..Level(c) + 1 : i \in 1..Level(c) \/ i = Level(c) + 1
  BY <1>4
<1>7. intr[c] => home[c] /\ \A i \in 1..Level(c) : frames[c][i].phase \in Calm
  BY DEF Flagged, Phase
<1>8. Types'
  BY <1>1, <1>2, <1>4, <1>5, KprintfAssumption DEF Types
<1>9. Nested'
  <2> SUFFICES ASSUME NEW d \in CPUs, NEW i \in 1..Level(d)'
               PROVE  /\ i < Level(d)' => frames'[d][i].phase \in Calm \cup {"body"}
                      /\ frames'[d][i].via = "call" => i = 1
                      /\ frames'[d][i].via = "irq"
                           \/ (frames'[d][i].flags /\ frames'[d][i].phase \in Busy) =>
                           \A j \in 1..i - 1 : frames'[d][j].phase \in Calm
    BY DEF Nested, Phase
  <2>1. CASE d = c /\ i = Level(c) + 1
    <3>1. frames'[d][i] = f /\ ~(i < Level(d)') /\ i - 1 = Level(c)
      BY <1>4, <1>5, <2>1
    <3>2. via = "call" => i = 1
      BY <1>4, <2>1
    <3>3. via = "irq" => \A j \in 1..Level(c) : frames'[d][j].phase \in Calm
      BY <1>5, <1>7, <2>1
    <3> QED BY <1>3, <3>1, <3>2, <3>3
  <2>2. CASE ~(d = c /\ i = Level(c) + 1)
    <3>1. /\ Level(d) \in Nat /\ i \in 1..Level(d) /\ frames'[d][i] = frames[d][i]
          /\ \A j \in 1..i - 1 : frames'[d][j] = frames[d][j]
      <4>1. CASE d = c
        <5>1. i \in 1..Level(c)
          BY <1>4, <1>5, <2>2, <4>1
        <5>2. \A j \in 1..i - 1 : j \in 1..Level(c)
          BY <1>4, <5>1
        <5> QED BY <1>4, <1>5, <4>1, <5>1, <5>2
      <4>2. CASE d # c
        BY <1>2, <1>5, <4>2 DEF Level
      <4> QED BY <4>1, <4>2
    <3>2. /\ i < Level(d) => frames[d][i].phase \in Calm \cup {"body"}
          /\ frames[d][i].via = "call" => i = 1
          /\ frames[d][i].via = "irq" \/ (frames[d][i].flags /\ frames[d][i].phase \in Busy) =>
               \A j \in 1..i - 1 : frames[d][j].phase \in Calm
      BY <3>1 DEF Nested, Phase
    <3>3. i < Level(d)' => frames[d][i].phase \in Calm \cup {"body"}
      <4>1. CASE d = c /\ i = Level(c)
        BY <1>4, <3>1, <4>1 DEF Top
      <4>2. CASE d = c /\ i # Level(c)
        BY <1>4, <3>1, <3>2, <4>2
      <4>3. CASE d # c
        BY <1>5, <3>2, <4>3
      <4> QED BY <4>1, <4>2, <4>3
    <3> QED BY <3>1, <3>2, <3>3
  <2> QED BY <2>1, <2>2
<1>10. Counted'
  <2>1. Holding(c)' = Holding(c)
    <3>1. f.phase \notin Held /\ \A i \in 1..Level(c) : i \in 1..Level(c) + 1
      BY <1>3, <1>4 DEF Held
    <3> QED BY <1>5, <1>6, <3>1 DEF Holding, Phase
  <2>2. \A d \in CPUs : Holding(d)' = Holding(d)
    BY <1>5, <2>1 DEF Holding, Phase
  <2> QED BY <1>1, <2>2 DEF Counted, lockVars
<1>11. InLock'
  <2> SUFFICES ASSUME NEW t \in Contexts
               PROVE  /\ op[t] = "lock"
                      /\ pc[t] \in Locks <=> t[2] = Level(t[1])' /\ frames'[t[1]][t[2]].phase = "locking"
                      /\ pc[t] \in Unlocks <=> t[2] = Level(t[1])' /\ frames'[t[1]][t[2]].phase = "unlocking"
                      /\ pc[t] = "unlock_cas" => Lock!OwnedBy(expected[t], t[1])
    BY <1>1 DEF InLock, Lock!OwnedBy, Phase, lockVars
  <2>1. t[1] \in CPUs /\ t[2] \in 1..MaxNest
    BY DEF Contexts
  <2>2. /\ op[t] = "lock"
        /\ pc[t] \in Locks <=> t[2] = Level(t[1]) /\ frames[t[1]][t[2]].phase = "locking"
        /\ pc[t] \in Unlocks <=> t[2] = Level(t[1]) /\ frames[t[1]][t[2]].phase = "unlocking"
        /\ pc[t] = "unlock_cas" => Lock!OwnedBy(expected[t], t[1])
    BY DEF InLock, Phase
  <2>3. CASE t[1] # c
    BY <1>5, <2>1, <2>2, <2>3
  <2>4. CASE t[1] = c
    <3>1. pc[t] \notin Locks \cup Unlocks
      <4>1. t[2] = Level(c) => frames[c][t[2]].phase \in Calm \cup {"body"}
        BY <1>4, <2>1 DEF Top
      <4> QED BY <2>2, <2>4, <4>1 DEF Calm
    <3>2. t[2] = Level(c)' => frames'[c][t[2]].phase = "entry"
      BY <1>3, <1>5
    <3> QED BY <2>2, <2>4, <3>1, <3>2
  <2> QED BY <2>3, <2>4
<1>12. Flagged'
  <2> SUFFICES ASSUME NEW d \in CPUs
               PROVE  /\ intr'[d] => home[d] /\ \A i \in 1..Level(d)' : frames'[d][i].phase \in Calm
                      /\ \A i \in 1..Level(d)' :
                           frames'[d][i].via = "irq" \/ frames'[d][i].flags => home[d]
                      /\ frames'[d] = <<>> /\ ~stopped'[d] => intr'[d] = home[d]
                      /\ frames'[d] # <<>> /\ frames'[d][1].via = "call" =>
                           /\ frames'[d][1].phase \in Busy => frames'[d][1].flags = home[d]
                           /\ Level(d)' = 1 /\ frames'[d][1].phase \in Calm => intr'[d] = home[d]
    BY <1>1, ZenonT(30) DEF Flagged, Phase
  <2>1. CASE d # c
    <3>1. /\ frames'[d] = frames[d] /\ Level(d)' = Level(d) /\ intr'[d] = intr[d]
          /\ stopped'[d] = stopped[d]
      BY <1>5, <2>1
    <3>2. /\ intr[d] => home[d] /\ \A i \in 1..Level(d) : frames[d][i].phase \in Calm
          /\ \A i \in 1..Level(d) : frames[d][i].via = "irq" \/ frames[d][i].flags => home[d]
          /\ frames[d] = <<>> /\ ~stopped[d] => intr[d] = home[d]
          /\ frames[d] # <<>> /\ frames[d][1].via = "call" =>
               /\ frames[d][1].phase \in Busy => frames[d][1].flags = home[d]
               /\ Level(d) = 1 /\ frames[d][1].phase \in Calm => intr[d] = home[d]
      BY DEF Flagged, Phase
    <3> HIDE DEF KInv
    <3> QED BY <3>1, <3>2
  <2>2. CASE d = c
    <3>1. f.phase \in Calm /\ f.phase \notin Busy
      BY <1>3 DEF Calm, Busy
    <3>2. intr'[c] => home[c] /\ \A i \in 1..Level(c)' : frames'[c][i].phase \in Calm
      BY <1>5, <1>6, <1>7, <3>1
    <3>3. \A i \in 1..Level(c) : frames[c][i].via = "irq" \/ frames[c][i].flags => home[c]
      BY DEF Flagged
    <3>4. \A i \in 1..Level(c)' : frames'[c][i].via = "irq" \/ frames'[c][i].flags => home[c]
      BY <1>3, <1>5, <1>6, <3>3
    <3>5. CASE Level(c) = 0
      <4>1. frames'[c][1] = f
        BY <1>5, <3>5
      <4> QED BY <1>3, <1>5, <2>2, <3>1, <3>2, <3>4, <4>1
    <3>6. CASE Level(c) # 0
      <4>1. frames'[c][1] = frames[c][1] /\ Level(c)' # 1 /\ frames[c] # <<>>
        BY <1>4, <1>5, <3>6
      <4>2. frames[c][1].via = "call" =>
              (frames[c][1].phase \in Busy => frames[c][1].flags = home[c])
        BY <4>1 DEF Flagged, Phase
      <4> QED BY <1>5, <2>2, <3>2, <3>4, <4>1, <4>2
    <3> QED BY <3>5, <3>6
  <2> QED BY <2>1, <2>2
<1> QED BY <1>8, <1>9, <1>10, <1>11, <1>12

\* The ways of entering kprintf.
LEMMA EnterInv ==
  ASSUME KInv, NEW c \in CPUs, Enter(c) PROVE KInv'
<1> USE DEF KInv
<1>1. /\ intr \in [CPUs -> BOOLEAN] /\ home \in [CPUs -> BOOLEAN]
      /\ frames[c] \in Seq(Frames) /\ (frames[c] = <<>> <=> Level(c) = 0)
      /\ stopped \in [CPUs -> BOOLEAN]
  BY DEF Types, Level
<1> USE DEF Vias
<1>2. CASE KernelPrints(c)
  <2>1. PICK bad \in BOOLEAN : Push(c, "call", bad)
    BY <1>2 DEF KernelPrints
  <2>2. frames[c] = <<>> /\ intr' = intr /\ ~stopped[c] /\ stopped' = stopped
    BY <1>2, <2>1 DEF KernelPrints, Push
  <2>3. intr[c] = home[c]
    BY <2>2 DEF Flagged
  <2> QED BY <1>1, <2>1, <2>2, <2>3, PushInv
<1>3. CASE InterruptPrints(c)
  <2>1. /\ intr[c] /\ Push(c, "irq", FALSE) /\ intr' = [intr EXCEPT ![c] = FALSE]
        /\ stopped' = stopped
    BY <1>3 DEF InterruptPrints
  <2>2. home[c] /\ (frames[c] # <<>> => Top(c).phase \in Calm)
    <3>1. home[c]
      BY <2>1 DEF Flagged
    <3> QED BY <2>1, <3>1, TopKnown
  <2>3. /\ intr' \in [CPUs -> BOOLEAN] /\ ~intr'[c]
        /\ \A d \in CPUs \ {c} : intr'[d] = intr[d]
    BY <1>1, <2>1
  <2> QED BY <1>1, <2>1, <2>2, <2>3, PushInv
<1>4. CASE FaultPrints(c)
  <2>1. PICK via \in Exceptions : Push(c, via, FALSE)
    BY <1>4 DEF FaultPrints
  <2>2. /\ frames[c] # <<>> /\ Top(c).phase = "body"
        /\ intr' = [intr EXCEPT ![c] = FALSE] /\ stopped' = stopped
    BY <1>4 DEF FaultPrints
  <2>3. /\ intr' \in [CPUs -> BOOLEAN] /\ ~intr'[c]
        /\ \A d \in CPUs \ {c} : intr'[d] = intr[d]
    BY <1>1, <2>2
  <2>4. via \in Vias /\ via \notin {"call", "irq"}
    BY DEF Exceptions, Faults
  <2> QED BY <1>1, <2>1, <2>2, <2>3, <2>4, PushInv
<1>6. CASE BoundFault(c)
  <2>1. /\ frames[c] # <<>> /\ Top(c).phase = "body" /\ Push(c, "bound", FALSE)
        /\ intr' = [intr EXCEPT ![c] = FALSE] /\ stopped' = [stopped EXCEPT ![c] = TRUE]
    BY <1>6 DEF BoundFault
  <2>2. /\ intr' \in [CPUs -> BOOLEAN] /\ ~intr'[c]
        /\ \A d \in CPUs \ {c} : intr'[d] = intr[d]
        /\ stopped' \in [CPUs -> BOOLEAN]
        /\ \A d \in CPUs \ {c} : stopped'[d] = stopped[d]
    BY <1>1, <2>1
  <2> QED BY <1>1, <2>1, <2>2, PushInv
<1>5. CASE AssertPrints(c)
  <2>1. /\ frames[c] # <<>> /\ Top(c).phase = "body" /\ Push(c, "abort", FALSE)
        /\ intr' = intr /\ stopped' = stopped
    BY <1>5 DEF AssertPrints
  <2> QED BY <1>1, <2>1, PushInv
<1> QED BY <1>2, <1>3, <1>4, <1>5, <1>6 DEF Enter

-----------------------------------------------------------------------------
(* The results                                                              *)

\* Nobody prints at first, and the lock is free.
LEMMA InitInv == Init => IInv
<1> SUFFICES ASSUME Init PROVE IInv
  OBVIOUS
<1>1. LockProofs!IInv
  <2>1. LockProofs!Init
    BY DEF Init, Lock!Init, LockProofs!Init, Lock!Free, LockProofs!Free
  <2> QED BY <2>1, LockProofs!InitInv, LockAssumed
<1>2. /\ frames = [c \in CPUs |-> <<>>] /\ intr \in [CPUs -> BOOLEAN] /\ home = intr
      /\ stopped = [c \in CPUs |-> FALSE] /\ entries = [c \in CPUs |-> 0]
      /\ pc = [t \in Contexts |-> "out"] /\ op = [t \in Contexts |-> "lock"]
      /\ depth = [c \in CPUs |-> 0]
  BY DEF Init, Lock!Init
<1>3. \A c \in CPUs : frames[c] = <<>> /\ Level(c) = 0 /\ Holding(c) = {}
  <2>1. \A c \in CPUs : frames[c] = <<>> /\ Level(c) = 0
    BY <1>2 DEF Level
  <2> QED BY <2>1 DEF Holding
<1>4. Types
  BY <1>2, <1>3, KprintfAssumption DEF Types
<1>5. InLock
  BY <1>2, <1>3 DEF InLock, Locks, Unlocks, Contexts
<1>6. Counted
  BY <1>2, <1>3, FS_EmptySet DEF Counted
<1>7. Nested /\ Flagged
  BY <1>2, <1>3 DEF Nested, Flagged
<1> QED BY <1>1, <1>4, <1>5, <1>6, <1>7 DEF IInv, KInv

\* Every step of every core keeps the invariant.
LEMMA StepInv == IInv /\ [Next]_vars => IInv'
<1> SUFFICES ASSUME IInv, [Next]_vars PROVE IInv'
  OBVIOUS
<1> USE DEF IInv
<1>1. LockProofs!IInv'
  BY LockUsed, LockInvStep DEF KInv
<1>2. KInv'
  <2>1. CASE UNCHANGED vars
    <3>1. Types'
      BY <2>1 DEF vars, lockVars, KInv, Types, Level
    <3>2. InLock'
      BY <2>1 DEF vars, lockVars, KInv, InLock, Phase, Level
    <3>3. Counted'
      BY <2>1 DEF vars, lockVars, KInv, Counted, Holding, Phase, Level, Lock!OwnedBy
    <3>4. Nested' /\ Flagged'
      BY <2>1 DEF vars, lockVars, KInv, Nested, Flagged, Phase, Level
    <3> QED BY <3>1, <3>2, <3>3, <3>4 DEF KInv
  <2>2. ASSUME NEW c \in CPUs, Proceed(c) PROVE KInv'
    BY <2>2, OutsideSteps, IrqSaveInv, PrintDoneInv, LockStepInv, StopInv, ReturnInv
       DEF Proceed
  <2>3. ASSUME NEW c \in CPUs, Enter(c) PROVE KInv'
    BY <2>3, EnterInv
  <2> QED BY <2>1, <2>2, <2>3 DEF Next
<1> QED BY <1>1, <1>2

\* The invariant holds of any number of cores printing from any code.
THEOREM Invariance == Spec => []IInv
<1>1. Init => IInv
  BY InitInv
<1>2. IInv /\ [Next]_vars => IInv'
  BY StepInv
<1> QED BY <1>1, <1>2, PTL DEF Spec

\* The texts of two cores never mix on the terminal, whatever faults, aborts
\* and interrupts print inside one another: an activation that is printing
\* holds the lock, and the word of the lock names one core.
THEOREM TextsDoNotMix == Spec => []OutputExclusive
<1>1. IInv => OutputExclusive
  <2> SUFFICES ASSUME IInv, NEW c \in CPUs, NEW d \in CPUs, c # d,
                      NEW i \in 1..Level(c), NEW j \in 1..Level(d),
                      frames[c][i].phase = "body", frames[d][j].phase = "body"
               PROVE  FALSE
    BY DEF OutputExclusive
  <2>1. Lock!OwnedBy(state, c) /\ Lock!OwnedBy(state, d)
    BY HolderOwns DEF IInv, KInv, Phase, Held
  <2> QED BY <2>1 DEF Lock!OwnedBy
<1> QED BY <1>1, Invariance, PTL

\* A core that holds the lock of kprintf has interrupts off, and kernel code
\* gets back the interrupt flag it had, after prints nested to any depth.
THEOREM FlagIsKept == Spec => []IrqFlagIsKept
<1>1. IInv => IrqFlagIsKept
  <2> SUFFICES ASSUME IInv, NEW c \in CPUs
               PROVE  /\ depth[c] > 0 => ~intr[c]
                      /\ frames[c] = <<>> /\ ~stopped[c] => intr[c] = home[c]
    BY DEF IrqFlagIsKept
  <2>1. ASSUME depth[c] > 0, intr[c] PROVE FALSE
    <3>1. \A i \in 1..Level(c) : Phase(c, i) \notin Held
      BY <2>1 DEF IInv, KInv, Flagged, Calm, Held
    <3>2. Holding(c) = {}
      BY <3>1 DEF Holding
    <3>3. depth[c] = 0
      BY <3>2, FS_EmptySet DEF IInv, KInv, Counted
    <3> QED BY <2>1, <3>3
  <2> QED BY <2>1 DEF IInv, KInv, Flagged
<1> QED BY <1>1, Invariance, PTL

-----------------------------------------------------------------------------
(* The terminal, for every size of the screen and of the history            *)
(*                                                                          *)
(* One activation at a time prints on the terminal, by the above; the       *)
(* keyboard's scrolling keys fall between the steps of a print.  The window *)
(* stays in the history, and what a print stores does too: the writing row  *)
(* is inside the history whenever a character may be stored.  Between the   *)
(* increment of the row and the test that starts over it may be one past    *)
(* the end, and the increment stores a value read earlier: both are parts   *)
(* of the inductive invariant.                                              *)

Printing == {"rest", "put", "show", "column", "increase", "store"}

RowInv ==
  ~arrows =>
    /\ key.name \in {"none", "ctrl_f", "ctrl_r"}
    /\ row \in 0..MemHeight
    /\ putting \in Printing => row \in Rows
    /\ putting = "store" => seen \in Rows
    /\ ~outside

ScreenInv == WindowInHistory /\ RowInv

\* What terminal_set_scroll stores is a first row of the window, whichever
\* way the sum has wrapped.
LEMMA SetScrollInHistory ==
  ASSUME NEW s \in 0..LastScroll, NEW amount \in {-1, 1}
  PROVE  SetScroll(s + amount) \in 0..LastScroll
BY TerminalAssumption DEF SetScroll, Size, LastScroll

\* A print's steps keep the window inside the history.
LEMMA PrintKeepsWindow ==
  ASSUME WindowInHistory, PutChar \/ \E c \in {"letter", "newline", "tab"} : Char(c)
  PROVE  WindowInHistory'
<1>1. CASE \E c \in {"letter", "newline", "tab"} : Char(c)
  BY <1>1 DEF WindowInHistory, LastScroll, Char
<1>2. CASE Put \/ Show \/ Column \/ Increase \/ Store
  BY <1>2 DEF WindowInHistory, LastScroll, Put, Show, Column, Increase, Store, place
<1>3. CASE Scroll
  <2>1. CASE ScrollBy(1)
    BY <2>1, SetScrollInHistory DEF WindowInHistory, LastScroll, ScrollBy
  <2>2. CASE UNCHANGED scroll
    BY <2>2 DEF WindowInHistory, LastScroll
  <2> QED BY <1>3, <2>1, <2>2 DEF Scroll
<1>4. CASE Wrap
  <2>1. SetScroll(0) \in 0..LastScroll
    BY TerminalAssumption DEF SetScroll, Size, LastScroll
  <2> QED BY <1>4, <2>1 DEF WindowInHistory, LastScroll, Wrap, place
<1> QED BY <1>1, <1>2, <1>3, <1>4 DEF PutChar

\* The functions of the keys keep it there.
LEMMA KeysKeepWindow ==
  ASSUME WindowInHistory, KeyStep
  PROVE  WindowInHistory'
<1>1. CASE MoveRow \/ ClampRow \/ RowFollows
  BY <1>1 DEF WindowInHistory, LastScroll, MoveRow, ClampRow, RowFollows
<1>2. CASE FollowRow \/ MoveWindow
  <2>1. CASE \E amount \in {-1, 1} : ScrollBy(amount)
    BY <2>1, SetScrollInHistory DEF WindowInHistory, LastScroll, ScrollBy
  <2>2. CASE UNCHANGED scroll
    BY <2>2 DEF WindowInHistory, LastScroll
  <2> QED BY <1>2, <2>1, <2>2 DEF FollowRow, MoveWindow
<1> QED BY <1>1, <1>2 DEF KeyStep

\* The steps of a print keep the row where a character may be stored.
LEMMA PrintKeepsRow ==
  ASSUME ScreenInv, ~outside, PutChar \/ \E c \in {"letter", "newline", "tab"} : Char(c)
  PROVE  RowInv'
<1> SUFFICES ASSUME ~arrows' PROVE RowInv'
  BY DEF RowInv
<1> USE TerminalAssumption DEF RowInv, Printing, Rows, handler
<1>1. CASE \E c \in {"letter", "newline", "tab"} : Char(c)
  BY <1>1 DEF ScreenInv, Char
<1>2. CASE Put \/ Show
  BY <1>2 DEF ScreenInv, Put, Show, place
<1>3. CASE Column
  BY <1>3 DEF ScreenInv, Column, AfterRow
<1>4. CASE Increase
  BY <1>4 DEF ScreenInv, Increase, place
<1>5. CASE Store
  BY <1>5 DEF ScreenInv, Store, Size
<1>6. CASE Scroll
  BY <1>6 DEF ScreenInv, Scroll
<1>7. CASE Wrap
  BY <1>7 DEF ScreenInv, Wrap, AfterRow, place
<1> QED BY <1>1, <1>2, <1>3, <1>4, <1>5, <1>6, <1>7 DEF PutChar

\* So do Ctrl-F and Ctrl-R, at any point of a print.
LEMMA KeysKeepRow ==
  ASSUME ScreenInv, ~outside, KeyStep \/ \E k \in KeyNames : Press(k)
  PROVE  RowInv'
<1> SUFFICES ASSUME ~arrows' PROVE RowInv'
  BY DEF RowInv
<1> USE TerminalAssumption DEF RowInv, Printing, Rows, printer
<1>1. CASE \E k \in KeyNames : Press(k)
  <2>1. PICK k \in KeyNames : Press(k)
    BY <1>1
  <2>2. ~arrows /\ k \notin {"arrow_up", "arrow_down"}
    BY <2>1, Zenon DEF Press
  <2>3. key'.name \in {"ctrl_f", "ctrl_r"}
    BY <2>1, <2>2 DEF Press, KeyNames
  <2>4. UNCHANGED <<row, putting, seen, outside>>
    BY <2>1, Zenon DEF Press, place, printer
  <2> QED BY <2>2, <2>3, <2>4 DEF ScreenInv
<1>2. CASE KeyStep
  <2>1. ~arrows /\ key.name \in {"none", "ctrl_f", "ctrl_r"} /\ UNCHANGED <<putting, seen, outside>>
    BY <1>2 DEF ScreenInv, KeyStep
  <2>2. CASE RowFollows
    <3>1. row' \in 0..MemHeight /\ (putting \in Printing => row' \in Rows)
      BY <2>1, <2>2 DEF ScreenInv, RowFollows, WindowInHistory, LastScroll
    <3>2. key'.name = "none"
      BY <2>2 DEF RowFollows, GoTo, NoKey
    <3> QED BY <2>1, <3>1, <3>2 DEF ScreenInv
  <2>3. CASE MoveWindow /\ UNCHANGED row
    <3>1. key'.name = key.name
      BY <2>3 DEF MoveWindow, GoTo, At
    <3> QED BY <2>1, <2>3, <3>1 DEF ScreenInv
  <2>4. ~(MoveRow \/ ClampRow \/ FollowRow)
    BY <2>1 DEF MoveRow, ClampRow, FollowRow, At
  <2> QED BY <1>2, <2>2, <2>3, <2>4 DEF KeyStep
<1> QED BY <1>1, <1>2

\* Whatever keys are pressed in the middle of whatever print, the window of
\* terminal_update_vga_mem is inside the history.
THEOREM WindowCorrect == TerminalSpec => []WindowInHistory
<1>1. TerminalInit => WindowInHistory
  BY TerminalAssumption DEF TerminalInit, WindowInHistory, LastScroll
<1>2. ASSUME WindowInHistory, [TerminalNext]_terminalVars PROVE WindowInHistory'
  <2>1. CASE UNCHANGED terminalVars
    BY <1>2, <2>1 DEF terminalVars, place, WindowInHistory, LastScroll
  <2>2. CASE \E k \in KeyNames : Press(k)
    BY <1>2, <2>2 DEF Press, place, WindowInHistory, LastScroll
  <2> QED BY <1>2, <2>1, <2>2, PrintKeepsWindow, KeysKeepWindow DEF TerminalNext
<1> QED BY <1>1, <1>2, PTL DEF TerminalSpec

\* As long as no arrow key is pressed, terminal_putentryat stores every
\* character inside the history.
THEOREM StoresCorrect == TerminalSpec => []StoresInHistory
<1>1. TerminalInit => ScreenInv
  BY TerminalAssumption
     DEF TerminalInit, ScreenInv, WindowInHistory, LastScroll, RowInv, Printing, Rows, NoKey
<1>2. ASSUME ScreenInv, [TerminalNext]_terminalVars PROVE ScreenInv'
  <2>1. CASE UNCHANGED terminalVars
    BY <1>2, <2>1 DEF terminalVars, place, printer, handler, ScreenInv, RowInv, Printing, Rows,
                      WindowInHistory, LastScroll
  <2>2. CASE TerminalNext
    <3>1. ~outside
      BY <2>2 DEF TerminalNext
    <3>2. WindowInHistory'
      <4>1. CASE \E k \in KeyNames : Press(k)
        BY <1>2, <4>1 DEF ScreenInv, Press, place, WindowInHistory, LastScroll
      <4> QED BY <1>2, <2>2, <4>1, PrintKeepsWindow, KeysKeepWindow DEF TerminalNext, ScreenInv
    <3>3. RowInv'
      BY <1>2, <2>2, <3>1, PrintKeepsRow, KeysKeepRow DEF TerminalNext
    <3> QED BY <3>2, <3>3 DEF ScreenInv
  <2> QED BY <1>2, <2>1, <2>2
<1>3. ScreenInv => StoresInHistory
  BY DEF ScreenInv, RowInv, StoresInHistory
<1> QED BY <1>1, <1>2, <1>3, PTL DEF TerminalSpec

-----------------------------------------------------------------------------
(* What is on the screen                                                    *)
(*                                                                          *)
(* While no key has moved the window it follows the writing row: it starts  *)
(* at the top or Height rows above the row, one of them late between the    *)
(* increment of the row and the scrolling.  So the row being written is on  *)
(* the screen only while the window is at the top, where the cell that      *)
(* terminal_putentryat copies is the one it has just stored.  Between the   *)
(* store and the copy that one cell of the screen is behind the history.    *)

Following(r) == IF r > Height THEN r - Height ELSE 0

\* The cell that is stored and not yet copied, and what the others are.
Behind(y, x) == putting = "show" /\ y + scroll = row /\ x = col
Agrees(y, x) == vga[y][x] \in {big[y + scroll][x], Cleared}

ShownInv ==
  /\ keys \in Nat
  /\ keys = 0 =>
       /\ key = NoKey
       /\ putting \in Printing \cup {"scroll", "wrap"}
       /\ row \in 0..MemHeight
       /\ putting \in Printing => row \in Rows
       /\ putting \in {"show", "store"} => seen = row
       /\ putting = "scroll" => row > 0
       /\ scroll = Following(IF putting = "scroll" THEN row - 1 ELSE row)
       /\ big \in [Rows -> [Columns -> Cell]] /\ vga \in [Lines -> [Columns -> Cell]]
       /\ \A y \in Lines, x \in Columns : Behind(y, x) \/ Agrees(y, x)

\* A window that follows a row of the history is inside the history.
LEMMA FollowingInHistory ==
  ASSUME NEW r \in 0..MemHeight
  PROVE  /\ Following(r) \in 0..LastScroll
         /\ \A y \in Lines : y + Following(r) \in Rows
BY TerminalAssumption DEF Following, LastScroll, Lines, Rows

\* terminal_update_vga_mem shows the rows of the window.
LEMMA WindowShows ==
  ASSUME NEW b \in [Rows -> [Columns -> Cell]], NEW s \in 0..LastScroll
  PROVE  /\ Window(b, s) \in [Lines -> [Columns -> Cell]]
         /\ \A y \in Lines, x \in Columns : Window(b, s)[y][x] = b[y + s][x]
<1>1. \A y \in Lines : y + s \in Rows
  BY TerminalAssumption DEF Lines, Rows, LastScroll
<1>2. \A y \in Lines : Window(b, s)[y] = [x \in Columns |-> b[y + s][x]]
  BY <1>1 DEF Window
<1>3. \A y \in Lines, x \in Columns : Window(b, s)[y][x] = b[y + s][x]
  BY <1>2
<1>4. \A y \in Lines : Window(b, s)[y] \in [Columns -> Cell]
  BY <1>1, <1>2
<1> QED BY <1>3, <1>4 DEF Window

\* A character is stored where the screen will show it, or below the screen.
LEMMA PutShows ==
  ASSUME ShownInv, Put, keys = 0 PROVE ShownInv'
<1> DEFINE what == IF tabs > 0 THEN Blank ELSE Letter
<1>1. /\ row \in Rows /\ scroll = Following(row) /\ putting = "put" /\ row \in 0..MemHeight
      /\ big \in [Rows -> [Columns -> Cell]] /\ vga \in [Lines -> [Columns -> Cell]]
      /\ \A y \in Lines, x \in Columns : Agrees(y, x)
  BY DEF ShownInv, Put, Printing, Behind
<1>2. /\ big' = [big EXCEPT ![row][col] = what] /\ seen' = row /\ putting' = "show"
      /\ UNCHANGED <<row, col, scroll, vga, key, keys>>
  BY <1>1 DEF Put, place, handler
<1>3. what \in Cell
  BY DEF Cell
<1> HIDE DEF what
<1>4. /\ big' \in [Rows -> [Columns -> Cell]]
      /\ \A y \in Rows, x \in Columns :
           big'[y][x] = IF y = row /\ x = col THEN what ELSE big[y][x]
  BY <1>1, <1>2, <1>3
<1>5. \A y \in Lines : y + scroll \in Rows
  BY <1>1, FollowingInHistory
<1>6. \A y \in Lines, x \in Columns : Behind(y, x)' \/ Agrees(y, x)'
  BY <1>1, <1>2, <1>4, <1>5 DEF Behind, Agrees
<1> QED BY <1>1, <1>2, <1>4, <1>6 DEF ShownInv, Printing

\* And the screen shows it.
LEMMA ShowShows ==
  ASSUME ShownInv, Show, keys = 0 PROVE ShownInv'
<1> DEFINE line == Size(seen - scroll)
<1>1. /\ row \in Rows /\ row \in Nat /\ scroll = Following(row) /\ putting = "show" /\ seen = row
      /\ big \in [Rows -> [Columns -> Cell]] /\ vga \in [Lines -> [Columns -> Cell]]
      /\ \A y \in Lines, x \in Columns : Behind(y, x) \/ Agrees(y, x)
  BY DEF ShownInv, Show, Printing, Rows
<1>2. /\ vga' = IF line \in Lines THEN [vga EXCEPT ![line][col] = big[line][col]] ELSE vga
      /\ UNCHANGED <<row, col, scroll, big, key, keys>> /\ putting' = "column"
  BY DEF Show, place, handler
<1>3. line = row - scroll /\ (line \in Lines => scroll = 0 /\ line = row)
      /\ (line \notin Lines => \A y \in Lines : y + scroll # row)
  BY <1>1, TerminalAssumption, SMTT(30) DEF Size, Following, Lines, Rows
<1> HIDE DEF line
<1>4. CASE line \in Lines
  <2>1. vga' = [vga EXCEPT ![line][col] = big[line][col]] /\ scroll = 0 /\ line = row
    BY <1>2, <1>3, <1>4
  <2>2. /\ \A y \in Lines, x \in Columns :
             vga'[y][x] = IF y = line /\ x = col THEN big[line][col] ELSE vga[y][x]
        /\ \A y \in Lines : y + scroll = y
    BY <1>1, <1>4, <2>1 DEF Lines
  <2>3. vga' \in [Lines -> [Columns -> Cell]]
    <3>1. CASE col \in Columns
      <4>1. big[line][col] \in Cell
        BY <1>1, <2>1, <3>1
      <4> QED BY <1>1, <2>1, <4>1
    <3>2. CASE col \notin Columns
      BY <1>1, <2>1, <3>2
    <3> QED BY <3>1, <3>2
  <2>4. ASSUME NEW y \in Lines, NEW x \in Columns PROVE Agrees(y, x)'
    <3>1. y + scroll = y /\ (Behind(y, x) \/ Agrees(y, x))
      BY <1>1, <2>2
    <3>2. vga'[y][x] = IF y = row /\ x = col THEN big[row][col] ELSE vga[y][x]
      BY <2>1, <2>2
    <3> QED BY <1>2, <3>1, <3>2 DEF Behind, Agrees
  <2> QED BY <1>1, <1>2, <2>3, <2>4 DEF ShownInv, Printing
<1>5. CASE line \notin Lines
  <2>1. vga' = vga /\ \A y \in Lines, x \in Columns : ~Behind(y, x)
    BY <1>2, <1>3, <1>5 DEF Behind
  <2>2. \A y \in Lines, x \in Columns : Agrees(y, x)'
    BY <1>1, <1>2, <2>1 DEF Agrees
  <2> QED BY <1>1, <1>2, <2>1, <2>2 DEF ShownInv, Printing
<1> QED BY <1>4, <1>5

\* So do the moves of the row and of the window.
LEMMA RowShows ==
  ASSUME ShownInv, Column \/ Increase \/ Store \/ \E c \in {"letter", "newline", "tab"} : Char(c),
         keys = 0
  PROVE  ShownInv'
<1>1. UNCHANGED <<scroll, big, vga, key, keys>>
  BY DEF Char, Column, Increase, Store, place, cells, handler
<1>2. /\ key = NoKey /\ row \in 0..MemHeight
      /\ big \in [Rows -> [Columns -> Cell]] /\ vga \in [Lines -> [Columns -> Cell]]
      /\ putting # "show" /\ \A y \in Lines, x \in Columns : Agrees(y, x)
  BY DEF ShownInv, Char, Column, Increase, Store, Behind
<1>3. /\ putting' \in Printing \cup {"scroll", "wrap"}
      /\ row' \in 0..MemHeight
      /\ putting' \in Printing => row' \in Rows
      /\ putting' \in {"show", "store"} => seen' = row'
      /\ putting' = "scroll" => row' > 0
      /\ scroll' = Following(IF putting' = "scroll" THEN row' - 1 ELSE row')
  <2>1. CASE \E c \in {"letter", "newline", "tab"} : Char(c)
    BY <2>1 DEF ShownInv, Char, Printing
  <2>2. CASE Column
    BY <2>2 DEF ShownInv, Column, AfterRow, Printing
  <2>3. CASE Increase
    BY <2>3 DEF ShownInv, Increase, Printing, place
  <2>4. CASE Store
    <3>1. row \in Rows /\ row' = Size(row + 1) /\ putting' = "scroll" /\ scroll' = Following(row)
      BY <2>4 DEF ShownInv, Store, Printing
    <3>2. row' = row + 1 /\ row' \in 0..MemHeight /\ row' > 0 /\ row' - 1 = row
      BY <3>1, TerminalAssumption DEF Size, Rows
    <3> QED BY <3>1, <3>2 DEF Printing
  <2> QED BY <2>1, <2>2, <2>3, <2>4
<1> QED BY <1>1, <1>2, <1>3 DEF ShownInv, Agrees

\* Scrolling copies the window to the screen.
LEMMA ScrollShows ==
  ASSUME ShownInv, Scroll, keys = 0 PROVE ShownInv'
<1>1. /\ key = NoKey /\ row \in 1..MemHeight /\ scroll = Following(row - 1)
      /\ big \in [Rows -> [Columns -> Cell]] /\ vga \in [Lines -> [Columns -> Cell]]
      /\ \A y \in Lines, x \in Columns : Agrees(y, x)
  BY TerminalAssumption DEF ShownInv, Scroll, Printing, Behind
<1>2. UNCHANGED <<row, big, seen, key, keys>> /\ putting' = "wrap"
  BY DEF Scroll, handler
<1>3. Size(row - scroll) = row - scroll /\ row - scroll <= Height + 1
      /\ (row - scroll > Height <=> row > Height)
  BY <1>1, TerminalAssumption DEF Size, Following
<1>4. CASE row > Height
  <2>1. ScrollBy(1)
    BY <1>1, <1>3, <1>4, TerminalAssumption DEF Scroll, Following
  <2>2. scroll + 1 = Following(row)
    BY <1>1, <1>4, TerminalAssumption DEF Following
  <2>3. SetScroll(scroll + 1) = Following(row) /\ Following(row) \in 0..LastScroll
    BY <1>1, <2>2, FollowingInHistory, TerminalAssumption DEF SetScroll, Size, LastScroll
  <2>4. scroll' = Following(row) /\ vga' = Window(big, scroll')
    BY <2>1, <2>3 DEF ScrollBy
  <2>5. /\ vga' \in [Lines -> [Columns -> Cell]]
        /\ \A y \in Lines, x \in Columns : vga'[y][x] = big'[y + scroll'][x]
    BY <1>1, <1>2, <2>3, <2>4, WindowShows
  <2> QED BY <1>1, <1>2, <2>4, <2>5 DEF ShownInv, Printing, Agrees
<1>5. CASE ~(row > Height)
  <2>1. UNCHANGED <<scroll, vga>>
    BY <1>1, <1>3, <1>5, TerminalAssumption DEF Scroll, Following
  <2>2. scroll = Following(row)
    BY <1>1, <1>5, TerminalAssumption DEF Following
  <2> QED BY <1>1, <1>2, <2>1, <2>2 DEF ShownInv, Printing, Agrees
<1> QED BY <1>4, <1>5

\* Starting over clears the screen.
LEMMA WrapShows ==
  ASSUME ShownInv, Wrap, keys = 0 PROVE ShownInv'
<1>1. /\ key = NoKey /\ row \in 0..MemHeight /\ scroll = Following(row)
      /\ big \in [Rows -> [Columns -> Cell]] /\ vga \in [Lines -> [Columns -> Cell]]
      /\ \A y \in Lines, x \in Columns : Agrees(y, x)
  BY DEF ShownInv, Wrap, Printing, Behind
<1>2. UNCHANGED <<big, key, keys>> /\ putting' \in {"put", "rest"}
  BY DEF Wrap, handler, AfterRow
<1>3. CASE row >= MemHeight
  <2>1. row' = 0 /\ scroll' = SetScroll(0) /\ vga' = [y \in Lines |-> [x \in Columns |-> Cleared]]
    BY <1>1, <1>3, TerminalAssumption DEF Wrap
  <2>2. SetScroll(0) = 0 /\ Following(0) = 0 /\ 0 \in Rows
    BY TerminalAssumption DEF SetScroll, Size, LastScroll, Following, Rows
  <2>3. vga' \in [Lines -> [Columns -> Cell]] /\ \A y \in Lines, x \in Columns : vga'[y][x] = Cleared
    BY <2>1 DEF Cell
  <2> QED BY <1>1, <1>2, <2>1, <2>2, <2>3, TerminalAssumption DEF ShownInv, Printing, Agrees
<1>4. CASE row < MemHeight
  <2>1. UNCHANGED <<row, scroll, vga>> /\ row \in Rows
    BY <1>1, <1>4, TerminalAssumption DEF Wrap, place, Rows
  <2> QED BY <1>1, <1>2, <2>1 DEF ShownInv, Printing, Agrees
<1> QED BY <1>1, <1>3, <1>4, TerminalAssumption

\* Until a key is pressed, the line completed last is on the screen and the
\* screen shows the window of the history, or what it was cleared to, for
\* every print.
THEOREM LinesAreShown == TerminalSpec => []LineIsShown
<1>1. TerminalInit => ShownInv
  <2> SUFFICES ASSUME TerminalInit PROVE ShownInv
    OBVIOUS
  <2>1. Following(0) = 0 /\ 0 \in Rows /\ 0 \in 0..MemHeight /\ \A y \in Lines : y + 0 \in Rows
    BY TerminalAssumption DEF Following, Rows, Lines
  <2>2. big \in [Rows -> [Columns -> Cell]] /\ vga \in [Lines -> [Columns -> Cell]]
    BY DEF TerminalInit, Cell
  <2>3. \A y \in Lines, x \in Columns : vga[y][x] = Blank /\ big[y + 0][x] = Blank
    BY <2>1 DEF TerminalInit
  <2> QED BY <2>1, <2>2, <2>3 DEF TerminalInit, ShownInv, Printing, Agrees
<1>2. ASSUME ShownInv, [TerminalNext]_terminalVars PROVE ShownInv'
  <2>1. CASE UNCHANGED terminalVars
    BY <1>2, <2>1 DEF terminalVars, place, cells, printer, handler, ShownInv,
                      Behind, Agrees
  <2>2. CASE keys = 0 /\ (PutChar \/ \E c \in {"letter", "newline", "tab"} : Char(c))
    BY <1>2, <2>2, PutShows, ShowShows, RowShows, ScrollShows, WrapShows DEF PutChar
  <2>3. CASE keys # 0 /\ (PutChar \/ \E c \in {"letter", "newline", "tab"} : Char(c))
    <3>1. keys' = keys
      BY <2>3 DEF PutChar, Put, Show, Column, Increase, Store, Scroll, Wrap, Char, handler
    <3> QED BY <1>2, <2>3, <3>1 DEF ShownInv
  <2>4. CASE \E k \in KeyNames : Press(k)
    <3>1. keys' = keys + 1
      BY <2>4 DEF Press
    <3> QED BY <1>2, <3>1 DEF ShownInv
  <2>5. CASE KeyStep
    <3>1. keys' = keys
      BY <2>5 DEF KeyStep
    <3>2. key # NoKey
      BY <2>5 DEF KeyStep, MoveRow, ClampRow, RowFollows, FollowRow, MoveWindow, At, NoKey
    <3> QED BY <1>2, <3>1, <3>2 DEF ShownInv
  <2> QED BY <1>2, <2>1, <2>2, <2>3, <2>4, <2>5 DEF TerminalNext
<1>3. ShownInv => LineIsShown
  BY TerminalAssumption DEF ShownInv, LineIsShown, Following, Printing, Rows, Behind, Agrees
<1> QED BY <1>1, <1>2, <1>3, PTL DEF TerminalSpec

-----------------------------------------------------------------------------
(* What is printed: the texts between the fields                            *)

Characters == Seq(STRING)

\* Induction over the numbers, for a property given as the set that has it.
LEMMA CountingUp ==
  ASSUME NEW S, 0 \in S, \A n \in Nat : n \in S => n + 1 \in S
  PROVE  Nat \subseteq S
<1> SUFFICES ASSUME ~(Nat \subseteq S) PROVE FALSE
  OBVIOUS
<1> DEFINE T == Nat \ S
           R == OpToRel(<, Nat)
<1>1. IsWellFoundedOn(R, Nat)
  BY NatLessThanWellFounded, Zenon
<1>2. \A a, b \in Nat : a < b => <<a, b>> \in R
  BY DEF OpToRel
<1>3. T \subseteq Nat /\ T # {}
  OBVIOUS
<1> HIDE DEF R
<1>4. PICK a \in T : \A b \in T : ~ (<<b, a>> \in R)
  <2> HIDE DEF T
  <2> QED BY <1>1, <1>3, WFMin, Zenon
<1>5. a # 0 /\ a \in Nat /\ a - 1 \in Nat /\ a - 1 < a
  OBVIOUS
<1>6. a - 1 \in S
  BY <1>2, <1>4, <1>5
<1> QED BY <1>4, <1>5, <1>6

\* f joins the pieces of s from the first on.
Joins(f, s, n) == f = [j \in 1..n |-> IF j = 1 THEN s[j] ELSE f[j - 1] \o s[j]]

\* There is such a function.
LEMMA JoinExists ==
  ASSUME NEW s \in Seq(Characters), NEW m \in Nat, m <= Len(s)
  PROVE  \E f \in [1..m -> Characters] : Joins(f, s, m)
<1>1. Len(s) \in Nat /\ \A j \in 1..Len(s) : s[j] \in Characters
  BY LenProperties, ElementOfSeq
<1> DEFINE S == {n \in Nat : n <= Len(s) => \E f \in [1..n -> Characters] : Joins(f, s, n)}
<1>2. 0 \in S
  <2> DEFINE f == [j \in 1..0 |-> s[j]]
  <2>1. f \in [1..0 -> Characters] /\ \A j \in 1..0 : FALSE
    OBVIOUS
  <2>2. Joins(f, s, 0)
    BY <2>1 DEF Joins
  <2> QED BY <2>1, <2>2
<1>3. ASSUME NEW n \in Nat, n \in S PROVE n + 1 \in S
  <2> SUFFICES ASSUME n + 1 <= Len(s)
               PROVE  \E f \in [1..n + 1 -> Characters] : Joins(f, s, n + 1)
    OBVIOUS
  <2>1. PICK f \in [1..n -> Characters] : Joins(f, s, n)
    BY <1>1, <1>3
  <2> DEFINE next == IF n = 0 THEN s[n + 1] ELSE f[n] \o s[n + 1]
             g == [j \in 1..n + 1 |-> IF j <= n THEN f[j] ELSE next]
  <2>2. next \in Characters
    <3>1. s[n + 1] \in Characters
      BY <1>1
    <3>2. ASSUME n # 0 PROVE f[n] \o s[n + 1] \in Characters
      <4>1. f[n] \in Characters
        BY <3>2
      <4> QED BY <3>1, <4>1, ConcatProperties DEF Characters
    <3> QED BY <3>1, <3>2
  <2>3. g \in [1..n + 1 -> Characters]
    <3> HIDE DEF next
    <3> QED BY <2>2
  <2>4. ASSUME NEW j \in 1..n + 1 PROVE g[j] = IF j = 1 THEN s[j] ELSE g[j - 1] \o s[j]
    <3>1. CASE j = n + 1
      <4>1. g[j] = next
        BY <3>1
      <4>2. CASE n = 0
        BY <3>1, <4>1, <4>2
      <4>3. CASE n # 0
        <5>1. g[j - 1] = f[n] /\ j # 1
          BY <3>1, <4>3
        <5> HIDE DEF g
        <5> QED BY <3>1, <4>1, <4>3, <5>1
      <4> QED BY <4>2, <4>3
    <3>2. CASE j \in 1..n
      <4>1. f[j] = IF j = 1 THEN s[j] ELSE f[j - 1] \o s[j]
        BY <2>1, <3>2 DEF Joins
      <4>2. g[j] = f[j] /\ (j # 1 => g[j - 1] = f[j - 1])
        BY <3>2
      <4> HIDE DEF g
      <4> QED BY <4>1, <4>2
    <3> QED BY <3>1, <3>2
  <2> HIDE DEF g
  <2>5. Joins(g, s, n + 1)
    BY <2>3, <2>4 DEF Joins
  <2> QED BY <2>3, <2>5
<1> HIDE DEF S
<1>4. m \in S
  BY <1>2, <1>3, CountingUp
<1> QED BY <1>4 DEF S

\* Pieces joined are a text.
LEMMA FlattenIsText ==
  ASSUME NEW s \in Seq(Characters) PROVE FlattenSeq(s) \in Characters
<1> DEFINE n == Len(s)
           f == CHOOSE g : Joins(g, s, n)
<1>1. n \in Nat /\ \A j \in 1..n : s[j] \in Characters
  BY LenProperties, ElementOfSeq
<1>2. Joins(f, s, n)
  BY <1>1, JoinExists
<1>3. n # 0 => FlattenSeq(s) = f[n]
  BY DEF FlattenSeq, Joins
<1>4. n = 0 => FlattenSeq(s) \in Characters
  BY EmptySeq DEF FlattenSeq, Characters
<1> HIDE DEF f, n
<1> DEFINE S == {j \in Nat : j \in 1..n => f[j] \in Characters}
<1>5. 0 \in S
  OBVIOUS
<1>6. ASSUME NEW j \in Nat, j \in S PROVE j + 1 \in S
  <2> SUFFICES ASSUME j + 1 \in 1..n PROVE f[j + 1] \in Characters
    OBVIOUS
  <2>1. f[j + 1] = IF j + 1 = 1 THEN s[j + 1] ELSE f[j + 1 - 1] \o s[j + 1]
    <3>1. \A k \in 1..n : f[k] = IF k = 1 THEN s[k] ELSE f[k - 1] \o s[k]
      BY <1>2, Zenon DEF Joins
    <3> QED BY <3>1
  <2>2. CASE j = 0
    BY <1>1, <2>1, <2>2
  <2>3. CASE j # 0
    <3>1. j \in 1..n /\ j + 1 - 1 = j /\ j + 1 # 1
      BY <1>1, <2>3
    <3>2. f[j] \in Characters /\ s[j + 1] \in Characters
      BY <1>1, <1>6, <3>1
    <3>3. f[j + 1] = f[j] \o s[j + 1]
      BY <2>1, <3>1
    <3> QED BY <3>2, <3>3, ConcatProperties DEF Characters
  <2> QED BY <2>2, <2>3
<1> HIDE DEF S
<1>7. n \in S
  BY <1>1, <1>5, <1>6, CountingUp
<1>8. n # 0 => f[n] \in Characters
  <2>1. n # 0 => n \in 1..n
    BY <1>1
  <2> QED BY <1>7, <2>1 DEF S
<1> QED BY <1>3, <1>4, <1>8

\* The format of a call is a text.
LEMMA FormatIsText == call \in Calls => Len(fmt) \in Nat
<1> SUFFICES ASSUME call \in Calls PROVE Len(fmt) \in Nat
  OBVIOUS
<1>1. call \in Seq(Range(call)) /\ \A k \in DOMAIN call : call[k].chars \in Characters
  BY PrintfAssumption DEF Characters
<1>2. Len(call) \in Nat /\ DOMAIN call = 1..Len(call)
  BY <1>1, LenProperties
<1> DEFINE s == [k \in DOMAIN call |-> call[k].chars]
<1>3. s \in [1..Len(call) -> Characters]
  BY <1>1, <1>2
<1>4. s \in Seq(Characters)
  <2> HIDE DEF s
  <2>1. PICK n \in Nat : n = Len(call)
    BY <1>2
  <2>2. s \in [1..n -> Characters]
    BY <1>3, <2>1
  <2> QED BY <2>2, SeqDef
<1>5. fmt = FlattenSeq(s)
  BY DEF fmt
<1> HIDE DEF s
<1>6. fmt \in Characters
  BY <1>4, <1>5, FlattenIsText
<1> QED BY <1>6, LenProperties DEF Characters

\* The first of the places ahead.
LEMMA FirstAhead ==
  ASSUME NEW S, S \subseteq Nat, S # {} PROVE Min(S) \in S
<1> DEFINE R == OpToRel(<, Nat)
<1>1. IsWellFoundedOn(R, Nat)
  BY NatLessThanWellFounded, Zenon
<1>2. \A a, b \in Nat : a < b => <<a, b>> \in R
  BY DEF OpToRel
<1> HIDE DEF R
<1>3. PICK a \in S : \A b \in S : ~ (<<b, a>> \in R)
  BY <1>1, WFMin, Zenon
<1>4. a \in Nat /\ \A b \in S : b \in Nat /\ ~(b < a)
  BY <1>2, <1>3
<1>5. \A b \in S : a <= b
  BY <1>4
<1> QED BY <1>5 DEF Min

\* A field found lies where it was looked for.
LEMMA FieldIsThere ==
  ASSUME NEW p, NEW e \in get_single_format_properties(p) PROVE e.pos = p
<1> DEFINE type == IF CharAt(p + 1) \in FieldTypes THEN CharAt(p + 1) ELSE "invalid"
           is(option, num, size) ==
             [type |-> type, option |-> option, num |-> num % 256, len |-> size, pos |-> p]
           number == NumberAt(p + 3)
           sum == string_to_uint(number)
<1>1. \A option, num, size : is(option, num, size).pos = p
  OBVIOUS
<1>2. CASE CharAt(p + 2) \notin Options
  <2>1. e = is("none", 0, 2)
    BY <1>2 DEF get_single_format_properties
  <2> HIDE DEF is
  <2> QED BY <1>1, <2>1
<1>3. CASE CharAt(p + 2) \in Options /\ number = <<>>
  <2>1. e \in {is("not implemented", left[1], left[2]) : left \in {0, 255} \X (0..Len(fmt) + 1)}
    BY <1>3 DEF get_single_format_properties
  <2> DEFINE lefts == {0, 255} \X (0..Len(fmt) + 1)
             rest(left) == is("not implemented", left[1], left[2])
  <2>2. e \in {rest(left) : left \in lefts}
    BY <2>1
  <2> HIDE DEF is, lefts, rest
  <2>3. \E left \in lefts : e = rest(left)
    BY <2>2
  <2> QED BY <1>1, <2>3 DEF rest
<1>4. CASE CharAt(p + 2) \in Options /\ number # <<>>
  <2>1. e \in {is(CharAt(p + 2), sum.zero, 3 + Len(number)),
               is(CharAt(p + 2), sum.digit, 3 + Len(number)),
               is("could not convert", 255, 3 + Len(number))}
    BY <1>4 DEF get_single_format_properties
  <2> HIDE DEF is
  <2> QED BY <1>1, <2>1
<1> QED BY <1>2, <1>3, <1>4

\* Every field found lies in the format, and the fields written are fields found.
FieldsInv ==
  /\ call \in Calls /\ offset \in Nat /\ idx \in Nat
  /\ props = [k \in 1..Len(props) |-> props[k]] /\ Len(props) \in Nat
  /\ \A k \in 1..Len(props) : props[k].pos \in 0..Len(fmt) - 1
  /\ stage \in {"check", "parse"} => idx = 0
  /\ stage = "write" => idx <= Len(props)
  /\ stage = "field" => idx < Len(props)

\* A field is added to those found.
LEMMA OneMoreField ==
  ASSUME props = [k \in 1..Len(props) |-> props[k]], Len(props) \in Nat, NEW e, props' = Append(props, e)
  PROVE  /\ Len(props') = Len(props) + 1 /\ props' = [k \in 1..Len(props') |-> props'[k]]
         /\ \A k \in 1..Len(props) : props'[k] = props[k]
         /\ props'[Len(props) + 1] = e
<1>1. PICK S : props \in Seq(S) /\ e \in S
  <2> DEFINE S == {props[k] : k \in 1..Len(props)} \cup {e}
  <2>1. PICK n \in Nat : n = Len(props)
    OBVIOUS
  <2>2. props \in [1..n -> S]
    BY <2>1
  <2>3. props \in Seq(S)
    <3> HIDE DEF S
    <3> QED BY <2>2, SeqDef
  <2> QED BY <2>3
<1>2. /\ Append(props, e) \in Seq(S) /\ Len(Append(props, e)) = Len(props) + 1
      /\ \A k \in 1..Len(props) : Append(props, e)[k] = props[k]
      /\ Append(props, e)[Len(props) + 1] = e
  BY <1>1, AppendProperties
<1>3. props' \in Seq(S)
  BY <1>2
<1>4. props' = [k \in 1..Len(props') |-> props'[k]]
  BY <1>3, LenProperties
<1> QED BY <1>2, <1>4

\* Every step keeps the fields in the format.
LEMMA FieldsStep == FieldsInv /\ [PrintfNext]_printfVars => FieldsInv'
<1> SUFFICES ASSUME FieldsInv, [PrintfNext]_printfVars PROVE FieldsInv'
  OBVIOUS
<1>1. CASE UNCHANGED printfVars
  BY <1>1 DEF printfVars, FieldsInv, fmt
<1>2. CASE Check
  BY <1>2 DEF Check, FieldsInv, fmt
<1>3. CASE WriteText
  <2>1. /\ stage = "write" /\ stage' = (IF idx = Len(props) THEN "done" ELSE "field")
        /\ UNCHANGED <<call, offset, props, idx>> /\ fmt' = fmt
    BY <1>3 DEF WriteText, fmt
  <2>2. idx \in Nat /\ Len(props) \in Nat /\ idx <= Len(props)
    BY <2>1 DEF FieldsInv
  <2>3. stage' = "field" => idx < Len(props)
    BY <2>1, <2>2
  <2> QED BY <2>1, <2>3 DEF FieldsInv
<1>4. CASE WriteField
  BY <1>4 DEF WriteField, FieldsInv, fmt
<1>5. CASE Parse
  <2> DEFINE ahead == {p \in offset..Len(fmt) - 1 : CharAt(p) = "%"}
  <2>1. /\ stage = "parse" /\ idx = 0 /\ call' = call /\ idx' = 0 /\ fmt' = fmt
    BY <1>5 DEF Parse, FieldsInv, fmt
  <2>2. CASE ahead = {}
    BY <1>5, <2>1, <2>2 DEF Parse, FieldsInv
  <2>3. CASE ahead # {}
    <3>1. Len(fmt) \in Nat
      BY FormatIsText DEF FieldsInv
    <3>2. ahead \subseteq Nat
      BY <3>1 DEF FieldsInv
    <3>3. PICK p \in ahead : p = Min(ahead)
      BY <2>3, <3>2, FirstAhead
    <3>4. PICK e \in get_single_format_properties(p) : props' = Append(props, e)
      BY <1>5, <2>3, <3>3 DEF Parse
    <3>5. e.pos = p /\ p \in 0..Len(fmt) - 1 /\ p \in Nat
      BY <3>1, <3>2, FieldIsThere DEF FieldsInv
    <3>6. offset' = p + 1 /\ stage' = stage
      BY <1>5, <2>3, <3>3 DEF Parse
    <3>7. /\ Len(props') = Len(props) + 1 /\ props' = [k \in 1..Len(props') |-> props'[k]]
          /\ \A k \in 1..Len(props) : props'[k] = props[k]
          /\ props'[Len(props) + 1] = e
      BY <3>4, OneMoreField DEF FieldsInv
    <3>8. \A k \in 1..Len(props') : props'[k].pos \in 0..Len(fmt) - 1
      BY <3>5, <3>7 DEF FieldsInv
    <3> QED BY <2>1, <3>5, <3>6, <3>7, <3>8 DEF FieldsInv
  <2> QED BY <2>2, <2>3
<1> QED BY <1>1, <1>2, <1>3, <1>4, <1>5 DEF PrintfNext

\* The text that kprintf writes between two fields comes from inside the format,
\* for every format of any length, whatever length a field without a number was
\* left with and although the offsets are cut to 16 bits.
THEOREM TextsAreInFormat == PrintfSpec => []TextFromFormat
<1>1. PrintfInit => FieldsInv
  BY DEF PrintfInit, FieldsInv
<1>2. FieldsInv /\ [PrintfNext]_printfVars => FieldsInv'
  BY FieldsStep
<1>3. FieldsInv => TextFromFormat
  <2> SUFFICES ASSUME FieldsInv, stage = "write" PROVE (End(idx) + 1) % 65536 <= Len(fmt)
    BY DEF TextFromFormat
  <2>1. PICK size \in Nat : size = Len(fmt)
    BY FormatIsText DEF FieldsInv
  <2>2. \A v \in Nat : (((v - 1) % 65536) + 1) % 65536 <= v
    OBVIOUS
  <2>3. CASE idx = Len(props)
    BY <2>1, <2>2, <2>3 DEF End
  <2>4. CASE idx # Len(props)
    <3>1. idx + 1 \in 1..Len(props)
      <4>1. idx \in Nat /\ Len(props) \in Nat /\ idx <= Len(props)
        BY DEF FieldsInv
      <4> QED BY <2>4, <4>1
    <3>2. PICK p \in Nat : p = props[idx + 1].pos /\ p < size
      BY <2>1, <3>1 DEF FieldsInv
    <3>3. End(idx) = (p - 1) % 65536
      BY <2>4, <3>2 DEF End
    <3>4. (End(idx) + 1) % 65536 <= p
      BY <2>2, <3>3
    <3>5. (End(idx) + 1) % 65536 \in Int
      BY <3>3
    <3> QED BY <2>1, <3>2, <3>4, <3>5
  <2> QED BY <2>3, <2>4
<1> QED BY <1>1, <1>2, <1>3, PTL DEF PrintfSpec
=============================================================================
