------------------------------ MODULE IpiProofs ------------------------------
(***************************************************************************)
(* The mailbox of inter-processor interrupts, for any number of cores and  *)
(* vectors.  The spin lock comes first, on its own: send_ipi and           *)
(* wait_till_interrupt use it only through its functions, so what is       *)
(* proved of it holds for them, and the lock protects the mailbox.         *)
(***************************************************************************)
EXTENDS Ipi, TLAPS

-----------------------------------------------------------------------------
(* The spin lock, for any set of cores                                      *)

\* The inductive invariant: exclusion rests on the word being 1 exactly while
\* the lock has a holder.
SpinInv == Spin!TypeOK /\ Spin!AtMostOneHolder /\ Spin!WordMatchesHolders

\* A swap from 0 to 1 makes its core the only holder.
LEMMA SpinTakes ==
  ASSUME SpinInv, NEW c \in Cores, lock = 0,
         lock' = 1, holders' = holders \cup {c},
         spin' \in [Cores -> {"out", "read", "cas"}]
  PROVE  SpinInv'
<1>1. holders = {}
  BY DEF SpinInv, Spin!WordMatchesHolders
<1>2. holders' = {c}
  BY <1>1
<1> QED BY <1>2 DEF SpinInv, Spin!TypeOK, Spin!AtMostOneHolder, Spin!WordMatchesHolders

\* A step that changes neither the word nor the holders.
LEMMA SpinLooks ==
  ASSUME SpinInv, UNCHANGED <<lock, holders>>,
         spin' \in [Cores -> {"out", "read", "cas"}]
  PROVE  SpinInv'
BY DEF SpinInv, Spin!TypeOK, Spin!AtMostOneHolder, Spin!WordMatchesHolders

\* Every step of every core preserves the inductive invariant.
LEMMA SpinSteps == SpinInv /\ [Spin!Next]_(Spin!vars) => SpinInv'
<1> SUFFICES ASSUME SpinInv, [Spin!Next]_(Spin!vars) PROVE SpinInv'
  OBVIOUS
<1>0. spin \in [Cores -> {"out", "read", "cas"}]
  BY DEF SpinInv, Spin!TypeOK
<1>1. CASE UNCHANGED Spin!vars
  BY <1>0, <1>1, SpinLooks DEF Spin!vars
<1>2. ASSUME NEW c \in Cores, Spin!CallSpinLock(c) PROVE SpinInv'
  BY <1>0, <1>2, SpinLooks DEF Spin!CallSpinLock, Spin!Goto
<1>3. ASSUME NEW c \in Cores, Spin!SpinRead(c) PROVE SpinInv'
  BY <1>0, <1>3, SpinLooks DEF Spin!SpinRead, Spin!Goto
<1>4. ASSUME NEW c \in Cores, Spin!SpinCas(c) PROVE SpinInv'
  <2>1. spin' \in [Cores -> {"out", "read", "cas"}]
    BY <1>0, <1>4 DEF Spin!SpinCas, Spin!Goto
  <2>2. CASE lock = 0 /\ lock' = 1 /\ holders' = holders \cup {c}
    BY <2>1, <2>2, SpinTakes
  <2>3. CASE UNCHANGED <<lock, holders>>
    BY <2>1, <2>3, SpinLooks
  <2> QED BY <1>4, <2>2, <2>3 DEF Spin!SpinCas
<1>5. ASSUME NEW c \in Cores, Spin!SpinTrylock(c) PROVE SpinInv'
  BY <1>0, <1>5, SpinTakes DEF Spin!SpinTrylock
<1>6. ASSUME NEW c \in Cores, Spin!SpinUnlock(c) PROVE SpinInv'
  <2>1. holders = {c}
    BY <1>6 DEF Spin!SpinUnlock, SpinInv, Spin!TypeOK, Spin!AtMostOneHolder
  <2>2. holders' = {} /\ lock' = 0 /\ spin' = spin
    BY <1>6, <2>1 DEF Spin!SpinUnlock
  <2> QED BY <1>0, <2>2 DEF SpinInv, Spin!TypeOK, Spin!AtMostOneHolder, Spin!WordMatchesHolders
<1> QED
  BY <1>1, <1>2, <1>3, <1>4, <1>5, <1>6 DEF Spin!Next, Spin!SpinStep

\* The inductive invariant holds in every reachable state.
THEOREM SpinInvariance == Spin!Spec => []SpinInv
<1>1. Spin!Init => SpinInv
  BY DEF Spin!Init, SpinInv, Spin!TypeOK, Spin!AtMostOneHolder, Spin!WordMatchesHolders
<1>2. SpinInv /\ [Spin!Next]_(Spin!vars) => SpinInv'
  BY SpinSteps
<1> QED BY <1>1, <1>2, PTL DEF Spin!Spec

\* simple_spin_lock and spin_trylock never let two cores hold a spin lock.
THEOREM SpinExclusion == Spin!Spec => []Spin!AtMostOneHolder
<1>1. SpinInv => Spin!AtMostOneHolder
  BY DEF SpinInv
<1> QED BY <1>1, SpinInvariance, PTL

\* The word of a spin lock is 1 exactly while a core holds it.
THEOREM SpinWordIsTruthful == Spin!Spec => []Spin!WordMatchesHolders
<1>1. SpinInv => Spin!WordMatchesHolders
  BY DEF SpinInv
<1> QED BY <1>1, SpinInvariance, PTL

-----------------------------------------------------------------------------
(* The mailbox                                                              *)

\* A core in send_ipi has a vector to send, which TypeOK does not tell.
SendsAVector ==
  \A c \in Cores : pc[c] \in {"post", "command"} => vector[c] \in Vectors

Types == TypeOK /\ SendsAVector

\* A core that is past its call of simple_spin_lock is a holder of the lock,
\* which the lock's own invariant says is only one, and its call has returned.
Inside == \A c \in Cores : /\ InMailbox(c) => c \in holders
                           /\ pc[c] = "test" => Unlocked(c)

\* What a wait has read is still the entry when it is tested, and if it is the
\* vector waited for then no other post has come since.
ReadIsCurrent ==
  \A c \in Cores : pc[c] = "test" =>
    /\ lir[c] = mailbox[c][peer[c]]
    /\ lir[c] = vector[c] => posted[c][peer[c]] = NoInterrupt

IInv == SpinInv /\ Types /\ Inside
PostInv == NoPostIsLost /\ ReadIsCurrent

\* Every step of this specification is a step of the spin lock or leaves it
\* alone.
LEMMA LockStep == [Next]_vars => [Spin!Next]_(Spin!vars)
<1> SUFFICES ASSUME [Next]_vars PROVE [Spin!Next]_(Spin!vars)
  OBVIOUS
<1>1. CASE UNCHANGED vars
  BY <1>1 DEF vars, lockVars, Spin!vars
<1>2. ASSUME NEW c \in Cores, Call(c) PROVE [Spin!Next]_(Spin!vars)
  BY <1>2 DEF Call, SendIpi, WaitTillInterrupt, lockVars, Spin!vars,
     Spin!Next, Spin!CallSpinLock, Spin!Goto
<1>3. ASSUME NEW c \in Cores, Post(c) PROVE [Spin!Next]_(Spin!vars)
  BY <1>3 DEF Post, Spin!Next, Spin!SpinUnlock
<1>4. ASSUME NEW c \in Cores, Command(c) \/ Halt(c) \/ Interrupt(c) \/ Look(c)
      PROVE  [Spin!Next]_(Spin!vars)
  BY <1>4 DEF Command, Halt, Interrupt, Look, lockVars, Spin!vars
<1>5. ASSUME NEW c \in Cores, Awake(c) \/ NotFound(c)
      PROVE  [Spin!Next]_(Spin!vars)
  BY <1>5 DEF Awake, NotFound, lockVars, Spin!vars,
     Spin!Next, Spin!CallSpinLock, Spin!Goto
<1>6. ASSUME NEW c \in Cores, Found(c) PROVE [Spin!Next]_(Spin!vars)
  BY <1>6 DEF Found, Spin!Next, Spin!SpinUnlock
<1>7. ASSUME NEW c \in Cores, Spinning(c) PROVE [Spin!Next]_(Spin!vars)
  BY <1>7 DEF Spinning, Spin!Next, Spin!SpinStep,
     Spin!SpinRead, Spin!SpinCas, Spin!Goto
<1> QED BY <1>1, <1>2, <1>3, <1>4, <1>5, <1>6, <1>7 DEF Next

\* Every step keeps the variables' types.  That of the lock is the lock's affair.
LEMMA StepType == Types /\ Spin!TypeOK' /\ [Next]_vars => Types'
<1> SUFFICES ASSUME Types, Spin!TypeOK', [Next]_vars PROVE Types'
  OBVIOUS
<1>1. 0 \in Cores /\ \A i \in Cores : i + 1 < Count => i + 1 \in Cores
  BY IpiAssumption DEF Cores
<1> USE DEF Types, TypeOK, SendsAVector, Goto
<1>2. CASE UNCHANGED vars
  BY <1>2 DEF vars, ipiVars
<1>3. ASSUME NEW c \in Cores, Call(c) PROVE Types'
  <2>1. ASSUME NEW v \in Vectors, NEW target \in Cores, SendIpi(c, target, v)
        PROVE  Types'
    BY <2>1 DEF SendIpi
  <2>2. ASSUME NEW v \in Vectors, WaitTillInterrupt(c, v) PROVE Types'
    BY <2>2 DEF WaitTillInterrupt
  <2> QED BY <1>3, <2>1, <2>2 DEF Call
<1>4. ASSUME NEW c \in Cores, Post(c) PROVE Types'
  BY <1>4 DEF Post
<1>5. ASSUME NEW c \in Cores, Command(c) PROVE Types'
  <2>1. CASE irr' = irr
    BY <1>1, <1>5, <2>1 DEF Command
  <2>2. CASE irr' = [irr EXCEPT ![peer[c]] = @ \cup {vector[c]}]
    BY <1>1, <1>5, <2>2 DEF Command
  <2> QED BY <1>5, <2>1, <2>2 DEF Command
<1>6. ASSUME NEW c \in Cores, Halt(c) PROVE Types'
  BY <1>6 DEF Halt
<1>7. ASSUME NEW c \in Cores, Awake(c) PROVE Types'
  BY <1>1, <1>7 DEF Awake
<1>8. ASSUME NEW c \in Cores, Interrupt(c) PROVE Types'
  BY <1>8 DEF Interrupt
<1>9. ASSUME NEW c \in Cores, Found(c) PROVE Types'
  BY <1>1, <1>9 DEF Found
<1>10. ASSUME NEW c \in Cores, NotFound(c) PROVE Types'
  <2>1. CASE peer[c] + 1 < Count
    <3>1. /\ peer' = [peer EXCEPT ![c] = peer[c] + 1] /\ pc' = [pc EXCEPT ![c] = "look"]
          /\ lir' = [lir EXCEPT ![c] = 0]
          /\ UNCHANGED <<mailbox, irr, intr, vector, flags, handled, posted>>
      BY <1>10, <2>1 DEF NotFound
    <3>2. peer' \in [Cores -> Cores]
      BY <1>1, <2>1, <3>1
    <3> QED BY <3>1, <3>2
  <2>2. CASE ~(peer[c] + 1 < Count)
    BY <1>10, <2>2 DEF NotFound
  <2> QED BY <2>1, <2>2
<1>11. ASSUME NEW c \in Cores, Spinning(c) PROVE Types'
  BY <1>11 DEF Spinning, ipiVars
<1>12. ASSUME NEW c \in Cores, Look(c) PROVE Types'
  <2>1. mailbox[c][peer[c]] \in Vectors \cup {0, NoInterrupt}
    OBVIOUS
  <2>2. posted' \in [Cores -> [Cores -> Vectors \cup {NoInterrupt}]]
    BY <1>12 DEF Look
  <2> QED BY <1>12, <2>1, <2>2 DEF Look
<1> QED
  BY <1>2, <1>3, <1>4, <1>5, <1>6, <1>7, <1>8, <1>9, <1>10, <1>11, <1>12 DEF Next

\* Every step keeps a core in the mailbox only while it holds the lock.
LEMMA StepInv == IInv /\ [Next]_vars => IInv'
<1> SUFFICES ASSUME IInv, [Next]_vars PROVE IInv'
  OBVIOUS
<1>1. SpinInv'
  BY LockStep, SpinSteps DEF IInv
<1>2. Types'
  BY <1>1, StepType
  DEF IInv, SpinInv
<1>3. /\ spin \in [Cores -> {"out", "read", "cas"}]
      /\ pc \in [Cores -> {"idle", "post", "command", "hlt", "halted", "awake", "look",
                      "test"}]
      /\ Inside
  BY DEF IInv, Types, TypeOK, Spin!TypeOK
<1> SUFFICES Inside'
  BY <1>1, <1>2 DEF IInv
<1> USE DEF Inside, InMailbox, Unlocked
<1>4. CASE UNCHANGED vars
  BY <1>3, <1>4 DEF vars, lockVars, ipiVars
<1>5. ASSUME NEW c \in Cores, Call(c)
      PROVE  Inside'
  BY <1>3, <1>5
  DEF Call, SendIpi, WaitTillInterrupt, Goto, lockVars, Spin!CallSpinLock, Spin!Goto
<1>6. ASSUME NEW c \in Cores, Post(c) \/ Found(c)
      PROVE  Inside'
  <2>1. holders = {c}
    BY <1>3, <1>6
    DEF Post, Found, IInv, SpinInv, Spin!TypeOK, Spin!AtMostOneHolder
  <2> QED BY <1>3, <1>6, <2>1 DEF Post, Found, Goto, Spin!SpinUnlock
<1>7. ASSUME NEW c \in Cores, Command(c) \/ Halt(c) \/ Interrupt(c) \/ Look(c)
      PROVE  Inside'
  BY <1>3, <1>7 DEF Command, Halt, Interrupt, Look, Goto, lockVars
<1>8. ASSUME NEW c \in Cores, Awake(c) \/ NotFound(c)
      PROVE  Inside'
  BY <1>3, <1>8 DEF Awake, NotFound, Goto, lockVars, Spin!CallSpinLock, Spin!Goto
<1>9. ASSUME NEW c \in Cores, Spinning(c)
      PROVE  Inside'
  BY <1>3, <1>9
  DEF Spinning, ipiVars, Spin!SpinStep, Spin!SpinRead, Spin!SpinCas, Spin!Goto
<1> QED BY <1>4, <1>5, <1>6, <1>7, <1>8, <1>9 DEF Next

\* The inductive invariant holds in every reachable state.
THEOREM Invariance == Spec => []IInv
<1>1. Init => SpinInv
  BY DEF Init, Spin!Init, SpinInv, Spin!TypeOK,
         Spin!AtMostOneHolder, Spin!WordMatchesHolders
<1>2. Init => Types
  BY IpiAssumption DEF Init, Types, SendsAVector, TypeOK, Cores, Spin!Init, Spin!TypeOK
<1>3. Init => Inside
  BY DEF Init, Inside, InMailbox
<1>4. Init => IInv
  BY <1>1, <1>2, <1>3 DEF IInv
<1> QED BY <1>4, StepInv, PTL DEF Spec

\* The two functions use the spin lock as a spin lock: every behaviour of
\* theirs is one of the lock's specification.
THEOREM UsesSpinLock == Spec => Spin!Spec
<1>1. Init => Spin!Init
  BY DEF Init, Spin!Init
<1> QED BY <1>1, LockStep, PTL DEF Spec, Spin!Spec

\* The variables keep their types; in particular the search stays inside the
\* mailbox's rows.
THEOREM TypeCorrect == Spec => []TypeOK
<1>1. IInv => TypeOK
  BY DEF IInv, Types
<1> QED BY <1>1, Invariance, PTL

\* send_ipi and wait_till_interrupt never have two cores in the mailbox.
THEOREM MailboxIsExclusive == Spec => []MailboxExclusive
<1>1. IInv => MailboxExclusive
  BY DEF IInv, Inside, MailboxExclusive, SpinInv, Spin!AtMostOneHolder
<1> QED BY <1>1, Invariance, PTL

\* Every step keeps the posts that no wait has read in the mailbox, and what a
\* wait has read current: only a core in the mailbox writes an entry, and a wait
\* is in it from its read to its clearing of the entry.
LEMMA StepPosts == IInv /\ PostInv /\ [Next]_vars => PostInv'
<1> SUFFICES ASSUME IInv, PostInv, [Next]_vars PROVE PostInv'
  OBVIOUS
<1>1. /\ TypeOK /\ SendsAVector /\ Inside
      /\ \A c, d \in Cores : InMailbox(c) /\ InMailbox(d) => c = d
  BY DEF IInv, Types, SpinInv, Inside, Spin!AtMostOneHolder
<1>2. NoInterrupt \notin Vectors
  BY IpiAssumption
<1> USE DEF PostInv, NoPostIsLost, ReadIsCurrent, TypeOK, Goto
<1>3. CASE UNCHANGED vars
  BY <1>3 DEF vars, ipiVars
<1>4. ASSUME NEW c \in Cores, Call(c) PROVE PostInv'
  BY <1>1, <1>4 DEF Call, SendIpi, WaitTillInterrupt
<1>5. ASSUME NEW c \in Cores, Post(c) PROVE PostInv'
  <2>1. \A d \in Cores : pc[d] # "test"
    BY <1>1, <1>5 DEF Post, InMailbox
  <2>2. \A d \in Cores : pc'[d] # "test"
    BY <1>1, <1>5, <2>1 DEF Post
  <2>3. ASSUME NEW d \in Cores, NEW s \in Cores, posted'[d][s] \in Vectors
        PROVE  mailbox'[d][s] = posted'[d][s]
    BY <1>1, <1>5, <2>3 DEF Post
  <2> QED BY <2>2, <2>3
<1>6. ASSUME NEW c \in Cores, Command(c) \/ Halt(c) \/ Awake(c) \/ Interrupt(c)
      PROVE  PostInv'
  BY <1>1, <1>6 DEF Command, Halt, Awake, Interrupt
<1>7. ASSUME NEW c \in Cores, Look(c) PROVE PostInv'
  <2>1. \A d \in Cores : d # c => pc'[d] = pc[d] /\ lir'[d] = lir[d] /\ posted'[d] = posted[d]
    BY <1>1, <1>7 DEF Look
  <2>2. pc'[c] = "test" /\ lir'[c] = mailbox[c][peer[c]] /\ UNCHANGED <<mailbox, peer, vector>>
    BY <1>1, <1>7 DEF Look
  <2>3. lir'[c] = vector'[c] => posted'[c][peer'[c]] = NoInterrupt
    BY <1>1, <1>7, <2>2 DEF Look
  <2>4. ASSUME NEW d \in Cores, NEW s \in Cores, posted'[d][s] \in Vectors
        PROVE  posted'[d][s] = posted[d][s]
    BY <1>1, <1>2, <1>7, <2>4 DEF Look
  <2>5. NoPostIsLost'
    BY <2>2, <2>4
  <2>6. ReadIsCurrent'
    BY <2>1, <2>2, <2>3
  <2> QED BY <2>5, <2>6
<1>8. ASSUME NEW c \in Cores, Found(c) PROVE PostInv'
  <2>1. /\ \A d \in Cores : pc[d] = "test" => d = c
        /\ posted[c][peer[c]] = NoInterrupt
    BY <1>1, <1>8 DEF Found, InMailbox
  <2>2. \A d \in Cores : pc'[d] # "test"
    BY <1>1, <1>8, <2>1 DEF Found
  <2>3. ASSUME NEW d \in Cores, NEW s \in Cores, posted'[d][s] \in Vectors
        PROVE  mailbox'[d][s] = posted'[d][s]
    BY <1>1, <1>2, <1>8, <2>1, <2>3 DEF Found
  <2> QED BY <2>2, <2>3
<1>9. ASSUME NEW c \in Cores, NotFound(c) PROVE PostInv'
  BY <1>1, <1>9 DEF NotFound
<1>10. ASSUME NEW c \in Cores, Spinning(c) PROVE PostInv'
  BY <1>10 DEF Spinning, ipiVars
<1> QED BY <1>3, <1>4, <1>5, <1>6, <1>7, <1>8, <1>9, <1>10 DEF Next

\* A vector that send_ipi posted stays in the receiver's mailbox until a wait for
\* it has read it, whatever the other cores post, read and clear.
THEOREM PostsAreKept == Spec => []NoPostIsLost
<1>1. Init => PostInv
  BY IpiAssumption DEF Init, PostInv, NoPostIsLost, ReadIsCurrent
<1>2. PostInv => NoPostIsLost
  BY DEF PostInv
<1> QED BY <1>1, <1>2, StepPosts, Invariance, PTL DEF Spec
=============================================================================
