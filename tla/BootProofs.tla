------------------------------ MODULE BootProofs ------------------------------
(***************************************************************************)
(* The boot path from the loader's tags to the cores' own segments, for    *)
(* any processor, any list of tags and any MADT: cpuid is asked only what  *)
(* the processor answers, init_fpu leaves enabled what it reports, the     *)
(* tables are found, and every core reads its own number.                  *)
(*                                                                         *)
(* The walks and the bytes of a number are folds, so what they compute is  *)
(* shown by induction first; the property of the induction is given as the *)
(* set of numbers that have it.                                            *)
(***************************************************************************)
EXTENDS Boot, WellFoundedInduction, FiniteSetTheorems, SequenceTheorems, TLAPS

-----------------------------------------------------------------------------
(* Induction over numbers, and what the folds compute                       *)

\* A set of numbers has a least one.
LEMMA LeastNumber ==
  ASSUME NEW T, T \subseteq Nat, T # {}
  PROVE  \E x \in T : \A y \in T : x <= y
<1> DEFINE R == OpToRel(<, Nat)
<1>1. IsWellFoundedOn(R, Nat)
  BY NatLessThanWellFounded, Zenon
<1>2. \A x, y \in Nat : x < y => <<x, y>> \in R
  BY DEF OpToRel
<1> HIDE DEF R
<1>3. PICK x \in T : \A y \in T : ~ (<<y, x>> \in R)
  BY <1>1, WFMin, Zenon
<1>4. \A y \in T : ~(y < x)
  BY <1>2, <1>3
<1> QED BY <1>4

\* Induction, for a property that is given as the set of numbers that have it.
LEMMA NumberInduction ==
  ASSUME NEW S, 0 \in S, \A n \in Nat : n \in S => n + 1 \in S
  PROVE  Nat \subseteq S
<1> SUFFICES ASSUME ~(Nat \subseteq S) PROVE FALSE
  OBVIOUS
<1> DEFINE T == Nat \ S
<1>1. PICK x \in T : \A y \in T : x <= y
  <2>1. T \subseteq Nat /\ T # {}
    OBVIOUS
  <2> QED BY <2>1, LeastNumber
<1>2. x # 0 /\ x \in Nat
  OBVIOUS
<1>3. x - 1 \in S
  BY <1>1, <1>2
<1> QED BY <1>2, <1>3

\* The largest of a set of positions is what the folds take first.
LEMMA LargestIs ==
  ASSUME NEW m \in Nat, NEW s \in SUBSET (1..m + 1), m + 1 \in s
  PROVE  Max(s) = m + 1
<1>1. \A y \in s : m + 1 >= y /\ y \in Nat
  OBVIOUS
<1>2. \A x \in s : (\A y \in s : x >= y) => x = m + 1
  BY <1>1
<1>3. Max(s) \in s /\ \A y \in s : Max(s) >= y
  BY <1>1 DEF Max
<1> QED BY <1>2, <1>3

\* A set of numbers up to m has a largest.
LEMMA LargestIn ==
  ASSUME NEW m \in Nat, NEW s \in SUBSET (1..m), s # {}
  PROVE  Max(s) \in s /\ \A y \in s : y <= Max(s)
<1> DEFINE T == {m - x : x \in s}
<1>0. \A x \in s : x \in Nat /\ x <= m
  OBVIOUS
<1>1. T \subseteq Nat /\ T # {}
  <2>1. \A x \in s : m - x \in Nat
    BY <1>0
  <2> QED BY <2>1
<1>2. PICK t \in T : \A y \in T : t <= y
  BY <1>1, LeastNumber
<1>3. PICK x \in s : t = m - x
  OBVIOUS
<1>4. \A y \in s : m - x <= m - y
  BY <1>2, <1>3
<1>5. \A y \in s : x >= y
  BY <1>0, <1>4
<1>6. Max(s) \in s /\ \A y \in s : Max(s) >= y
  BY <1>5 DEF Max
<1> QED BY <1>0, <1>6

\* The recursive function that a fold over 1..n is: step says what the fold
\* makes of a position and of the value it has so far.
Folds(f, n, V, base, step) ==
  f = [s \in SUBSET (1..n) |->
         IF s = {} THEN base ELSE step[<<Max(s), f[s \ {Max(s)}]>>]]

\* A fold over the sets of 1..n, largest element last, has a value everywhere.
LEMMA FoldExists ==
  ASSUME NEW n \in Nat, NEW V, NEW base \in V, NEW step \in [(1..n) \X V -> V]
  PROVE  \E f \in [SUBSET (1..n) -> V] : Folds(f, n, V, base, step)
<1> DEFINE Has(m) == \E f \in [SUBSET (1..m) -> V] : Folds(f, m, V, base, step)
           Good == {m \in Nat : m <= n => Has(m)}
<1>1. 0 \in Good
  <2> DEFINE f == [s \in SUBSET (1..0) |-> base]
  <2>1. f \in [SUBSET (1..0) -> V] /\ 1..0 = {}
    OBVIOUS
  <2>2. Folds(f, 0, V, base, step)
    BY <2>1 DEF Folds
  <2>3. Has(0)
    BY <2>1, <2>2
  <2> QED BY <2>3
<1>2. ASSUME NEW m \in Nat, m <= n => Has(m), m + 1 <= n PROVE Has(m + 1)
  <2>1. PICK g \in [SUBSET (1..m) -> V] : Folds(g, m, V, base, step)
    <3>1. m <= n
      BY <1>2
    <3> QED BY <1>2, <3>1, Zenon
  <2> DEFINE f == [s \in SUBSET (1..m + 1) |->
                     IF m + 1 \in s THEN step[<<m + 1, g[s \ {m + 1}]>>] ELSE g[s]]
  <2>2. \A s \in SUBSET (1..m + 1) : s \ {m + 1} \in SUBSET (1..m)
    OBVIOUS
  <2>3. \A s \in SUBSET (1..m + 1) : m + 1 \notin s => s \in SUBSET (1..m)
    OBVIOUS
  <2>4. f \in [SUBSET (1..m + 1) -> V]
    <3>1. ASSUME NEW s \in SUBSET (1..m + 1)
          PROVE  (IF m + 1 \in s THEN step[<<m + 1, g[s \ {m + 1}]>>] ELSE g[s]) \in V
      <4>1. CASE m + 1 \in s
        <5>1. g[s \ {m + 1}] \in V
          BY <2>2
        <5>2. m + 1 \in 1..n
          BY <1>2
        <5>3. <<m + 1, g[s \ {m + 1}]>> \in (1..n) \X V
          BY <5>1, <5>2
        <5> QED BY <4>1, <5>3
      <4>2. CASE m + 1 \notin s
        BY <2>3, <4>2
      <4> QED BY <4>1, <4>2
    <3> QED BY <3>1
  <2>5. \A s \in SUBSET (1..m) : s \in SUBSET (1..m + 1) /\ f[s] = g[s]
    OBVIOUS
  <2>6. ASSUME NEW s \in SUBSET (1..m + 1)
        PROVE  f[s] = IF s = {} THEN base ELSE step[<<Max(s), f[s \ {Max(s)}]>>]
    <3>1. CASE m + 1 \in s
      <4>1. Max(s) = m + 1
        BY <3>1, LargestIs
      <4>2. f[s \ {m + 1}] = g[s \ {m + 1}]
        BY <2>2, <2>5
      <4>3. f[s] = step[<<m + 1, g[s \ {m + 1}]>>]
        BY <3>1
      <4> HIDE DEF f
      <4> QED BY <3>1, <4>1, <4>2, <4>3
    <3>2. CASE m + 1 \notin s
      <4>1. s \in SUBSET (1..m) /\ f[s] = g[s]
        BY <2>3, <2>5, <3>2
      <4>2. g[s] = IF s = {} THEN base ELSE step[<<Max(s), g[s \ {Max(s)}]>>]
        BY <2>1, <4>1 DEF Folds
      <4>3. s \ {Max(s)} \in SUBSET (1..m)
        BY <4>1
      <4>4. f[s \ {Max(s)}] = g[s \ {Max(s)}]
        BY <2>5, <4>3
      <4> HIDE DEF f
      <4> QED BY <4>1, <4>2, <4>4
    <3> QED BY <3>1, <3>2
  <2>7. Folds(f, m + 1, V, base, step)
    <3> HIDE DEF f
    <3> DEFINE h == [s \in SUBSET (1..m + 1) |->
                       IF s = {} THEN base ELSE step[<<Max(s), f[s \ {Max(s)}]>>]]
    <3>1. \A s \in SUBSET (1..m + 1) : f[s] = h[s]
      BY <2>6
    <3>2. f = h
      BY <2>4, <3>1
    <3> QED BY <3>2 DEF Folds
  <2> QED BY <2>4, <2>7
<1> HIDE DEF Has
<1>3. \A m \in Nat : m \in Good => m + 1 \in Good
  BY <1>2
<1>4. Nat \subseteq Good
  <2> HIDE DEF Good
  <2> QED BY <1>1, <1>3, NumberInduction
<1>5. Has(n)
  BY <1>4
<1> QED BY <1>5 DEF Has

\* The last position of an initial part, and the part before it.
LEMMA InitialPart ==
  ASSUME NEW n \in Nat, NEW k \in 1..n
  PROVE  /\ 1..k \in SUBSET (1..n) /\ 1..k # {} /\ Max(1..k) = k
         /\ (1..k) \ {k} = 1..k - 1
<1>1. k \in Nat /\ k - 1 \in Nat /\ k = (k - 1) + 1
  OBVIOUS
<1>2. 1..k \in SUBSET (1..(k - 1) + 1) /\ k \in 1..k
  BY <1>1
<1>3. Max(1..k) = k
  BY <1>1, <1>2, LargestIs
<1> QED BY <1>1, <1>2, <1>3


-----------------------------------------------------------------------------
(* What cpuid answered                                                      *)

\* The answers that are kept: a highest leaf is the processor's once it is
\* known, and only leaves that the processor has were asked.
Answers(cpu) ==
  {i \in [max : {0, cpu.basic}, ext : {0, cpu.ext}, named : BOOLEAN,
          brand : SUBSET Nat, ran : SUBSET Nat] :
     /\ IsFiniteSet(i.brand)
     /\ \A leaf \in i.ran : leaf <= IF leaf < Ext THEN cpu.basic ELSE cpu.ext}

\* From the vendor on, the highest basic leaf is known.
KnowsMax(cpu) == {i \in Answers(cpu) : i.max = cpu.basic}

AnswersInv ==
  /\ hw \in Machines
  /\ id \in Answers(hw.cpu)
  /\ pc \in {"cpuid", "vendor"} => id = NoAnswers
  /\ pc \notin {"cpuid", "vendor", "aborted"} => id \in KnowsMax(hw.cpu)

\* The parts of a machine.
LEMMA CpuOf ==
  ASSUME NEW m \in Machines
  PROVE  IsCpu(m.cpu) /\ m.boot \in Cores /\ IsTagList(m.tags) /\ IsMadt(m.madt)
         /\ WiredApart(m.madt)
BY MachinesAssumption

\* The highest extended leaf is asked for and remembered.
LEMMA ExtendedMax ==
  ASSUME NEW cpu, IsCpu(cpu), NEW i \in KnowsMax(cpu)
  PROVE  get_cpuid_max_extended(cpu, i) \in KnowsMax(cpu)
         /\ get_cpuid_max_extended(cpu, i).ext = cpu.ext
<1>1. CASE i.ext # 0
  BY <1>1 DEF get_cpuid_max_extended, KnowsMax, Answers
<1>2. CASE i.ext = 0
  <2> DEFINE e == Executes(i, Ext)
  <2>1. e \in KnowsMax(cpu)
    BY DEF Executes, KnowsMax, Answers, IsCpu, Ext
  <2>2. get_cpuid_max_extended(cpu, i) = [e EXCEPT !.ext = cpu.ext]
    BY <1>2 DEF get_cpuid_max_extended
  <2> HIDE DEF e
  <2>3. [e EXCEPT !.ext = cpu.ext] \in KnowsMax(cpu) /\ [e EXCEPT !.ext = cpu.ext].ext = cpu.ext
    BY <2>1 DEF KnowsMax, Answers
  <2> QED BY <2>2, <2>3
<1> QED BY <1>1, <1>2

\* A call of cpuid keeps what is remembered right.
LEMMA CallKeeps ==
  ASSUME NEW cpu, IsCpu(cpu), NEW i \in KnowsMax(cpu), NEW leaf \in Nat
  PROVE  call_cpuid(cpu, i, leaf).id \in KnowsMax(cpu)
<1> DEFINE asked == Consulted(cpu, i, leaf)
<1>1. get_cpuid_max(cpu, i) = i
  BY DEF get_cpuid_max, KnowsMax, Answers, IsCpu
<1>2. asked \in KnowsMax(cpu) /\ (leaf >= Ext => leaf = Ext \/ asked.ext = cpu.ext)
  BY <1>1, ExtendedMax DEF Consulted, Ext, XSAVE_Features
<1>3. ASSUME NEW a \in KnowsMax(cpu), leaf >= Ext => leaf = Ext \/ a.ext = cpu.ext,
             Supported(a, leaf)
      PROVE  Executes(a, leaf) \in KnowsMax(cpu)
  BY <1>3 DEF Supported, Executes, KnowsMax, Answers, IsCpu, Ext, XSAVE_Features
<1> HIDE DEF asked
<1>4. call_cpuid(cpu, i, leaf).id \in {asked, Executes(asked, leaf)}
      /\ (call_cpuid(cpu, i, leaf).id = asked \/ Supported(asked, leaf))
  BY DEF call_cpuid, asked
<1> QED BY <1>2, <1>3, <1>4

\* The calls for the processor's features and its clock.
LEMMA InfoKeeps ==
  ASSUME NEW cpu, IsCpu(cpu), NEW i \in KnowsMax(cpu)
  PROVE  /\ call_cpuid(cpu, i, ProcessorInfo).id \in KnowsMax(cpu)
         /\ get_tsc_frequency(cpu, i).id \in KnowsMax(cpu)
<1>1. ProcessorInfo \in Nat /\ AdvancedPowerMgmt \in Nat /\ TSC_INFO \in Nat
  BY DEF ProcessorInfo, AdvancedPowerMgmt, TSC_INFO, Ext
<1> DEFINE power == call_cpuid(cpu, i, AdvancedPowerMgmt)
           info == call_cpuid(cpu, power.id, TSC_INFO)
<1>2. power.id \in KnowsMax(cpu)
  BY <1>1, CallKeeps
<1>3. info.id \in KnowsMax(cpu)
  <2> HIDE DEF power
  <2> QED BY <1>1, <1>2, CallKeeps
<1>4. get_tsc_frequency(cpu, i).id \in {power.id, info.id}
  <2>1. get_tsc_frequency(cpu, i) =
          IF power.err THEN [freq |-> 0, id |-> power.id]
          ELSE IF 0 \notin cpu.power THEN [freq |-> 1, id |-> power.id]
          ELSE IF info.err THEN [freq |-> 2, id |-> info.id]
          ELSE [freq |-> 65535, id |-> info.id]
    BY DEF get_tsc_frequency
  <2> HIDE DEF power, info
  <2> QED BY <2>1
<1>5. call_cpuid(cpu, i, ProcessorInfo).id \in KnowsMax(cpu)
  BY <1>1, CallKeeps
<1> HIDE DEF power, info
<1> QED BY <1>2, <1>3, <1>4, <1>5

\* The calls for the brand string.
LEMMA BrandKeeps ==
  ASSUME NEW cpu, IsCpu(cpu), NEW i \in KnowsMax(cpu), NEW leaf \in Nat
  PROVE  BrandPart(cpu, i, leaf).id \in KnowsMax(cpu)
<1> DEFINE r == call_cpuid(cpu, i, leaf)
<1>1. r.id \in KnowsMax(cpu)
  BY CallKeeps
<1>2. BrandPart(cpu, i, leaf).id = [r.id EXCEPT !.brand = @ \cup {leaf}]
  BY DEF BrandPart, call_cpuid
<1> HIDE DEF r
<1>3. IsFiniteSet(r.id.brand \cup {leaf})
  <2>1. IsFiniteSet(r.id.brand)
    BY <1>1 DEF KnowsMax, Answers
  <2> QED BY <2>1, FS_AddElement
<1> QED BY <1>1, <1>2, <1>3 DEF KnowsMax, Answers

\* The places of start_timer.
LEMMA TimerPlaces ==
  ASSUME NEW timer \in DOMAIN Timers, StartTimer(timer)
  PROVE  /\ pc \in {"sync divide", "sync lvt", "sync count",
                    "main divide", "main lvt", "main count"}
         /\ pc' \in {"sync lvt", "sync count", "wake", "main lvt", "main count", "done"}
<1>1. timer \in {"sync", "main"}
  BY DEF Timers
<1>2. PICK step \in 1..3 : pc = TimerSteps[timer][step] /\ pc' = TimerSteps[timer][step + 1]
  BY DEF StartTimer, Goto
<1>3. step \in {1, 2, 3} /\ 1 + 1 = 2 /\ 2 + 1 = 3 /\ 3 + 1 = 4
  OBVIOUS
<1>4. CASE timer = "sync"
  <2>1. /\ TimerSteps[timer][1] = "sync divide" /\ TimerSteps[timer][2] = "sync lvt"
        /\ TimerSteps[timer][3] = "sync count" /\ TimerSteps[timer][4] = "wake"
    BY <1>4 DEF TimerSteps
  <2>2. CASE step = 1
    BY <1>2, <1>3, <2>1, <2>2
  <2>3. CASE step = 2
    BY <1>2, <1>3, <2>1, <2>3
  <2>4. CASE step = 3
    BY <1>2, <1>3, <2>1, <2>4
  <2> QED BY <1>3, <2>2, <2>3, <2>4
<1>5. CASE timer = "main"
  <2>1. /\ TimerSteps[timer][1] = "main divide" /\ TimerSteps[timer][2] = "main lvt"
        /\ TimerSteps[timer][3] = "main count" /\ TimerSteps[timer][4] = "done"
    BY <1>5 DEF TimerSteps
  <2>2. CASE step = 1
    BY <1>2, <1>3, <2>1, <2>2
  <2>3. CASE step = 2
    BY <1>2, <1>3, <2>1, <2>3
  <2>4. CASE step = 3
    BY <1>2, <1>3, <2>1, <2>4
  <2> QED BY <1>3, <2>2, <2>3, <2>4
<1> QED BY <1>1, <1>4, <1>5

\* Every step keeps what is remembered right.
LEMMA AnswersStep ==
  ASSUME AnswersInv, [Next]_vars PROVE AnswersInv'
<1> USE DEF AnswersInv
<1>0. IsCpu(hw.cpu)
  BY CpuOf
<1>1. CASE CheckCpuid
  BY <1>1 DEF CheckCpuid, GoOn, Goto, cpuVars
<1>2. CASE AskVendor
  <2>1. id' = [max |-> hw.cpu.basic, ext |-> 0, named |-> TRUE, brand |-> {}, ran |-> {0}]
    <3>1. id = NoAnswers
      BY <1>2 DEF AskVendor, Ask
    <3>2. id' = get_cpuid_vendor(hw.cpu, NoAnswers)
      BY <1>2, <3>1 DEF AskVendor, Ask
    <3> QED BY <3>2 DEF get_cpuid_vendor, NoAnswers, Executes
  <2>2. id' \in KnowsMax(hw.cpu)
    BY <1>0, <2>1, FS_EmptySet DEF KnowsMax, Answers, IsCpu, Ext
  <2> QED BY <1>2, <2>2 DEF AskVendor, Ask, Goto, KnowsMax
<1>3. CASE AskMax
  <2>1. id' = id
    BY <1>0, <1>3 DEF AskMax, Ask, get_cpuid_max, KnowsMax, Answers, IsCpu
  <2> QED BY <1>3, <2>1 DEF AskMax, Ask, Goto
<1>4. CASE AskMaxExtended
  <2>1. id' \in KnowsMax(hw.cpu)
    BY <1>0, <1>4, ExtendedMax DEF AskMaxExtended, Ask
  <2> QED BY <1>4, <2>1 DEF AskMaxExtended, Ask, Goto, KnowsMax
<1>5. CASE AskBrand
  <2>1. Ext + 2 + Cardinality(id.brand) \in Nat /\ id \in KnowsMax(hw.cpu)
    <3>1. id \in KnowsMax(hw.cpu) /\ IsFiniteSet(id.brand)
      BY <1>5 DEF AskBrand, KnowsMax, Answers
    <3> QED BY <3>1, FS_CardinalityType DEF Ext
  <2>2. id' \in KnowsMax(hw.cpu)
    BY <1>0, <1>5, <2>1, BrandKeeps DEF AskBrand
  <2>3. hw' = hw /\ pc' \in {"fpu", "brand", "aborted"}
    BY <1>5 DEF AskBrand, GoOn, Goto
  <2> QED BY <2>2, <2>3 DEF KnowsMax
<1>6. CASE InitFpu
  <2>1. id \in KnowsMax(hw.cpu)
    BY <1>6 DEF InitFpu
  <2>2. id' \in KnowsMax(hw.cpu)
    BY <1>0, <1>6, <2>1, InfoKeeps DEF InitFpu
  <2>3. hw' = hw /\ pc' \in {"aborted", "fpu fault", "magic"}
    BY <1>6 DEF InitFpu, Goto
  <2> QED BY <2>2, <2>3 DEF KnowsMax
<1>7. CASE FindMadt
  <2>1. id \in KnowsMax(hw.cpu)
    BY <1>7 DEF FindMadt
  <2>2. id' \in KnowsMax(hw.cpu)
    BY <1>0, <1>7, <2>1, InfoKeeps DEF FindMadt
  <2>3. hw' = hw /\ pc' \in {"aborted", "wild", "madt"}
    BY <1>7 DEF FindMadt, Goto
  <2> QED BY <2>2, <2>3 DEF KnowsMax
<1>8. CASE AskTsc
  <2>1. id \in KnowsMax(hw.cpu)
    BY <1>8 DEF AskTsc, Ask
  <2>2. id' \in KnowsMax(hw.cpu)
    BY <1>0, <1>8, <2>1, InfoKeeps DEF AskTsc, Ask
  <2>3. hw' = hw /\ pc' = "sync divide"
    BY <1>8 DEF AskTsc, Ask, Goto
  <2> QED BY <2>2, <2>3 DEF KnowsMax
<1>9. CASE CheckMultiboot \/ (\E scan \in Scans : Walk(scan)) \/ ReadElf \/ SetupInterrupts
  <2>1. hw' = hw /\ id' = id /\ pc \notin {"cpuid", "vendor", "aborted"}
        /\ pc' \notin {"cpuid", "vendor"}
    BY <1>9 DEF CheckMultiboot, Walk, NothingFound, AfterScan, ReadElf, SetupInterrupts,
                GoOn, Goto, cpuVars, Scans
  <2> QED BY <2>1
<1>10. CASE ParseEntry \/ CheckAddresses \/ InitApic \/ InitLapic
  <2>1. hw' = hw /\ id' = id /\ pc \notin {"cpuid", "vendor", "aborted"}
        /\ pc' \notin {"cpuid", "vendor"}
    BY <1>10 DEF ParseEntry, CheckAddresses, InitApic, InitLapic, lapicUnchanged,
                 GoOn, Goto, cpuVars
  <2> QED BY <2>1
<1>11. CASE CopyGdt \/ AddSegment \/ StoreBootId \/ InitIoApic \/ Wake \/ AllOrNothing
  <2>1. hw' = hw /\ id' = id /\ pc \notin {"cpuid", "vendor", "aborted"}
        /\ pc' \notin {"cpuid", "vendor"}
    BY <1>11 DEF CopyGdt, AddSegment, StoreBootId, InitIoApic, Wake, AllOrNothing,
                 GoOn, Goto, cpuVars
  <2> QED BY <2>1
<1>12. CASE \E timer \in DOMAIN Timers : StartTimer(timer)
  <2>1. hw' = hw /\ id' = id /\ pc \notin {"cpuid", "vendor", "aborted"}
        /\ pc' \notin {"cpuid", "vendor"}
    BY <1>12, TimerPlaces DEF lapicUnchanged, StartTimer, cpuVars
  <2> QED BY <2>1
<1>13. CASE UNCHANGED vars
  BY <1>13 DEF vars
<1> QED BY <1>1, <1>2, <1>3, <1>4, <1>5, <1>6, <1>7, <1>8, <1>9, <1>10, <1>11, <1>12, <1>13
        DEF Next

\* The highest basic leaf that the kernel keeps is the processor's, and only
\* leaves that the processor has are executed, on every machine.
THEOREM CachesStayRight == Spec => []CachesAreRight
<1>1. Init => AnswersInv
  <2>1. \A cpu : NoAnswers \in Answers(cpu)
    BY FS_EmptySet DEF NoAnswers, Answers
  <2> QED BY <2>1 DEF Init, AnswersInv
<1>2. AnswersInv => CachesAreRight
  BY DEF AnswersInv, Answers, CachesAreRight
<1> QED BY <1>1, <1>2, AnswersStep, PTL DEF Spec

-----------------------------------------------------------------------------
(* init_fpu                                                                 *)

\* The words that init_fpu writes, bit by bit.
LEMMA Cr0Word ==
  ASSUME NEW word
  PROVE  Set(cr0_t, word, [mp |-> 1, em |-> 0, ts |-> 0]) = (word \ {1, 2, 3}) \cup {1}
<1> DEFINE v == [mp |-> 1, em |-> 0, ts |-> 0]
           On(f) == {b \in Bits(cr0_t, f) : (v[f] \div 2 ^ (b - Bit(cr0_t, f))) % 2 = 1}
<1>1. /\ Bits(cr0_t, "mp") = {1} /\ Bit(cr0_t, "mp") = 1
      /\ Bits(cr0_t, "em") = {2} /\ Bit(cr0_t, "em") = 2
      /\ Bits(cr0_t, "ts") = {3} /\ Bit(cr0_t, "ts") = 3
  BY ControlBits
<1>2. 1 - 1 = 0 /\ 2 - 2 = 0 /\ 3 - 3 = 0 /\ 2 ^ 0 = 1 /\ (1 \div 1) % 2 = 1 /\ (0 \div 1) % 2 = 0
  OBVIOUS
<1>3. DOMAIN v = {"mp", "em", "ts"} /\ v.mp = 1 /\ v.em = 0 /\ v.ts = 0
  OBVIOUS
<1> HIDE DEF v
<1>4. On("mp") = {1} /\ On("em") = {} /\ On("ts") = {}
  <2>1. On("mp") = {1}
    BY <1>1, <1>2, <1>3
  <2>2. On("em") = {}
    <3>1. v["em"] \div 2 ^ (2 - Bit(cr0_t, "em")) = 0
      <4>1. 2 - Bit(cr0_t, "em") = 0
        BY <1>1
      <4>2. 2 ^ (2 - Bit(cr0_t, "em")) = 1
        BY <1>2, <4>1, Zenon
      <4>3. v["em"] = 0
        BY <1>3
      <4>4. 0 \div 1 = 0
        OBVIOUS
      <4> QED BY <4>2, <4>3, <4>4, Zenon
    <3>2. \A b \in Bits(cr0_t, "em") : b = 2
      BY <1>1
    <3> QED BY <1>2, <3>1, <3>2
  <2>3. On("ts") = {}
    <3>1. v["ts"] \div 2 ^ (3 - Bit(cr0_t, "ts")) = 0
      <4>1. 3 - Bit(cr0_t, "ts") = 0
        BY <1>1
      <4>2. 2 ^ (3 - Bit(cr0_t, "ts")) = 1
        BY <1>2, <4>1, Zenon
      <4>3. v["ts"] = 0
        BY <1>3
      <4>4. 0 \div 1 = 0
        OBVIOUS
      <4> QED BY <4>2, <4>3, <4>4, Zenon
    <3>2. \A b \in Bits(cr0_t, "ts") : b = 3
      BY <1>1
    <3> QED BY <1>2, <3>1, <3>2
  <2> HIDE DEF On
  <2> QED BY <2>1, <2>2, <2>3
<1>5. /\ UNION {On(f) : f \in DOMAIN v} = {1}
      /\ UNION {Bits(cr0_t, f) : f \in DOMAIN v} = {1, 2, 3}
  <2> HIDE DEF On
  <2>1. UNION {On(f) : f \in DOMAIN v} = {1}
    BY <1>3, <1>4
  <2>2. UNION {Bits(cr0_t, f) : f \in DOMAIN v} = {1, 2, 3}
    BY <1>1, <1>3
  <2> QED BY <2>1, <2>2
<1>6. Set(cr0_t, word, v) = (word \ UNION {Bits(cr0_t, f) : f \in DOMAIN v})
                            \cup UNION {On(f) : f \in DOMAIN v}
  BY DEF Set
<1>7. Set(cr0_t, word, v) = (word \ {1, 2, 3}) \cup {1}
  <2> HIDE DEF On
  <2> QED BY <1>5, <1>6
<1> QED BY <1>7 DEF v

\* cr4 after the SSE part.
LEMMA SseWord ==
  ASSUME NEW word
  PROVE  Set(cr4_t, word, [osfxsr |-> 1, osxmmexcpt |-> 1]) = (word \ {9, 10}) \cup {9, 10}
<1> DEFINE v == [osfxsr |-> 1, osxmmexcpt |-> 1]
           On(f) == {b \in Bits(cr4_t, f) : (v[f] \div 2 ^ (b - Bit(cr4_t, f))) % 2 = 1}
<1>1. /\ Bits(cr4_t, "osfxsr") = {9} /\ Bit(cr4_t, "osfxsr") = 9
      /\ Bits(cr4_t, "osxmmexcpt") = {10} /\ Bit(cr4_t, "osxmmexcpt") = 10
  BY ControlBits
<1>2. 9 - 9 = 0 /\ 10 - 10 = 0 /\ 2 ^ 0 = 1 /\ (1 \div 1) % 2 = 1
  OBVIOUS
<1>3. DOMAIN v = {"osfxsr", "osxmmexcpt"} /\ v.osfxsr = 1 /\ v.osxmmexcpt = 1
  OBVIOUS
<1> HIDE DEF v
<1>4. On("osfxsr") = {9} /\ On("osxmmexcpt") = {10}
  BY <1>1, <1>2, <1>3, ZenonT(30)
<1>5. /\ UNION {On(f) : f \in DOMAIN v} = {9, 10}
      /\ UNION {Bits(cr4_t, f) : f \in DOMAIN v} = {9, 10}
  <2> HIDE DEF On
  <2> QED BY <1>1, <1>3, <1>4
<1>6. Set(cr4_t, word, v) = (word \ UNION {Bits(cr4_t, f) : f \in DOMAIN v})
                            \cup UNION {On(f) : f \in DOMAIN v}
  BY DEF Set
<1>7. Set(cr4_t, word, v) = (word \ {9, 10}) \cup {9, 10}
  <2> HIDE DEF On
  <2> QED BY <1>5, <1>6
<1> QED BY <1>7 DEF v

\* cr4 after osxsave is set.
LEMMA XsaveWord ==
  ASSUME NEW word
  PROVE  Set(cr4_t, word, [osxsave |-> 1]) = (word \ {15}) \cup {15}
<1> DEFINE v == [osxsave |-> 1]
           On(f) == {b \in Bits(cr4_t, f) : (v[f] \div 2 ^ (b - Bit(cr4_t, f))) % 2 = 1}
<1>1. Bits(cr4_t, "osxsave") = {15} /\ Bit(cr4_t, "osxsave") = 15
  BY ControlBits
<1>2. 15 - 15 = 0 /\ 2 ^ 0 = 1 /\ (1 \div 1) % 2 = 1
  OBVIOUS
<1>3. DOMAIN v = {"osxsave"} /\ v.osxsave = 1
  OBVIOUS
<1> HIDE DEF v
<1>4. On("osxsave") = {15}
  BY <1>1, <1>2, <1>3
<1>5. /\ UNION {On(f) : f \in DOMAIN v} = {15}
      /\ UNION {Bits(cr4_t, f) : f \in DOMAIN v} = {15}
  <2> HIDE DEF On
  <2> QED BY <1>1, <1>3, <1>4
<1>6. Set(cr4_t, word, v) = (word \ UNION {Bits(cr4_t, f) : f \in DOMAIN v})
                            \cup UNION {On(f) : f \in DOMAIN v}
  BY DEF Set
<1>7. Set(cr4_t, word, v) = (word \ {15}) \cup {15}
  <2> HIDE DEF On
  <2> QED BY <1>5, <1>6
<1> QED BY <1>7 DEF v

Fpu(reported, cr0, cr4, xcr0, fault) ==
  [reported |-> reported, cr0 |-> cr0, cr4 |-> cr4, xcr0 |-> xcr0, fault |-> fault]

\* What init_fpu has done after its x87 part.
LEMMA X87Part ==
  ASSUME NEW cpu, NEW features
  PROVE  StartX87(features, FpuAtEntry(cpu)) =
           IF "fpu" \in features
           THEN Fpu({"fpu"}, (cpu.cr0 \ {1, 2, 3}) \cup {1}, cpu.cr4, {0}, "none")
           ELSE Fpu({}, cpu.cr0, cpu.cr4, {0}, "none")
<1>1. FpuAtEntry(cpu) = Fpu({}, cpu.cr0, cpu.cr4, {0}, "none")
  BY DEF FpuAtEntry, Fpu
<1>2. CASE "fpu" \notin features
  BY <1>1, <1>2 DEF StartX87
<1>3. CASE "fpu" \in features
  <2> DEFINE w == (cpu.cr0 \ {1, 2, 3}) \cup {1}
             on == Fpu({"fpu"}, w, cpu.cr4, {0}, "none")
  <2>1. Report(FpuAtEntry(cpu), {"fpu"}) = Fpu({"fpu"}, cpu.cr0, cpu.cr4, {0}, "none")
    BY DEF FpuAtEntry, Fpu, Report
  <2>2. set_cr0(Report(FpuAtEntry(cpu), {"fpu"}), [mp |-> 1, em |-> 0, ts |-> 0]) = on
    <3>1. Set(cr0_t, cpu.cr0, [mp |-> 1, em |-> 0, ts |-> 0]) = w
      BY Cr0Word
    <3> HIDE DEF w
    <3> QED BY <2>1, <3>1 DEF set_cr0, Fpu
  <2>3. {2, 3} \cap w = {} /\ on.cr0 = w
    BY DEF Fpu
  <2> HIDE DEF w, on
  <2>4. Allowed(on, "fninit")
    BY <2>3 DEF Allowed
  <2>5. Instruction(on, "fninit") = on
    BY <2>4 DEF Instruction
  <2>6. StartX87(features, FpuAtEntry(cpu)) = on
    BY <1>3, <2>2, <2>5 DEF StartX87
  <2> QED BY <1>3, <2>6 DEF on, w
<1> QED BY <1>2, <1>3

\* And after its SSE part.
LEMMA SsePart ==
  ASSUME NEW features, NEW reported, NEW cr0, {2, 3} \cap cr0 = {}, NEW cr4, 15 \notin cr4,
         features \cap {"sse", "sse2"} # {}
  PROVE  StartSse(features, Fpu(reported, cr0, cr4, {0}, "none")) =
           Fpu(reported \cup (features \cap {"sse", "sse2"}), cr0, (cr4 \ {9, 10}) \cup {9, 10},
               {0}, "none")
<1> DEFINE w == (cr4 \ {9, 10}) \cup {9, 10}
           more == reported \cup (features \cap {"sse", "sse2"})
           on == Fpu(more, cr0, w, {0}, "none")
<1>1. Report(Fpu(reported, cr0, cr4, {0}, "none"), features \cap {"sse", "sse2"})
        = Fpu(more, cr0, cr4, {0}, "none")
  BY DEF Fpu, Report
<1>2. 15 \notin w /\ 9 \in w
  OBVIOUS
<1> HIDE DEF more
<1>3. [Fpu(more, cr0, cr4, {0}, "none") EXCEPT
         !.cr4 = Set(cr4_t, @, [osfxsr |-> 1, osxmmexcpt |-> 1])] = on
  BY SseWord, SMTT(30) DEF Fpu
<1>4. on.cr4 = w /\ on.cr0 = cr0
  BY DEF Fpu
<1> HIDE DEF w, on
<1>5. Allowed(on, "mov cr4") /\ Allowed(on, "ldmxcsr")
  BY <1>2, <1>4 DEF Allowed
<1>6. Instruction(on, "mov cr4") = on /\ Instruction(on, "ldmxcsr") = on
  BY <1>5 DEF Instruction
<1>7. set_cr4(Fpu(more, cr0, cr4, {0}, "none"), [osfxsr |-> 1, osxmmexcpt |-> 1]) = on
  BY <1>3, <1>6 DEF set_cr4
<1>8. StartSse(features, Fpu(reported, cr0, cr4, {0}, "none")) = on
  BY <1>1, <1>6, <1>7 DEF StartSse
<1> QED BY <1>8 DEF on, w, more

\* The part for AVX always faults: its bit of cr4 is a reserved one.
LEMMA AvxPart ==
  ASSUME NEW features, NEW reported, NEW cr0, NEW cr4, {"avx", "osxsave"} \subseteq features
  PROVE  LET on == StartAvx(features, Fpu(reported, cr0, cr4, {0}, "none"))
         IN on.fault = "mov cr4" /\ "avx_256" \in on.reported
<1> DEFINE more == reported \cup {"xsave", "avx_256"}
           w == (cr4 \ {15}) \cup {15}
           set == Fpu(more, cr0, w, {0}, "none")
           bad == Fpu(more, cr0, w, {0}, "mov cr4")
<1>1. Report(Fpu(reported, cr0, cr4, {0}, "none"), {"xsave", "avx_256"})
        = Fpu(more, cr0, cr4, {0}, "none")
  BY DEF Fpu, Report
<1>2. 15 \in w /\ "avx_256" \in more
  OBVIOUS
<1> HIDE DEF more
<1>3. [Fpu(more, cr0, cr4, {0}, "none") EXCEPT !.cr4 = Set(cr4_t, @, [osxsave |-> 1])] = set
  BY XsaveWord, SMTT(30) DEF Fpu
<1> HIDE DEF w
<1>4. ~Allowed(set, "mov cr4")
  BY <1>2 DEF Allowed, Fpu
<1>5. Instruction(set, "mov cr4") = bad
  BY <1>4 DEF Instruction, Fpu
<1>6. Instruction(bad, "xsetbv") = bad
  BY DEF Instruction, Fpu
<1> HIDE DEF set
<1>7. set_cr4(Fpu(more, cr0, cr4, {0}, "none"), [osxsave |-> 1]) = bad
  BY <1>3, <1>5 DEF set_cr4
<1>8. StartAvx(features, Fpu(reported, cr0, cr4, {0}, "none")) = [bad EXCEPT !.xcr0 = @ \cup {1, 2}]
  <2> HIDE DEF bad
  <2> QED BY <1>1, <1>6, <1>7 DEF StartAvx
<1> QED BY <1>2, <1>8 DEF Fpu

\* What init_fpu leaves without that part.
Ready(f) ==
  /\ f.fault \in {"none", "mov cr4"}
  /\ f.fault = "mov cr4" => "avx_256" \in f.reported
  /\ f.fault = "none" => \A feature \in f.reported : Relies(f, feature)

\* init_fpu, for every processor.
LEMMA FpuReady ==
  ASSUME NEW cpu, IsCpu(cpu) PROVE Ready(init_fpu(cpu)) /\ Ready(FpuAtEntry(cpu))
<1> DEFINE features == FpuFeatures(cpu)
           c0 == (cpu.cr0 \ {1, 2, 3}) \cup {1}
           c4 == (cpu.cr4 \ {9, 10}) \cup {9, 10}
           sse == StartSse(features, StartX87(features, FpuAtEntry(cpu)))
           all == Report(sse, features \cap Plain)
<1>1. features \subseteq {"sse3", "ssse3", "sse4_1", "sse4_2", "osxsave", "avx",
                          "fpu", "mmx", "sse", "sse2"}
  BY DEF FpuFeatures
<1>2. /\ features \cap {"sse2", "sse3", "ssse3", "sse4_1", "sse4_2"} # {} => "sse" \in features
      /\ "sse" \in features => "fpu" \in features
      /\ 15 \notin cpu.cr4
  BY DEF IsCpu
<1>3. init_fpu(cpu) = StartAvx(features, all)
  BY DEF init_fpu
<1> HIDE DEF features
<1>4. \E reported, cr0, cr4 :
        /\ all = Fpu(reported, cr0, cr4, {0}, "none")
        /\ \A f \in reported : Relies(Fpu(reported, cr0, cr4, {0}, "none"), f)
  <2>1. CASE "fpu" \notin features
    <3>1. StartX87(features, FpuAtEntry(cpu)) = Fpu({}, cpu.cr0, cpu.cr4, {0}, "none")
      BY <2>1, X87Part
    <3>2. sse = Fpu({}, cpu.cr0, cpu.cr4, {0}, "none") /\ features \cap Plain \subseteq {"mmx"}
      BY <1>2, <2>1, <3>1 DEF StartSse, Plain
    <3> DEFINE m == features \cap Plain
    <3>3. all = Fpu(m, cpu.cr0, cpu.cr4, {0}, "none")
      <4> HIDE DEF sse
      <4> QED BY <3>2 DEF Report, Fpu
    <3>4. \A f \in m : Relies(Fpu(m, cpu.cr0, cpu.cr4, {0}, "none"), f)
      BY <3>2 DEF Relies
    <3> QED BY <3>3, <3>4
  <2>2. CASE "fpu" \in features /\ "sse" \notin features
    <3>1. StartX87(features, FpuAtEntry(cpu)) = Fpu({"fpu"}, c0, cpu.cr4, {0}, "none")
      BY <2>2, X87Part
    <3>2. /\ sse = Fpu({"fpu"}, c0, cpu.cr4, {0}, "none")
          /\ features \cap Plain \subseteq {"mmx"} /\ 1 \in c0
      BY <1>2, <2>2, <3>1 DEF StartSse, Plain
    <3> DEFINE m == {"fpu"} \cup (features \cap Plain)
    <3> HIDE DEF c0
    <3>3. all = Fpu(m, c0, cpu.cr4, {0}, "none")
      <4> HIDE DEF sse
      <4> QED BY <3>2 DEF Report, Fpu
    <3>4. m \subseteq {"fpu", "mmx"} /\ Fpu(m, c0, cpu.cr4, {0}, "none").cr0 = c0
      BY <3>2 DEF Fpu
    <3>5. \A f \in m : Relies(Fpu(m, c0, cpu.cr4, {0}, "none"), f)
      <4> HIDE DEF m
      <4> QED BY <3>2, <3>4 DEF Relies
    <3> QED BY <3>3, <3>5
  <2>3. CASE "fpu" \in features /\ "sse" \in features
    <3>1. StartX87(features, FpuAtEntry(cpu)) = Fpu({"fpu"}, c0, cpu.cr4, {0}, "none")
      BY <2>3, X87Part
    <3> DEFINE r == {"fpu"} \cup (features \cap {"sse", "sse2"})
               m == r \cup (features \cap Plain)
    <3>2. {2, 3} \cap c0 = {} /\ 1 \in c0 /\ 9 \in c4 /\ features \cap {"sse", "sse2"} # {}
      BY <2>3
    <3> HIDE DEF c0
    <3>3. sse = Fpu(r, c0, c4, {0}, "none")
      BY <1>2, <3>1, <3>2, SsePart
    <3> HIDE DEF c4
    <3>4. all = Fpu(m, c0, c4, {0}, "none")
      <4> HIDE DEF sse, r
      <4> QED BY <3>3, SMTT(30) DEF Report, Fpu
    <3>5. m \subseteq {"fpu", "mmx", "sse", "sse2", "sse3", "ssse3", "sse4_1", "sse4_2"}
      BY DEF Plain
    <3>6. Fpu(m, c0, c4, {0}, "none").cr0 = c0 /\ Fpu(m, c0, c4, {0}, "none").cr4 = c4
      BY DEF Fpu
    <3>7. \A f \in m : Relies(Fpu(m, c0, c4, {0}, "none"), f)
      <4> HIDE DEF m
      <4> QED BY <3>2, <3>5, <3>6 DEF Relies
    <3> QED BY <3>4, <3>7
  <2> QED BY <2>1, <2>2, <2>3
<1>5. PICK reported, cr0, cr4 :
        /\ all = Fpu(reported, cr0, cr4, {0}, "none")
        /\ \A f \in reported : Relies(Fpu(reported, cr0, cr4, {0}, "none"), f)
  BY <1>4
<1> DEFINE a == Fpu(reported, cr0, cr4, {0}, "none")
<1>6. a.reported = reported /\ a.fault = "none"
  BY DEF Fpu
<1>7. Ready(init_fpu(cpu))
  <2>1. CASE {"avx", "osxsave"} \subseteq features
    <3>1. StartAvx(features, a).fault = "mov cr4" /\ "avx_256" \in StartAvx(features, a).reported
      BY <2>1, AvxPart
    <3> HIDE DEF a, all
    <3> QED BY <1>3, <1>5, <3>1 DEF Ready, a
  <2>2. CASE ~({"avx", "osxsave"} \subseteq features)
    <3>1. init_fpu(cpu) = a
      BY <1>3, <1>5, <2>2 DEF StartAvx
    <3> HIDE DEF a
    <3> QED BY <1>5, <1>6, <3>1 DEF Ready, a
  <2> QED BY <2>1, <2>2
<1>8. Ready(FpuAtEntry(cpu))
  BY DEF Ready, FpuAtEntry
<1> QED BY <1>7, <1>8

\* Only init_fpu touches the unit.
FpuInv == hw \in Machines /\ fpu \in {FpuAtEntry(hw.cpu), init_fpu(hw.cpu)}

\* Every step keeps the FPU ready.
LEMMA FpuStep ==
  ASSUME FpuInv, [Next]_vars PROVE FpuInv'
<1>1. hw' = hw /\ (fpu' = fpu \/ fpu' = init_fpu(hw.cpu))
  <2>1. CASE InitFpu
    BY <2>1 DEF InitFpu
  <2>2. CASE CheckCpuid \/ AskVendor \/ AskMax \/ AskMaxExtended \/ AskBrand \/ AskTsc
    BY <2>2 DEF CheckCpuid, AskVendor, AskMax, AskMaxExtended, AskBrand, AskTsc, Ask, cpuVars
  <2>3. CASE CheckMultiboot \/ (\E scan \in Scans : Walk(scan)) \/ ReadElf \/ SetupInterrupts
             \/ FindMadt
    BY <2>3 DEF CheckMultiboot, Walk, ReadElf, SetupInterrupts, FindMadt, cpuVars
  <2>4. CASE ParseEntry \/ CheckAddresses \/ InitApic \/ InitLapic
             \/ \E timer \in DOMAIN Timers : StartTimer(timer)
    BY <2>4 DEF ParseEntry, CheckAddresses, InitApic, InitLapic, StartTimer, lapicUnchanged,
                cpuVars
  <2>5. CASE CopyGdt \/ AddSegment \/ StoreBootId \/ InitIoApic \/ Wake \/ AllOrNothing
    BY <2>5 DEF CopyGdt, AddSegment, StoreBootId, InitIoApic, Wake, AllOrNothing, cpuVars
  <2>6. CASE UNCHANGED vars
    BY <2>6 DEF vars
  <2> QED BY <2>1, <2>2, <2>3, <2>4, <2>5, <2>6 DEF Next
<1> QED BY <1>1 DEF FpuInv

\* On every machine init_fpu executes no instruction that is not enabled, but
\* for the write of cr4 in its part for AVX, and every feature it reports is
\* enabled.
THEOREM FpuIsReadyThen == Spec => []FpuIsReady
<1>1. Init => FpuInv
  BY DEF Init, FpuInv
<1>2. FpuInv => FpuIsReady
  BY CpuOf, FpuReady DEF FpuInv, FpuIsReady, Ready
<1> QED BY <1>1, <1>2, FpuStep, PTL DEF Spec

-----------------------------------------------------------------------------
(* The segments                                                             *)

\* The places of a descriptor's fields.
LEMMA PowersOfTwo ==
  /\ 2^4 = 16 /\ 2^8 = 256 /\ 2^16 = 65536 /\ 2^24 = 16777216 /\ 2^30 = 1073741824
BY SMT

Parts(x, low, middle, high) ==
  low = x % 65536 /\ middle = (x \div 65536) % 256 /\ high = x \div 16777216

\* A base put together from the parts it was taken apart into.
LEMMA BaseParts ==
  ASSUME NEW x \in Nat, NEW low, NEW middle, NEW high, Parts(x, low, middle, high)
  PROVE  x = high * 16777216 + middle * 65536 + low
<1>0. PICK q : q = x \div 65536
  BY SMT
<1>1. q \in Nat /\ low \in Nat /\ x = 65536 * q + low
  BY <1>0, SMT DEF Parts
<1>2. high = q \div 256 /\ middle = q % 256
  BY <1>0, SMT DEF Parts
<1>3. high \in Nat /\ middle \in Nat /\ q = 256 * high + middle
  BY <1>1, <1>2, SMT
<1> QED BY <1>1, <1>3, SMT

\* The parts of a base make the base.
LEMMA BaseOf ==
  ASSUME NEW x \in Nat, NEW l
  PROVE  Base(Descriptor(x, l)) = x
<1> DEFINE d == Descriptor(x, l)
<1>1. /\ d.base_low = x % 2^16 /\ d.base_middle = (x \div 2^16) % 2^8
      /\ d.base_high = x \div 2^24
  BY SMT DEF Descriptor
<1> HIDE DEF d
<1>2. Parts(x, d.base_low, d.base_middle, d.base_high)
  BY <1>1, PowersOfTwo, SMT DEF Parts
<1>3. Base(d) = d.base_high * 16777216 + d.base_middle * 65536 + d.base_low
  BY PowersOfTwo, SMT DEF Base
<1>4. x = d.base_high * 16777216 + d.base_middle * 65536 + d.base_low
  BY <1>2, BaseParts, SMT
<1> QED BY <1>3, <1>4, SMT DEF d

\* A core's segment is four bytes long.
LEMMA LimitOfGs ==
  ASSUME NEW c PROVE Limit(GsOf(c)) = 3
<1>1. 3 % 65536 = 3 /\ 3 \div 65536 = 0 /\ 0 % 16 = 0 /\ 4 - 1 = 3
  BY SMT
<1>2. Limit(GsOf(c)) = ((3 \div 65536) % 16) * 65536 + (3 % 65536)
  BY <1>1, PowersOfTwo, SMT DEF Limit, GsOf, Descriptor
<1> QED BY <1>1, <1>2, SMT

\* The table with n entries.
Table(n) == [i \in 1..n |-> IF i <= OldEntries THEN Flat ELSE NextSegment(i - 1)]

\* All cores' segments are in it: the table has room for them only when the
\* loader's has four entries.
Complete == OldEntries = 4 /\ gdt = Table(4 + 2 * MaxCores)

\* The cell where a core keeps its number, and the selector that leads to it.
CellOf(c) == Area + 8 * c + (IF c = hw.boot THEN 4 ELSE 0)
SelectorOf(c) == IF c = hw.boot THEN BootCoreFs(c) ELSE CoreFs(c)

\* The selectors of a core lead to its own segments and its own cell.
LEMMA SegmentOf ==
  ASSUME Complete, NEW c \in Cores
  PROVE  /\ Segment(gdt, BootCoreFs(c)) = GsOf(c) /\ Segment(gdt, CoreFs(c)) = FsOf(c)
         /\ Base(Segment(gdt, SelectorOf(c))) = CellOf(c)
<1>0. c \in Nat /\ c < MaxCores /\ MaxCores \in Nat /\ Area \in Nat
  BY GdtAssumption, PowersOfTwo, SMT DEF Cores
<1>1. /\ BootCoreFs(c) + 1 = 6 + 2 * c /\ CoreFs(c) + 1 = 5 + 2 * c
      /\ 6 + 2 * c \in 1..4 + 2 * MaxCores /\ 5 + 2 * c \in 1..4 + 2 * MaxCores
      /\ ~(6 + 2 * c <= 4) /\ ~(5 + 2 * c <= 4)
  BY <1>0 DEF BootCoreFs, CoreFs, Selector
<1>2. NextSegment((6 + 2 * c) - 1) = GsOf(c)
  <2>1. ((6 + 2 * c) - 1) - 4 = 2 * c + 1
    BY <1>0
  <2>2. (2 * c + 1) % 2 = 1 /\ (2 * c + 1) \div 2 = c
    BY <1>0, Z3
  <2> QED BY <2>1, <2>2 DEF NextSegment, Complete
<1>3. NextSegment((5 + 2 * c) - 1) = FsOf(c)
  <2>1. ((5 + 2 * c) - 1) - 4 = 2 * c
    BY <1>0
  <2>2. (2 * c) % 2 = 0 /\ (2 * c) \div 2 = c
    BY <1>0, Z3
  <2> QED BY <2>1, <2>2 DEF NextSegment, Complete
<1>4. /\ gdt[6 + 2 * c] = NextSegment((6 + 2 * c) - 1)
      /\ gdt[5 + 2 * c] = NextSegment((5 + 2 * c) - 1)
  BY <1>1 DEF Complete, Table
<1>5. Segment(gdt, BootCoreFs(c)) = GsOf(c) /\ Segment(gdt, CoreFs(c)) = FsOf(c)
  BY <1>1, <1>2, <1>3, <1>4 DEF Segment
<1>6. Base(GsOf(c)) = Area + 8 * c + 4 /\ Base(FsOf(c)) = Area + 8 * c
  <2>1. Area + 8 * c + 4 \in Nat /\ Area + 8 * c \in Nat
    BY <1>0
  <2> QED BY <2>1, BaseOf DEF GsOf, FsOf
<1>7. Base(Segment(gdt, SelectorOf(c))) = CellOf(c)
  <2>1. CASE c = hw.boot
    BY <1>5, <1>6, <2>1 DEF SelectorOf, CellOf
  <2>2. CASE c # hw.boot
    <3>1. Area + 8 * c + 0 = Area + 8 * c
      BY <1>0
    <3> QED BY <1>5, <1>6, <2>2, <3>1 DEF SelectorOf, CellOf
  <2> QED BY <2>1, <2>2
<1> QED BY <1>5, <1>7

\* A store of four bytes at one core's cell leaves the other cores' alone.
LEMMA StoreOwn ==
  ASSUME NEW c \in Cores, NEW d \in Cores, NEW segment, Base(segment) = CellOf(c), NEW old
  PROVE  StoreId(old, segment, c)[CellOf(d)] = IF d = c THEN c ELSE old[CellOf(d)]
<1>0. /\ c \in Nat /\ d \in Nat /\ d < MaxCores /\ MaxCores \in Nat /\ Area \in Nat
  BY GdtAssumption, PowersOfTwo, SMT DEF Cores
<1>1. /\ CellOf(d) \in Nat /\ CellOf(c) \in Nat
      /\ CellOf(d) \in AreaBytes
  BY <1>0 DEF CellOf, AreaBytes
<1>2. d # c => CellOf(d) \notin CellOf(c) .. CellOf(c) + 3
  BY <1>0 DEF CellOf
<1>3. StoreId(old, segment, c)[CellOf(d)] =
        IF CellOf(d) = CellOf(c) THEN c
        ELSE IF CellOf(d) \in CellOf(c) + 1 .. CellOf(c) + 3 THEN 0 ELSE old[CellOf(d)]
  BY <1>1 DEF StoreId
<1>4. CASE d = c
  BY <1>3, <1>4
<1>5. CASE d # c
  <2>1. CellOf(d) # CellOf(c) /\ CellOf(d) \notin CellOf(c) + 1 .. CellOf(c) + 3
    BY <1>1, <1>2, <1>5
  <2> QED BY <1>3, <1>5, <2>1
<1> QED BY <1>4, <1>5

-----------------------------------------------------------------------------
(* Every core reads its own number                                          *)

\* Where the kernel is before the boot core loads its selectors.
Early == {"cpuid", "vendor", "max", "max_extended", "brand", "fpu", "magic", "framebuffer",
          "rsdp", "module", "elf", "interrupts", "apic", "madt", "addresses", "init_apic",
          "init_lapic", "gdt", "segments", "selectors"}

\* And where it is from there on.
Later == {"ioapic", "tsc", "sync divide", "sync lvt", "sync count", "wake", "main divide",
          "main lvt", "main count", "done"}

\* What the MADT's walk has kept are entries of the MADT, each under its type.
ParsedInv ==
  /\ parsed \in [EntryTypes -> Seq(ToSet(hw.madt))]
  /\ \A t \in EntryTypes : \A i \in DOMAIN parsed[t] : parsed[t][i].type = t

\* The table while the segments are added, and when they are.
TableInv ==
  /\ pc = "segments" => \E n \in OldEntries..NewEntries : gdt = Table(n)
  /\ pc \in Later \cup {"selectors"} => Complete

\* A core with a selector has its own, and its number in its cell.
StoredInv ==
  /\ fs \in [Cores -> Nat]
  /\ pc \in Early => \A c \in Cores : fs[c] = NoSelector
  /\ \A c \in Cores : fs[c] # NoSelector =>
       /\ Complete /\ fs[c] = SelectorOf(c)
       /\ pc # "reset" => cells[CellOf(c)] = c

IdsInv ==
  /\ hw \in Machines /\ index \in Nat \ {0} /\ pc # "faulted"
  /\ ParsedInv /\ TableInv /\ StoredInv

\* The identifiers in the MADT are indices of the kernel's arrays.
LEMMA ListedCores ==
  ASSUME hw \in Machines, ParsedInv
  PROVE  /\ Len(parsed["lapic"]) \in Nat /\ DOMAIN parsed["lapic"] = 1..Len(parsed["lapic"])
         /\ \A i \in 1..Len(parsed["lapic"]) : parsed["lapic"][i].id \in Cores
<1>1. parsed["lapic"] \in Seq(ToSet(hw.madt))
  BY DEF ParsedInv, EntryTypes
<1>2. /\ Len(parsed["lapic"]) \in Nat /\ DOMAIN parsed["lapic"] = 1..Len(parsed["lapic"])
      /\ \A i \in 1..Len(parsed["lapic"]) : parsed["lapic"][i] \in ToSet(hw.madt)
  BY <1>1, ElementOfSeq
<1>3. \A e \in ToSet(hw.madt) : e.type = "lapic" => e.id \in Cores
  BY CpuOf DEF IsMadt, ToSet
<1> QED BY <1>2, <1>3 DEF ParsedInv, EntryTypes

\* The steps that have no part in it.
Quiet ==
  /\ UNCHANGED <<hw, parsed, gdt, fs, cells, index>>
  /\ pc' \in Early => pc \in Early
  /\ pc' \in Later => pc \in Later
  /\ pc' \notin {"segments", "selectors", "reset", "faulted"} /\ pc # "reset"

\* The steps that touch neither identifiers nor segments.
LEMMA QuietSteps ==
  ASSUME Next, ~ParseEntry, ~CopyGdt, ~AddSegment, ~StoreBootId, ~Wake
  PROVE  Quiet
<1> USE DEF Quiet, Early, Later, coreVars, cpuVars, tableVars, irqVars, GoOn, Goto
<1>1. CASE CheckCpuid \/ AskVendor \/ AskMax \/ AskMaxExtended
  BY <1>1 DEF CheckCpuid, AskVendor, AskMax, AskMaxExtended, Ask
<1>2. CASE AskBrand \/ InitFpu
  <2>1. /\ UNCHANGED <<hw, parsed, gdt, fs, cells, index>>
        /\ pc \in {"brand", "fpu"} /\ pc' \in {"brand", "fpu", "fpu fault", "magic", "aborted"}
    BY <1>2 DEF AskBrand, InitFpu
  <2> QED BY <2>1
<1>3. CASE CheckMultiboot \/ ReadElf \/ SetupInterrupts \/ FindMadt
  <2>1. /\ UNCHANGED <<hw, parsed, gdt, fs, cells, index>>
        /\ pc \in {"magic", "elf", "interrupts", "apic"}
        /\ pc' \in {"framebuffer", "interrupts", "apic", "aborted", "wild", "madt"}
    BY <1>3 DEF CheckMultiboot, ReadElf, SetupInterrupts, FindMadt
  <2> QED BY <2>1
<1>4. CASE \E scan \in Scans : Walk(scan)
  <2>1. /\ UNCHANGED <<hw, parsed, gdt, fs, cells, index>>
        /\ pc \in {"framebuffer", "rsdp", "module"}
        /\ pc' \in {"framebuffer", "rsdp", "module", "elf", "wild", "aborted"}
    BY <1>4 DEF Walk, NothingFound, AfterScan, Scans
  <2> QED BY <2>1
<1>5. CASE CheckAddresses \/ InitApic \/ InitLapic
  <2>1. /\ UNCHANGED <<hw, parsed, gdt, fs, cells, index>>
        /\ pc \in {"addresses", "init_apic", "init_lapic"}
        /\ pc' \in {"aborted", "wild", "init_apic", "init_lapic", "gdt"}
    BY <1>5 DEF CheckAddresses, InitApic, InitLapic, lapicUnchanged
  <2> QED BY <2>1
<1>6. CASE InitIoApic \/ AskTsc \/ AllOrNothing
  <2>1. /\ UNCHANGED <<hw, parsed, gdt, fs, cells, index>>
        /\ pc \in {"ioapic", "tsc", "wake"}
        /\ pc' \in {"aborted", "overrun", "tsc", "sync divide", "main divide"}
    BY <1>6 DEF InitIoApic, AskTsc, AllOrNothing, Ask
  <2> QED BY <2>1
<1>7. CASE \E timer \in DOMAIN Timers : StartTimer(timer)
  <2>1. UNCHANGED <<hw, parsed, gdt, fs, cells, index>>
    BY <1>7 DEF StartTimer, lapicUnchanged
  <2>2. /\ pc \in {"sync divide", "sync lvt", "sync count",
                    "main divide", "main lvt", "main count"}
        /\ pc' \in {"sync lvt", "sync count", "wake", "main lvt", "main count", "done"}
    BY <1>7, TimerPlaces
  <2> QED BY <2>1, <2>2
<1> QED BY <1>1, <1>2, <1>3, <1>4, <1>5, <1>6, <1>7 DEF Next

\* Such a step keeps the invariant of the identifiers.
LEMMA QuietIds ==
  ASSUME IdsInv, Quiet PROVE IdsInv'
<1> USE DEF IdsInv, Quiet
<1>1. hw' \in Machines /\ index' \in Nat \ {0} /\ pc' # "faulted" /\ ParsedInv'
  BY DEF ParsedInv
<1>2. Complete' = Complete
  BY DEF Complete
<1>3. TableInv'
  BY <1>2 DEF TableInv
<1>4. \A c : SelectorOf(c)' = SelectorOf(c) /\ CellOf(c)' = CellOf(c)
  BY DEF SelectorOf, CellOf
<1>5. StoredInv'
  BY <1>2, <1>4 DEF StoredInv, Early
<1> QED BY <1>1, <1>3, <1>5

\* An entry of the MADT is recorded.
LEMMA ParseKeeps ==
  ASSUME hw \in Machines, ParsedInv, ParseEntry PROVE ParsedInv' /\ hw' = hw
<1>1. hw' = hw
  BY DEF ParseEntry
<1>2. CASE parsed' = parsed
  BY <1>1, <1>2 DEF ParsedInv
<1>3. CASE parsed' # parsed
  <2>1. PICK e \in EntryAt(hw.madt, at) : parsed' = Record(parsed, e)
    BY <1>3 DEF ParseEntry
  <2>2. e \in ToSet(hw.madt)
    BY DEF EntryAt, ToSet
  <2>3. e.type \in EntryTypes /\ parsed' = [parsed EXCEPT ![e.type] = Append(@, e)]
    BY <1>3, <2>1 DEF Record
  <2>4. \A t \in EntryTypes : parsed[t] \in Seq(ToSet(hw.madt))
    BY DEF ParsedInv
  <2>5. parsed' \in [EntryTypes -> Seq(ToSet(hw.madt))]
    <3>1. Append(parsed[e.type], e) \in Seq(ToSet(hw.madt))
      BY <2>2, <2>3, <2>4
    <3> QED BY <2>3, <3>1 DEF ParsedInv
  <2>6. ASSUME NEW t \in EntryTypes, NEW i \in DOMAIN parsed'[t] PROVE parsed'[t][i].type = t
    <3>1. CASE e.type = t
      <4>1. parsed'[t] = Append(parsed[t], e)
        BY <2>3, <3>1 DEF ParsedInv
      <4>2. parsed[t] \in Seq(ToSet(hw.madt))
        BY <2>4
      <4>3. \A k \in DOMAIN Append(parsed[t], e) :
              \/ k \in DOMAIN parsed[t] /\ Append(parsed[t], e)[k] = parsed[t][k]
              \/ Append(parsed[t], e)[k] = e
        BY <2>2, <4>2
      <4> QED BY <2>6, <3>1, <4>1, <4>3 DEF ParsedInv
    <3>2. CASE e.type # t
      <4>1. parsed'[t] = parsed[t]
        BY <2>3, <3>2 DEF ParsedInv
      <4> QED BY <2>6, <4>1 DEF ParsedInv
    <3> QED BY <3>1, <3>2
  <2> QED BY <1>1, <2>5, <2>6 DEF ParsedInv
<1> QED BY <1>1, <1>2, <1>3

\* The table is copied.
LEMMA CopyIds ==
  ASSUME IdsInv, CopyGdt PROVE IdsInv'
<1> USE DEF IdsInv
<1>1. pc = "gdt" /\ pc' \in {"segments", "aborted"} /\ UNCHANGED <<hw, parsed, fs, cells, index>>
  BY DEF CopyGdt, GoOn, Goto, tableVars
<1>2. \A c \in Cores : fs[c] = NoSelector
  BY <1>1 DEF StoredInv, Early
<1>3. ParsedInv'
  BY <1>1 DEF ParsedInv
<1>4. TableInv'
  <2>1. pc' = "segments" => CopyFits /\ gdt' = init_new_gdt
    BY DEF CopyGdt, GoOn, Goto
  <2>2. OldEntries \in Nat /\ MaxCores \in Nat
    BY GdtAssumption
  <2>3. init_new_gdt = Table(OldEntries)
    BY <2>2 DEF init_new_gdt, Table
  <2>4. CopyFits => OldEntries \in OldEntries..NewEntries
    BY <2>2 DEF CopyFits, NewEntries
  <2>5. pc' = "segments" => \E n \in OldEntries..NewEntries : gdt' = Table(n)
    BY <2>1, <2>3, <2>4
  <2> QED BY <1>1, <2>5 DEF TableInv, Later
<1>5. StoredInv'
  BY <1>1, <1>2 DEF StoredInv
<1> QED BY <1>1, <1>3, <1>4, <1>5

\* A segment is added at the table's end.
LEMMA AddIds ==
  ASSUME IdsInv, AddSegment PROVE IdsInv'
<1> USE DEF IdsInv
<1>1. /\ pc = "segments" /\ pc' \in {"segments", "selectors", "aborted"}
      /\ UNCHANGED <<hw, parsed, fs, cells, index>>
  BY DEF AddSegment, GoOn, Goto, tableVars
<1>2. \A c \in Cores : fs[c] = NoSelector
  BY <1>1 DEF StoredInv, Early
<1>3. ParsedInv'
  BY <1>1 DEF ParsedInv
<1>4. PICK n \in OldEntries..NewEntries : gdt = Table(n)
  BY <1>1 DEF TableInv
<1>5. /\ OldEntries \in Nat /\ OldEntries >= 4 /\ MaxCores \in Nat /\ n \in Nat
      /\ NewEntries = 4 + 2 * MaxCores
  BY GdtAssumption DEF NewEntries
<1>6. Len(gdt) = n
  BY <1>4, <1>5 DEF Table
<1>7. ASSUME pc' = "segments" PROVE \E m \in OldEntries..NewEntries : gdt' = Table(m)
  <2>1. n < NewEntries /\ gdt' = Append(gdt, NextSegment(n))
    BY <1>1, <1>6, <1>7 DEF AddSegment, GoOn, Goto, EntryFits
  <2>2. Append(Table(n), NextSegment(n)) = Table(n + 1)
    <3>1. Append(Table(n), NextSegment(n)) =
            [i \in 1..n + 1 |-> IF i = n + 1 THEN NextSegment(n) ELSE Table(n)[i]]
      BY <1>5 DEF Table
    <3>2. \A i \in 1..n + 1 :
            (IF i = n + 1 THEN NextSegment(n) ELSE Table(n)[i])
            = IF i <= OldEntries THEN Flat ELSE NextSegment(i - 1)
      BY <1>5 DEF Table
    <3> QED BY <3>1, <3>2 DEF Table
  <2>3. n + 1 \in OldEntries..NewEntries
    BY <1>5, <2>1
  <2> QED BY <1>4, <2>1, <2>2, <2>3
<1>8. ASSUME pc' = "selectors" PROVE Complete'
  <2>1. n = OldEntries + 2 * MaxCores /\ gdt' = gdt
    BY <1>1, <1>6, <1>8 DEF AddSegment, GoOn, Goto, AllAdded
  <2>2. OldEntries = 4 /\ n = 4 + 2 * MaxCores
    BY <1>5, <2>1
  <2> QED BY <1>4, <2>1, <2>2 DEF Complete
<1>9. TableInv'
  BY <1>1, <1>7, <1>8 DEF TableInv, Later
<1>10. StoredInv'
  BY <1>1, <1>2 DEF StoredInv
<1> QED BY <1>1, <1>3, <1>9, <1>10

\* A core that has just stored its number, the others as they were.
LEMMA StoreIds ==
  ASSUME StoredInv, Complete, NEW c \in Cores, hw' = hw, gdt' = gdt, pc # "reset",
         pc' \notin Early,
         fs' = [fs EXCEPT ![c] = SelectorOf(c)],
         \/ pc' = "reset"
         \/ cells' = StoreId(cells, Segment(gdt, SelectorOf(c)), c)
  PROVE  StoredInv'
<1>1. Complete' /\ \A d : SelectorOf(d)' = SelectorOf(d) /\ CellOf(d)' = CellOf(d)
  BY DEF Complete, SelectorOf, CellOf
<1>2. SelectorOf(c) \in Nat
  BY GdtAssumption DEF Cores, SelectorOf, BootCoreFs, CoreFs, Selector
<1>3. fs' \in [Cores -> Nat]
  BY <1>2 DEF StoredInv
<1>4. ASSUME NEW d \in Cores, fs'[d] # NoSelector
      PROVE  fs'[d] = SelectorOf(d) /\ (pc' # "reset" => cells'[CellOf(d)] = d)
  <2>1. pc' # "reset" => cells'[CellOf(d)] = IF d = c THEN c ELSE cells[CellOf(d)]
    BY SegmentOf, StoreOwn
  <2>2. CASE d = c
    BY <2>1, <2>2 DEF StoredInv
  <2>3. CASE d # c
    <3>1. fs'[d] = fs[d]
      BY <2>3 DEF StoredInv
    <3> QED BY <1>4, <2>1, <2>3, <3>1 DEF StoredInv
  <2> QED BY <2>2, <2>3
<1> QED BY <1>1, <1>3, <1>4 DEF StoredInv

\* The boot core stores its number.
LEMMA BootIds ==
  ASSUME IdsInv, StoreBootId PROVE IdsInv'
<1> USE DEF IdsInv
<1>1. /\ pc = "selectors" /\ UNCHANGED <<hw, parsed, gdt, index>>
      /\ fs' = [fs EXCEPT ![hw.boot] = BootCoreFs(hw.boot)]
  BY DEF StoreBootId, tableVars
<1>2. Complete /\ hw.boot \in Cores
  BY <1>1, CpuOf DEF TableInv
<1> DEFINE segment == Segment(gdt, BootCoreFs(hw.boot))
<1>3. segment = GsOf(hw.boot) /\ SelectorOf(hw.boot) = BootCoreFs(hw.boot)
  BY <1>2, SegmentOf DEF SelectorOf
<1>4. StoreFits(segment)
  <2>1. Limit(GsOf(hw.boot)) = 3
    BY LimitOfGs
  <2> QED BY <1>3, <2>1 DEF StoreFits
<1>5. cells' = StoreId(cells, segment, hw.boot) /\ pc' \in {"ioapic", "aborted"}
  BY <1>4 DEF StoreBootId, GoOn, Goto
<1>6. StoredInv'
  <2>1. pc # "reset" /\ pc' \notin Early
    BY <1>1, <1>5 DEF Early
  <2>2. fs' = [fs EXCEPT ![hw.boot] = SelectorOf(hw.boot)]
    BY <1>1, <1>3
  <2>3. cells' = StoreId(cells, Segment(gdt, SelectorOf(hw.boot)), hw.boot)
    BY <1>3, <1>5
  <2> QED BY <1>1, <1>2, <2>1, <2>2, <2>3, StoreIds
<1>7. ParsedInv'
  BY <1>1 DEF ParsedInv
<1>8. TableInv'
  BY <1>1, <1>2, <1>5 DEF TableInv, Complete
<1> QED BY <1>1, <1>5, <1>6, <1>7, <1>8

\* A core is woken and stores its number.
LEMMA WakeIds ==
  ASSUME IdsInv, Wake PROVE IdsInv'
<1> USE DEF IdsInv
<1> DEFINE c == Woken.id
           wakes == c # hw.boot /\ Woken.enabled
<1>1. /\ pc = "wake" /\ index <= Len(parsed["lapic"]) /\ index' = index + 1
      /\ UNCHANGED <<hw, parsed, gdt>> /\ pc' \in {"wake", "reset"}
  BY DEF Wake, Goto, tableVars
<1>2. Complete
  BY <1>1 DEF TableInv, Later
<1>3. c \in Cores
  <2>1. index \in 1..Len(parsed["lapic"])
    BY <1>1, ListedCores
  <2> QED BY <2>1, ListedCores DEF Woken
<1>4. StoredInv'
  <2>1. CASE wakes
    <3>1. fs' = [fs EXCEPT ![c] = CoreFs(c)] /\ SelectorOf(c) = CoreFs(c)
      BY <2>1 DEF Wake, SelectorOf
    <3>2. pc' = "reset" \/ cells' = StoreId(cells, Segment(gdt, CoreFs(c)), c)
      BY <2>1 DEF Wake, Goto
    <3>3. pc # "reset" /\ pc' \notin Early
      BY <1>1 DEF Early
    <3> HIDE DEF c
    <3> QED BY <1>1, <1>2, <1>3, <3>1, <3>2, <3>3, StoreIds
  <2>2. CASE ~wakes
    <3>1. fs' = fs /\ cells' = cells /\ pc' = pc
      BY <2>2 DEF Wake
    <3> QED BY <1>1, <3>1 DEF StoredInv, Complete, SelectorOf, CellOf
  <2> QED BY <2>1, <2>2
<1>5. ParsedInv'
  BY <1>1 DEF ParsedInv
<1>6. TableInv'
  BY <1>1, <1>2 DEF TableInv, Complete
<1>7. index' \in Nat \ {0} /\ pc' # "faulted" /\ hw' \in Machines
  BY <1>1
<1> QED BY <1>4, <1>5, <1>6, <1>7

\* Every step keeps the invariant of the identifiers.
LEMMA IdsStep ==
  ASSUME IdsInv, [Next]_vars PROVE IdsInv'
<1>1. CASE ParseEntry
  <2>1. /\ ParsedInv' /\ hw' = hw /\ UNCHANGED <<gdt, fs, cells, index>>
        /\ pc = "madt" /\ pc' \in {"madt", "addresses", "wild", "overrun"}
    BY <1>1, ParseKeeps DEF IdsInv, ParseEntry, Goto, coreVars
  <2>2. Complete' = Complete /\ \A c : SelectorOf(c)' = SelectorOf(c) /\ CellOf(c)' = CellOf(c)
    BY <2>1 DEF Complete, SelectorOf, CellOf
  <2>3. TableInv' /\ StoredInv'
    BY <2>1, <2>2 DEF IdsInv, TableInv, StoredInv, Early, Later
  <2> QED BY <2>1, <2>3 DEF IdsInv
<1>2. CASE CopyGdt \/ AddSegment \/ StoreBootId \/ Wake
  BY <1>2, CopyIds, AddIds, BootIds, WakeIds
<1>3. CASE UNCHANGED vars
  BY <1>3 DEF vars, IdsInv, ParsedInv, TableInv, StoredInv, Complete, SelectorOf, CellOf
<1>4. CASE Next /\ ~ParseEntry /\ ~CopyGdt /\ ~AddSegment /\ ~StoreBootId /\ ~Wake
  BY <1>4, QuietSteps, QuietIds
<1> QED BY <1>1, <1>2, <1>3, <1>4

\* Whatever the MADT lists and in whichever order the cores are woken, a core
\* that has stored its number reads its own, and the boot core's store is
\* inside its segment.
THEOREM IdsAreOwn == Spec => []FastIdIsOwn
<1>1. Init => IdsInv
  <2> SUFFICES ASSUME Init PROVE IdsInv
    OBVIOUS
  <2>1. hw \in Machines /\ index \in Nat \ {0} /\ pc = "cpuid"
    BY DEF Init
  <2>2. ParsedInv
    BY DEF Init, ParsedInv, NothingParsed, EntryTypes
  <2>3. TableInv
    BY <2>1 DEF TableInv, Later
  <2>4. StoredInv
    BY DEF Init, StoredInv, NoSelector
  <2> QED BY <2>1, <2>2, <2>3, <2>4 DEF IdsInv
<1>2. IdsInv => FastIdIsOwn
  <2> SUFFICES ASSUME IdsInv PROVE FastIdIsOwn
    OBVIOUS
  <2>1. \A e \in ToSet(parsed["lapic"]) : e.id \in Cores
    BY ListedCores DEF IdsInv, ToSet
  <2>2. ASSUME NEW c \in Cores, fs[c] # NoSelector, pc # "reset"
        PROVE  ReadId(cells, Segment(gdt, fs[c])) = c
    <3>1. Complete /\ fs[c] = SelectorOf(c) /\ cells[CellOf(c)] = c
      BY <2>2 DEF IdsInv, StoredInv
    <3>2. Base(Segment(gdt, fs[c])) = CellOf(c)
      BY <3>1, SegmentOf
    <3> QED BY <3>1, <3>2 DEF ReadId
  <2> QED BY <2>1, <2>2 DEF FastIdIsOwn, IdsInv
<1> QED BY <1>1, <1>2, IdsStep, PTL DEF Spec

-----------------------------------------------------------------------------
(* Chains: the addresses of elements that state their own size              *)

\* The fold that adds up w, and a function that adds it up step by step.
Adds(f, n, w) ==
  f = [s \in SUBSET (1..n) |-> IF s = {} THEN 0 ELSE f[s \ {Max(s)}] + w[Max(s)]]
Running(g, n, w) ==
  /\ n \in Nat /\ w \in [1..n -> Nat]
  /\ g[0] = 0 /\ \A k \in 1..n : g[k] = g[k - 1] + w[k]

\* A sum over the sets of 1..n exists.
LEMMA AddsExists ==
  ASSUME NEW n \in Nat, NEW w \in [1..n -> Nat]
  PROVE  \E f \in [SUBSET (1..n) -> Nat] : Adds(f, n, w)
<1> DEFINE step == [p \in (1..n) \X Nat |-> p[2] + w[p[1]]]
<1>1. step \in [(1..n) \X Nat -> Nat]
  OBVIOUS
<1> HIDE DEF step
<1>2. PICK f \in [SUBSET (1..n) -> Nat] : Folds(f, n, Nat, 0, step)
  BY <1>1, FoldExists
<1>3. ASSUME NEW s \in SUBSET (1..n), s # {}
      PROVE  step[<<Max(s), f[s \ {Max(s)}]>>] = f[s \ {Max(s)}] + w[Max(s)]
  <2>1. Max(s) \in 1..n /\ f[s \ {Max(s)}] \in Nat
    BY <1>3, LargestIn
  <2> QED BY <2>1 DEF step
<1>4. Adds(f, n, w)
  BY <1>2, <1>3 DEF Folds, Adds
<1> QED BY <1>4

\* The sum up to k is the sum up to k - 1 and the k-th weight.
LEMMA AddsNext ==
  ASSUME NEW n \in Nat, NEW w, NEW f, Adds(f, n, w)
  PROVE  f[{}] = 0 /\ \A k \in 1..n : f[1..k] = f[1..k - 1] + w[k]
<1>1. f[{}] = 0
  BY DEF Adds
<1>2. ASSUME NEW k \in 1..n PROVE f[1..k] = f[1..k - 1] + w[k]
  <2>1. /\ 1..k \in SUBSET (1..n) /\ 1..k # {} /\ Max(1..k) = k
        /\ (1..k) \ {k} = 1..k - 1
    BY InitialPart
  <2>2. \A s \in SUBSET (1..n) : s # {} => f[s] = f[s \ {Max(s)}] + w[Max(s)]
    BY DEF Adds
  <2> QED BY <2>1, <2>2
<1> QED BY <1>1, <1>2

\* The sum of all weights is the last of the running sums.
LEMMA AddsUp ==
  ASSUME NEW n, NEW w, NEW f, NEW g, Adds(f, n, w), Running(g, n, w)
  PROVE  f[1..n] = g[n]
<1>0. n \in Nat
  BY DEF Running
<1>1. f[{}] = 0 /\ \A k \in 1..n : f[1..k] = f[1..k - 1] + w[k]
  BY <1>0, AddsNext
<1> DEFINE Good == {k \in Nat : k <= n => f[1..k] = g[k]}
<1>2. 0 \in Good
  <2>1. 1..0 = {}
    OBVIOUS
  <2> QED BY <1>1, <2>1 DEF Running
<1>3. ASSUME NEW k \in Nat, k \in Good PROVE k + 1 \in Good
  <2> SUFFICES ASSUME k + 1 <= n PROVE f[1..k + 1] = g[k + 1]
    OBVIOUS
  <2>1. k + 1 \in 1..n /\ (k + 1) - 1 = k
    BY <1>0
  <2>2. f[1..k] = g[k]
    BY <1>0, <1>3
  <2> QED BY <1>1, <2>1, <2>2 DEF Running
<1>4. n \in Good
  <2> HIDE DEF Good
  <2> QED BY <1>0, <1>2, <1>3, NumberInduction
<1> QED BY <1>4

\* Such a function exists, and starts over for every initial part.
LEMMA RunningExists ==
  ASSUME NEW n \in Nat, NEW w \in [1..n -> Nat]
  PROVE  \E g \in [0..n -> Nat] : Running(g, n, w)
<1>1. PICK f \in [SUBSET (1..n) -> Nat] : Adds(f, n, w)
  BY AddsExists
<1>2. f[{}] = 0 /\ \A k \in 1..n : f[1..k] = f[1..k - 1] + w[k]
  <2>1. \A h : Adds(h, n, w) => h[{}] = 0 /\ \A k \in 1..n : h[1..k] = h[1..k - 1] + w[k]
    BY AddsNext
  <2> QED BY <1>1, <2>1, Zenon
<1> DEFINE g == [k \in 0..n |-> f[1..k]]
<1>3. g \in [0..n -> Nat]
  <2>1. \A k \in 0..n : 1..k \in SUBSET (1..n)
    OBVIOUS
  <2> QED BY <2>1
<1>4. g[0] = 0
  <2>1. 1..0 = {} /\ 0 \in 0..n
    OBVIOUS
  <2> QED BY <1>2, <2>1
<1>5. ASSUME NEW k \in 1..n PROVE g[k] = g[k - 1] + w[k]
  <2>1. k \in 0..n /\ k - 1 \in 0..n
    OBVIOUS
  <2>2. g[k] = f[1..k] /\ g[k - 1] = f[1..k - 1]
    BY <2>1
  <2> HIDE DEF g
  <2> QED BY <1>2, <2>2
<1> HIDE DEF g
<1> QED BY <1>3, <1>4, <1>5 DEF Running

\* The running sums of a part.
LEMMA RunningPart ==
  ASSUME NEW n, NEW w, NEW g, Running(g, n, w), NEW m \in 0..n
  PROVE  Running(g, m, [i \in 1..m |-> w[i]])
BY DEF Running

\* A sequence whose neighbours increase increases.
LEMMA Increasing ==
  ASSUME NEW n \in Nat, NEW a \in [1..n -> Nat], \A i \in 1..n - 1 : a[i] < a[i + 1]
  PROVE  \A i, j \in 1..n : i < j => a[i] < a[j]
<1> DEFINE Good == {k \in Nat : \A i \in 1..n : i + k + 1 \in 1..n => a[i] < a[i + k + 1]}
<1>1. 0 \in Good
  <2>1. ASSUME NEW i \in 1..n, i + 0 + 1 \in 1..n PROVE a[i] < a[i + 0 + 1]
    <3>1. i \in 1..n - 1 /\ i + 0 + 1 = i + 1
      BY <2>1
    <3> QED BY <3>1
  <2> QED BY <2>1
<1>2. ASSUME NEW k \in Nat, k \in Good PROVE k + 1 \in Good
  <2>1. ASSUME NEW i \in 1..n, i + (k + 1) + 1 \in 1..n PROVE a[i] < a[i + (k + 1) + 1]
    <3>1. /\ i + k + 1 \in 1..n - 1 /\ i + k + 1 \in 1..n
          /\ i + (k + 1) + 1 = (i + k + 1) + 1
      BY <2>1
    <3>2. a[i] < a[i + k + 1]
      BY <1>2, <3>1
    <3>3. a[i + k + 1] < a[(i + k + 1) + 1]
      BY <3>1
    <3>4. a[i] \in Nat /\ a[i + k + 1] \in Nat /\ a[(i + k + 1) + 1] \in Nat
      BY <2>1, <3>1
    <3> QED BY <3>1, <3>2, <3>3, <3>4
  <2> QED BY <2>1
<1>3. Nat \subseteq Good
  <2> HIDE DEF Good
  <2> QED BY <1>1, <1>2, NumberInduction
<1>4. ASSUME NEW i \in 1..n, NEW j \in 1..n, i < j PROVE a[i] < a[j]
  <2>1. j - i - 1 \in Nat /\ i + (j - i - 1) + 1 = j
    BY <1>4
  <2>2. j - i - 1 \in Good
    <3> HIDE DEF Good
    <3> QED BY <1>3, <2>1
  <2> QED BY <2>1, <2>2
<1> QED BY <1>4

\* A chain: where each element is, from where the first one is and the sizes.
Chained(a, first, n, w) ==
  /\ a \in [1..n + 1 -> Nat] /\ a[1] = first
  /\ \A i \in 1..n : a[i + 1] = a[i] + w[i]
  /\ \A i, j \in 1..n + 1 : i < j => a[i] < a[j]

\* Running sums of positive weights make a chain of addresses.
LEMMA ChainOf ==
  ASSUME NEW n \in Nat, NEW w \in [1..n -> Nat \ {0}], NEW first \in Nat,
         NEW g \in [0..n -> Nat], Running(g, n, w)
  PROVE  Chained([i \in 1..n + 1 |-> first + g[i - 1]], first, n, w)
<1> DEFINE a == [i \in 1..n + 1 |-> first + g[i - 1]]
<1>1. \A i \in 1..n + 1 : i - 1 \in 0..n
  OBVIOUS
<1>2. a \in [1..n + 1 -> Nat]
  BY <1>1
<1>3. a[1] = first
  BY DEF Running
<1>4. ASSUME NEW i \in 1..n PROVE a[i + 1] = a[i] + w[i]
  <2>1. i \in 1..n + 1 /\ i + 1 \in 1..n + 1 /\ (i + 1) - 1 = i /\ i - 1 \in 0..n /\ i \in 0..n
    OBVIOUS
  <2>2. a[i] = first + g[i - 1] /\ a[i + 1] = first + g[i]
    BY <2>1
  <2>3. g[i] = g[i - 1] + w[i] /\ g[i] \in Nat /\ g[i - 1] \in Nat /\ w[i] \in Nat
    BY <2>1 DEF Running
  <2> HIDE DEF a
  <2> QED BY <2>2, <2>3
<1> HIDE DEF a
<1>5. \A i \in 1..(n + 1) - 1 : a[i] < a[i + 1]
  <2>1. (n + 1) - 1 = n
    OBVIOUS
  <2>2. ASSUME NEW i \in 1..n PROVE a[i] < a[i + 1]
    <3>1. a[i] \in Nat /\ w[i] \in Nat \ {0}
      BY <1>2
    <3> QED BY <1>4, <3>1
  <2> QED BY <2>1, <2>2
<1>6. \A i, j \in 1..n + 1 : i < j => a[i] < a[j]
  <2>1. n + 1 \in Nat
    OBVIOUS
  <2> QED BY <1>2, <1>5, <2>1, Increasing
<1>7. Chained(a, first, n, w)
  BY <1>2, <1>3, <1>4, <1>6 DEF Chained
<1> QED BY <1>7 DEF a

\* The tags before one.
TagSum(seq) == FoldLeft(LAMBDA a, t : a + RoundUp8(t.size), 0, seq)

TagSumOf(seq, n, w) == DOMAIN seq = 1..n /\ \A i \in 1..n : w[i] = RoundUp8(seq[i].size)

\* The sizes of tags add up to where the chain leads.
LEMMA TagSumIs ==
  ASSUME NEW seq, NEW n, NEW g, NEW w, TagSumOf(seq, n, w), Running(g, n, w)
  PROVE  TagSum(seq) = g[n]
<1> DEFINE Is(f) == f = [s \in SUBSET (1..n) |->
                           IF s = {} THEN 0 ELSE f[s \ {Max(s)}] + RoundUp8(seq[Max(s)].size)]
           iter == CHOOSE f : Is(f)
<1> USE DEF TagSumOf
<1>0. n \in Nat /\ w \in [1..n -> Nat]
  BY DEF Running
<1>1. ASSUME NEW f PROVE Adds(f, n, w) <=> Is(f)
  <2>1. \A s \in SUBSET (1..n) : s # {} => w[Max(s)] = RoundUp8(seq[Max(s)].size)
    BY <1>0, LargestIn
  <2> QED BY <2>1 DEF Adds
<1>2. PICK f : Adds(f, n, w)
  BY <1>0, AddsExists
<1>3. Is(iter)
  <2>1. \E h : Is(h)
    BY <1>1, <1>2
  <2> QED BY <2>1
<1>4. TagSum(seq) = iter[1..n]
  BY DEF TagSum, FoldLeft, MapThenFoldSet
<1> HIDE DEF iter
<1>5. Adds(iter, n, w)
  BY <1>1, <1>3
<1> HIDE DEF Is
<1>6. iter[1..n] = g[n]
  BY <1>5, AddsUp
<1> QED BY <1>4, <1>6

\* The addresses of the loader's tags.
LEMMA TagChain ==
  ASSUME NEW list, IsTagList(list)
  PROVE  \E a :
           /\ Chained(a, 8, Len(list), [i \in 1..Len(list) |-> RoundUp8(list[i].size)])
           /\ \A i \in 1..Len(list) + 1 : TagAddress(list, i) = a[i]
<1> DEFINE n == Len(list)
           w == [i \in 1..n |-> RoundUp8(list[i].size)]
<1>1. n \in Nat /\ DOMAIN list = 1..n /\ list \in Seq(ToSet(list))
  BY DEF IsTagList
<1>2. w \in [1..n -> Nat \ {0}]
  <2>1. ASSUME NEW i \in 1..n PROVE RoundUp8(list[i].size) \in Nat \ {0}
    BY <1>1 DEF IsTagList, RoundUp8
  <2> QED BY <2>1
<1>3. \A i \in 1..n : w[i] = RoundUp8(list[i].size)
  OBVIOUS
<1> HIDE DEF n, w
<1>4. PICK g \in [0..n -> Nat] : Running(g, n, w)
  <2>1. w \in [1..n -> Nat]
    BY <1>2
  <2> QED BY <1>1, <2>1, RunningExists
<1> DEFINE a == [i \in 1..n + 1 |-> 8 + g[i - 1]]
<1>5. Chained(a, 8, n, w)
  <2>1. 8 \in Nat
    OBVIOUS
  <2> QED BY <1>1, <1>2, <1>4, <2>1, ChainOf
<1>6. ASSUME NEW i \in 1..n + 1 PROVE TagAddress(list, i) = a[i]
  <2> DEFINE seq == SubSeq(list, 1, i - 1)
             v == [j \in 1..i - 1 |-> w[j]]
  <2>1. i - 1 \in 0..n
    BY <1>1
  <2>2. DOMAIN seq = 1..i - 1 /\ \A j \in 1..i - 1 : seq[j] = list[j]
    BY <1>1, <2>1 DEF n
  <2>3. Running(g, i - 1, v)
    BY <1>4, <2>1, RunningPart
  <2>4. \A j \in 1..i - 1 : v[j] = RoundUp8(seq[j].size)
    BY <1>1, <1>3, <2>1, <2>2
  <2>5. TagAddress(list, i) = 8 + TagSum(seq)
    BY DEF TagAddress, TagSum
  <2> HIDE DEF seq, v
  <2>6. TagSumOf(seq, i - 1, v)
    BY <2>2, <2>4 DEF TagSumOf
  <2>7. TagSum(seq) = g[i - 1]
    BY <2>3, <2>6, TagSumIs
  <2> QED BY <2>5, <2>7
<1> HIDE DEF a
<1> QED BY <1>5, <1>6 DEF n, w

\* The entries before one.
EntrySum(seq) == FoldLeft(LAMBDA a, e : a + e.len, 0, seq)

EntrySumOf(seq, n, w) == DOMAIN seq = 1..n /\ \A i \in 1..n : w[i] = seq[i].len

\* The lengths of entries add up to where the chain leads.
LEMMA EntrySumIs ==
  ASSUME NEW seq, NEW n, NEW g, NEW w, EntrySumOf(seq, n, w), Running(g, n, w)
  PROVE  EntrySum(seq) = g[n]
<1> DEFINE Is(f) == f = [s \in SUBSET (1..n) |->
                           IF s = {} THEN 0 ELSE f[s \ {Max(s)}] + seq[Max(s)].len]
           iter == CHOOSE f : Is(f)
<1> USE DEF EntrySumOf
<1>0. n \in Nat /\ w \in [1..n -> Nat]
  BY DEF Running
<1>1. ASSUME NEW f PROVE Adds(f, n, w) <=> Is(f)
  <2>1. \A s \in SUBSET (1..n) : s # {} => w[Max(s)] = seq[Max(s)].len
    BY <1>0, LargestIn
  <2> QED BY <2>1 DEF Adds
<1>2. PICK f : Adds(f, n, w)
  BY <1>0, AddsExists
<1>3. Is(iter)
  <2>1. \E h : Is(h)
    BY <1>1, <1>2
  <2> QED BY <2>1
<1>4. EntrySum(seq) = iter[1..n]
  BY DEF EntrySum, FoldLeft, MapThenFoldSet
<1> HIDE DEF iter
<1>5. Adds(iter, n, w)
  BY <1>1, <1>3
<1> HIDE DEF Is
<1>6. iter[1..n] = g[n]
  BY <1>5, AddsUp
<1> QED BY <1>4, <1>6

\* The addresses of the MADT's entries.
LEMMA EntryChain ==
  ASSUME NEW list, IsMadt(list)
  PROVE  \E a :
           /\ Chained(a, MadtHeader, Len(list), [i \in 1..Len(list) |-> list[i].len])
           /\ \A i \in 1..Len(list) + 1 : EntryAddress(list, i) = a[i]
<1> DEFINE n == Len(list)
           w == [i \in 1..n |-> list[i].len]
<1>1. n \in Nat /\ DOMAIN list = 1..n /\ list \in Seq(ToSet(list))
  BY DEF IsMadt
<1>2. w \in [1..n -> Nat \ {0}]
  <2>1. ASSUME NEW i \in 1..n PROVE list[i].len \in Nat \ {0}
    BY <1>1 DEF IsMadt
  <2> QED BY <2>1
<1>3. \A i \in 1..n : w[i] = list[i].len
  OBVIOUS
<1> HIDE DEF n, w
<1>4. PICK g \in [0..n -> Nat] : Running(g, n, w)
  <2>1. w \in [1..n -> Nat]
    BY <1>2
  <2> QED BY <1>1, <2>1, RunningExists
<1> DEFINE a == [i \in 1..n + 1 |-> MadtHeader + g[i - 1]]
<1>5. Chained(a, MadtHeader, n, w)
  <2>1. MadtHeader \in Nat
    BY DEF MadtHeader
  <2> QED BY <1>1, <1>2, <1>4, <2>1, ChainOf
<1>6. ASSUME NEW i \in 1..n + 1 PROVE EntryAddress(list, i) = a[i]
  <2> DEFINE seq == SubSeq(list, 1, i - 1)
             v == [j \in 1..i - 1 |-> w[j]]
  <2>1. i - 1 \in 0..n
    BY <1>1
  <2>2. DOMAIN seq = 1..i - 1 /\ \A j \in 1..i - 1 : seq[j] = list[j]
    BY <1>1, <2>1 DEF n
  <2>3. Running(g, i - 1, v)
    BY <1>4, <2>1, RunningPart
  <2>4. \A j \in 1..i - 1 : v[j] = seq[j].len
    BY <1>1, <1>3, <2>1, <2>2
  <2>5. EntryAddress(list, i) = MadtHeader + EntrySum(seq)
    BY DEF EntryAddress, EntrySum
  <2> HIDE DEF seq, v
  <2>6. EntrySumOf(seq, i - 1, v)
    BY <2>2, <2>4 DEF EntrySumOf
  <2>7. EntrySum(seq) = g[i - 1]
    BY <2>3, <2>6, EntrySumIs
  <2> QED BY <2>5, <2>7
<1> HIDE DEF a
<1> QED BY <1>5, <1>6 DEF n, w

\* What the kernel reads on a chain is the element at that place.
LEMMA TagPlaces ==
  ASSUME NEW list, IsTagList(list)
  PROVE  /\ Len(list) \in Nat /\ DOMAIN list = 1..Len(list)
         /\ TagAddress(list, 1) = tag_first
         /\ \A i \in 1..Len(list) :
              /\ tag_next(TagAddress(list, i), list[i]) = TagAddress(list, i + 1)
              /\ TagAt(list, TagAddress(list, i)) = {list[i]}
              /\ ~(TagAddress(list, i) >= TotalSize(list))
<1> DEFINE n == Len(list)
           w == [i \in 1..n |-> RoundUp8(list[i].size)]
<1>1. n \in Nat /\ DOMAIN list = 1..n
  BY DEF IsTagList
<1>2. PICK a : Chained(a, 8, n, w) /\ \A i \in 1..n + 1 : TagAddress(list, i) = a[i]
  BY TagChain
<1>3. \A i \in 1..n : w[i] = RoundUp8(list[i].size)
  OBVIOUS
<1> HIDE DEF n, w
<1>4. TagAddress(list, 1) = tag_first
  BY <1>1, <1>2 DEF Chained, tag_first
<1>5. ASSUME NEW i \in 1..n
      PROVE  /\ tag_next(TagAddress(list, i), list[i]) = TagAddress(list, i + 1)
             /\ TagAt(list, TagAddress(list, i)) = {list[i]}
             /\ ~(TagAddress(list, i) >= TotalSize(list))
  <2>1. i \in 1..n + 1 /\ i + 1 \in 1..n + 1 /\ n + 1 \in 1..n + 1 /\ i < n + 1
    BY <1>1
  <2>2. tag_next(TagAddress(list, i), list[i]) = TagAddress(list, i + 1)
    BY <1>2, <1>3, <2>1 DEF Chained, tag_next
  <2>3. \A j \in 1..n : TagAddress(list, j) = TagAddress(list, i) => j = i
    <3>1. ASSUME NEW j \in 1..n, j # i PROVE TagAddress(list, j) # TagAddress(list, i)
      <4>1. j \in 1..n + 1 /\ (j < i \/ i < j)
        BY <1>1, <3>1
      <4>2. a[j] \in Nat /\ a[i] \in Nat /\ (a[j] < a[i] \/ a[i] < a[j])
        BY <1>2, <2>1, <4>1 DEF Chained
      <4> QED BY <1>2, <2>1, <4>1, <4>2
    <3> QED BY <3>1
  <2>4. TagAt(list, TagAddress(list, i)) = {list[i]}
    BY <1>1, <2>3 DEF TagAt
  <2>5. TotalSize(list) = a[n + 1] /\ TagAddress(list, i) = a[i]
    BY <1>2, <2>1 DEF TotalSize, n
  <2>6. a[i] \in Nat /\ a[n + 1] \in Nat /\ a[i] < a[n + 1]
    BY <1>2, <2>1 DEF Chained
  <2>7. ~(TagAddress(list, i) >= TotalSize(list))
    BY <2>5, <2>6
  <2> QED BY <2>2, <2>4, <2>7
<1> QED BY <1>1, <1>4, <1>5 DEF n

\* Every entry of a MADT lies where the one before it ends, and no entry past the end.
LEMMA EntryPlaces ==
  ASSUME NEW list, IsMadt(list)
  PROVE  /\ Len(list) \in Nat /\ DOMAIN list = 1..Len(list)
         /\ EntryAddress(list, 1) = MadtHeader
         /\ \A i \in 1..Len(list) :
              /\ entry_next(EntryAddress(list, i), list[i]) = EntryAddress(list, i + 1)
              /\ EntryAt(list, EntryAddress(list, i)) = {list[i]}
              /\ ~(EntryAddress(list, i) >= MadtLength(list))
<1> DEFINE n == Len(list)
           w == [i \in 1..n |-> list[i].len]
<1>1. n \in Nat /\ DOMAIN list = 1..n
  BY DEF IsMadt
<1>2. PICK a : Chained(a, MadtHeader, n, w) /\ \A i \in 1..n + 1 : EntryAddress(list, i) = a[i]
  BY EntryChain
<1>3. \A i \in 1..n : w[i] = list[i].len
  OBVIOUS
<1> HIDE DEF n, w
<1>4. EntryAddress(list, 1) = MadtHeader
  BY <1>1, <1>2 DEF Chained
<1>5. ASSUME NEW i \in 1..n
      PROVE  /\ entry_next(EntryAddress(list, i), list[i]) = EntryAddress(list, i + 1)
             /\ EntryAt(list, EntryAddress(list, i)) = {list[i]}
             /\ ~(EntryAddress(list, i) >= MadtLength(list))
  <2>1. i \in 1..n + 1 /\ i + 1 \in 1..n + 1 /\ n + 1 \in 1..n + 1 /\ i < n + 1
    BY <1>1
  <2>2. entry_next(EntryAddress(list, i), list[i]) = EntryAddress(list, i + 1)
    BY <1>2, <1>3, <2>1 DEF Chained, entry_next
  <2>3. \A j \in 1..n : EntryAddress(list, j) = EntryAddress(list, i) => j = i
    <3>1. ASSUME NEW j \in 1..n, j # i PROVE EntryAddress(list, j) # EntryAddress(list, i)
      <4>1. j \in 1..n + 1 /\ (j < i \/ i < j)
        BY <1>1, <3>1
      <4>2. a[j] \in Nat /\ a[i] \in Nat /\ (a[j] < a[i] \/ a[i] < a[j])
        BY <1>2, <2>1, <4>1 DEF Chained
      <4> QED BY <1>2, <2>1, <4>1, <4>2
    <3> QED BY <3>1
  <2>4. EntryAt(list, EntryAddress(list, i)) = {list[i]}
    BY <1>1, <2>3 DEF EntryAt
  <2>5. MadtLength(list) = a[n + 1] /\ EntryAddress(list, i) = a[i]
    BY <1>2, <2>1 DEF MadtLength, n
  <2>6. a[i] \in Nat /\ a[n + 1] \in Nat /\ a[i] < a[n + 1]
    BY <1>2, <2>1 DEF Chained
  <2>7. ~(EntryAddress(list, i) >= MadtLength(list))
    BY <2>5, <2>6
  <2> QED BY <2>2, <2>4, <2>7
<1> QED BY <1>1, <1>4, <1>5 DEF n

-----------------------------------------------------------------------------
(* The walk over the tags                                                   *)

\* The least element of a set of numbers is in it.
LEMMA LeastIn ==
  ASSUME NEW s \in SUBSET Nat, s # {}
  PROVE  Min(s) \in s /\ \A y \in s : Min(s) <= y
<1>1. PICK x \in s : \A y \in s : x <= y
  BY LeastNumber
<1> QED BY <1>1 DEF Min

\* The first tag that a walk wants, by its place.
LEMMA FirstIs ==
  ASSUME hw \in Machines, NEW scan, NEW i \in 1..Len(hw.tags), Wanted(scan, hw.tags[i]),
         \A j \in 1..i - 1 : ~Wanted(scan, hw.tags[j])
  PROVE  FirstWanted(scan) = hw.tags[i]
<1> DEFINE I == {j \in 1..Len(hw.tags) : Wanted(scan, hw.tags[j])}
<1>1. Len(hw.tags) \in Nat
  BY CpuOf, TagPlaces
<1>2. I \in SUBSET Nat /\ i \in I /\ \A j \in I : i <= j
  BY <1>1
<1>3. FirstWanted(scan) = hw.tags[Min(I)] /\ Min(I) \in I
  <2>1. Min(I) \in I
    <3> HIDE DEF I
    <3> QED BY <1>2, LeastIn
  <2>2. SelectInSeq(hw.tags, LAMBDA t : Wanted(scan, t)) = Min(I)
    BY <1>2 DEF SelectInSeq
  <2>3. Min(I) # 0
    BY <1>1, <2>1
  <2> QED BY <2>1, <2>2, <2>3 DEF FirstWanted
<1> HIDE DEF I
<1>4. Min(I) = i
  <2>1. Min(I) \in I /\ Min(I) <= i
    BY <1>2, LeastIn
  <2>2. Min(I) \in Nat /\ i \in Nat /\ i <= Min(I)
    BY <1>2, <2>1
  <2> QED BY <2>1, <2>2
<1> QED BY <1>3, <1>4

\* No tag is wanted: there is no first.
LEMMA FirstNone ==
  ASSUME NEW scan, \A j \in 1..Len(hw.tags) : ~Wanted(scan, hw.tags[j])
  PROVE  FirstWanted(scan) = None
BY DEF FirstWanted, SelectInSeq

\* Where the kernel is before the walks, after them, and after the MADT's.
Start == {"cpuid", "vendor", "max", "max_extended", "brand", "fpu", "magic"}
Listed == {"addresses", "init_apic", "init_lapic", "gdt", "segments", "selectors"} \cup Later
Walked == {"elf", "interrupts", "apic", "madt"} \cup Listed

\* A walk is at a tag, or behind the last one, and has passed only tags it
\* does not want.
WalkInv ==
  pc \in Scans =>
    \E i \in 1..Len(hw.tags) + 1 :
      at = TagAddress(hw.tags, i) /\ \A j \in 1..i - 1 : ~Wanted(pc, hw.tags[j])

\* What the walks that have ended found.
FoundInv ==
  /\ DOMAIN found = Scans
  /\ pc \in Start \cup Scans => found["module"] = None
  /\ pc \in {"rsdp", "module"} \cup Walked =>
       found["framebuffer"] = FirstWanted("framebuffer")
  /\ pc \in {"module"} \cup Walked =>
       /\ found["rsdp"] = FirstWanted("rsdp")
       /\ \E i \in 1..Len(hw.tags) : found["rsdp"] = hw.tags[i] /\ IsRsdp(hw.tags[i])
  /\ pc \in Walked => found["module"] = FirstWanted("module")

\* One step of a walk over the tags.
LEMMA WalkKeeps ==
  ASSUME hw \in Machines, WalkInv, FoundInv, NEW scan \in Scans, Walk(scan)
  PROVE  /\ WalkInv' /\ FoundInv' /\ hw' = hw /\ pc \in Scans
         /\ pc' \in Scans \cup {"elf", "aborted"}
<1> DEFINE tags == hw.tags
           n == Len(tags)
<1>0. IsTagList(tags) /\ n \in Nat /\ DOMAIN tags = 1..n /\ hw' = hw /\ pc = scan
  BY CpuOf, TagPlaces DEF Walk
<1>1. PICK i \in 1..n + 1 :
        at = TagAddress(tags, i) /\ \A j \in 1..i - 1 : ~Wanted(scan, tags[j])
  BY <1>0 DEF WalkInv
<1>2. \A s : FirstWanted(s)' = FirstWanted(s)
  BY <1>0 DEF FirstWanted, SelectInSeq
<1>3. ASSUME NothingFound(scan), \A j \in 1..n : ~Wanted(scan, tags[j])
      PROVE  /\ WalkInv' /\ FoundInv' /\ pc' \in {"elf", "aborted"}
  <2>1. found' = found /\ pc' = IF scan = "module" THEN "elf" ELSE "aborted"
    BY <1>3 DEF NothingFound, Goto
  <2>2. WalkInv'
    BY <2>1 DEF WalkInv, Scans
  <2>3. CASE scan # "module"
    BY <2>1, <2>2, <2>3
      DEF FoundInv, Start, Scans, Walked, Listed, Later
  <2>4. CASE scan = "module"
    <3>1. found["module"] = None /\ FirstWanted("module") = None
      BY <1>0, <1>3, <2>4, FirstNone DEF FoundInv
    <3>2. pc' = "elf" /\ pc = "module"
      BY <1>0, <2>1, <2>4
    <3>3. FoundInv'
      BY <1>0, <1>2, <2>1, <3>1, <3>2 DEF FoundInv, Start, Scans, Walked, Listed, Later
    <3> QED BY <2>2, <3>2, <3>3
  <2> QED BY <2>1, <2>2, <2>3, <2>4
<1>4. CASE i = n + 1
  <2>1. at >= TotalSize(tags) /\ \A j \in 1..n : ~Wanted(scan, tags[j])
    <3>1. (n + 1) - 1 = n
      BY <1>0
    <3>2. at = TotalSize(tags)
      BY <1>1, <1>4 DEF TotalSize
    <3>3. TotalSize(tags) \in Int
      <4>1. PICK a : /\ Chained(a, 8, n, [k \in 1..n |-> RoundUp8(tags[k].size)])
                     /\ \A k \in 1..n + 1 : TagAddress(tags, k) = a[k]
        BY <1>0, TagChain
      <4>2. n + 1 \in 1..n + 1
        BY <1>0
      <4> HIDE DEF n
      <4> QED BY <4>1, <4>2 DEF TotalSize, Chained, n
    <3> QED BY <1>1, <1>4, <3>1, <3>2, <3>3
  <2>2. NothingFound(scan)
    BY <2>1 DEF Walk
  <2> QED BY <1>0, <1>3, <2>1, <2>2
<1>5. CASE i \in 1..n
  <2>1. /\ TagAt(tags, at) = {tags[i]} /\ ~(at >= TotalSize(tags))
        /\ tag_next(at, tags[i]) = TagAddress(tags, i + 1)
    BY <1>0, <1>1, <1>5, TagPlaces
  <2>2. \/ IsEnd(tags[i]) /\ NothingFound(scan)
        \/ /\ ~IsEnd(tags[i]) /\ Wanted(scan, tags[i])
           /\ found' = [found EXCEPT ![scan] = tags[i]]
           /\ pc' = AfterScan(scan, tags[i]) /\ at' = tag_first
        \/ /\ ~IsEnd(tags[i]) /\ ~Wanted(scan, tags[i])
           /\ at' = tag_next(at, tags[i]) /\ pc' = pc /\ found' = found
    <3> HIDE DEF tags
    <3> QED BY <2>1 DEF Walk, Goto, tags
  <2>3. CASE IsEnd(tags[i]) /\ NothingFound(scan)
    <3>1. i = n /\ ~Wanted(scan, tags[i])
      <4>1. i = n
        BY <1>0, <1>5, <2>3 DEF IsTagList
      <4>2. tags[i].type = "END"
        BY <2>3 DEF IsEnd
      <4> HIDE DEF tags, n
      <4> QED BY <4>1, <4>2 DEF Wanted, IsRsdp, Scans
    <3>2. \A j \in 1..n : j \in 1..i - 1 \/ j = i
      BY <1>0, <3>1
    <3> QED BY <1>0, <1>1, <1>3, <2>3, <3>1, <3>2
  <2>4. CASE /\ ~IsEnd(tags[i]) /\ Wanted(scan, tags[i])
             /\ found' = [found EXCEPT ![scan] = tags[i]]
             /\ pc' = AfterScan(scan, tags[i]) /\ at' = tag_first
    <3>1. FirstWanted(scan) = tags[i]
      BY <1>1, <1>5, <2>4, FirstIs
    <3>2. /\ pc = "framebuffer" => pc' \in {"rsdp", "aborted"}
          /\ pc = "rsdp" => pc' = "module" /\ IsRsdp(tags[i])
          /\ pc = "module" => pc' = "elf"
      BY <1>0, <2>4 DEF AfterScan, Wanted
    <3>3. DOMAIN found' = Scans /\ found'[scan] = tags[i]
          /\ \A s \in Scans : s # scan => found'[s] = found[s]
      BY <2>4 DEF FoundInv
    <3>4. WalkInv'
      <4>1. at' = TagAddress(tags, 1) /\ 1 \in 1..n + 1
        BY <1>0, <2>4, TagPlaces
      <4>2. \A j \in 1..1 - 1 : FALSE
        OBVIOUS
      <4> QED BY <1>0, <4>1, <4>2 DEF WalkInv
    <3>5. FoundInv'
      <4>1. CASE scan = "framebuffer"
        BY <1>0, <1>2, <3>1, <3>2, <3>3, <4>1
          DEF FoundInv, Start, Scans, Walked, Listed, Later
      <4>2. CASE scan = "rsdp"
        BY <1>0, <1>2, <1>5, <3>1, <3>2, <3>3, <4>2
          DEF FoundInv, Start, Scans, Walked, Listed, Later
      <4>3. CASE scan = "module"
        BY <1>0, <1>2, <3>1, <3>2, <3>3, <4>3
          DEF FoundInv, Start, Scans, Walked, Listed, Later
      <4> QED BY <4>1, <4>2, <4>3 DEF Scans
    <3>6. pc' \in Scans \cup {"elf", "aborted"}
      BY <1>0, <3>2 DEF Scans
    <3> QED BY <1>0, <3>4, <3>5, <3>6
  <2>5. CASE /\ ~IsEnd(tags[i]) /\ ~Wanted(scan, tags[i])
             /\ at' = tag_next(at, tags[i]) /\ pc' = pc /\ found' = found
    <3>1. i + 1 \in 1..n + 1 /\ at' = TagAddress(tags, i + 1)
      BY <1>0, <1>5, <2>1, <2>5
    <3>2. \A j \in 1..(i + 1) - 1 : ~Wanted(scan, tags[j])
      <4>1. \A j \in 1..(i + 1) - 1 : j \in 1..i - 1 \/ j = i
        BY <1>0
      <4> QED BY <1>1, <2>5, <4>1
    <3>3. WalkInv'
      BY <1>0, <2>5, <3>1, <3>2 DEF WalkInv
    <3>4. FoundInv'
      BY <1>0, <1>2, <2>5 DEF FoundInv
    <3> QED BY <1>0, <2>5, <3>3, <3>4
  <2> QED BY <2>2, <2>3, <2>4, <2>5
<1>6. i = n + 1 \/ i \in 1..n
  BY <1>0
<1> QED BY <1>4, <1>5, <1>6

-----------------------------------------------------------------------------
(* The walk over the MADT                                                   *)

\* How many of the first m entries are of type t.
LEMMA CountOf ==
  ASSUME NEW t, NEW m \in Nat
  PROVE  /\ Count(t, m) \in Nat /\ Count(t, 0) = 0
         /\ hw.madt[m + 1].type = t => Count(t, m + 1) = Count(t, m) + 1
         /\ hw.madt[m + 1].type # t => Count(t, m + 1) = Count(t, m)
         /\ \A i \in 0..m : Count(t, i) \in Nat /\ Count(t, i) <= Count(t, m)
<1> DEFINE S(k) == {j \in 1..k : hw.madt[j].type = t}
<1>1. ASSUME NEW k \in Nat PROVE IsFiniteSet(S(k)) /\ Cardinality(S(k)) \in Nat
  <2>1. IsFiniteSet(1..k) /\ S(k) \subseteq 1..k
    BY FS_Interval
  <2> HIDE DEF S
  <2> QED BY <2>1, FS_Subset, FS_CardinalityType
<1>2. Count(t, 0) = 0
  <2>1. S(0) = {}
    OBVIOUS
  <2> HIDE DEF S
  <2>2. Cardinality(S(0)) = 0
    BY <2>1, FS_EmptySet
  <2> QED BY <2>2 DEF Count, S
<1>3. ASSUME hw.madt[m + 1].type = t PROVE Count(t, m + 1) = Count(t, m) + 1
  <2>1. S(m + 1) = S(m) \cup {m + 1} /\ m + 1 \notin S(m)
    BY <1>3
  <2>2. IsFiniteSet(S(m))
    BY <1>1
  <2> HIDE DEF S
  <2>3. Cardinality(S(m + 1)) = Cardinality(S(m)) + 1
    BY <2>1, <2>2, FS_AddElement
  <2> QED BY <2>3 DEF Count, S
<1>4. ASSUME hw.madt[m + 1].type # t PROVE Count(t, m + 1) = Count(t, m)
  <2>1. S(m + 1) = S(m)
    BY <1>4
  <2> QED BY <2>1 DEF Count
<1>5. ASSUME NEW i \in 0..m PROVE Count(t, i) \in Nat /\ Count(t, i) <= Count(t, m)
  <2>1. S(i) \subseteq S(m) /\ i \in Nat
    OBVIOUS
  <2>2. IsFiniteSet(S(m)) /\ Cardinality(S(i)) \in Nat
    BY <1>1, <2>1
  <2> HIDE DEF S
  <2>3. Cardinality(S(i)) <= Cardinality(S(m))
    BY <2>1, <2>2, FS_Subset
  <2> QED BY <2>2, <2>3 DEF Count, S
<1>6. Count(t, m) \in Nat
  BY <1>1 DEF Count
<1> QED BY <1>2, <1>3, <1>4, <1>5, <1>6

\* An entry's rank is a position of its array.
LEMMA RankOf ==
  ASSUME NEW t, NEW m \in Nat, NEW i \in 1..m, hw.madt[i].type = t
  PROVE  Count(t, i) \in 1..Count(t, m)
<1>1. i - 1 \in Nat /\ i = (i - 1) + 1 /\ i \in 0..m
  OBVIOUS
<1>2. Count(t, i) = Count(t, i - 1) + 1 /\ Count(t, i - 1) \in Nat
  BY <1>1, CountOf
<1>3. Count(t, i) <= Count(t, m) /\ Count(t, m) \in Nat
  BY <1>1, CountOf
<1> QED BY <1>2, <1>3

\* The arrays after the first m entries.
ListedTo(m) ==
  \A t \in EntryTypes :
    /\ Len(parsed[t]) = Count(t, m)
    /\ \A i \in 1..m : hw.madt[i].type = t => parsed[t][Count(t, i)] = hw.madt[i]

MadtInv ==
  /\ pc \in Start \cup Scans \cup {"elf", "interrupts", "apic"} => parsed = NothingParsed
  /\ pc = "madt" => \E i \in 1..Len(hw.madt) + 1 :
                      at = EntryAddress(hw.madt, i) /\ ListedTo(i - 1)
  /\ pc \in Listed => ListedTo(Len(hw.madt))

\* Recording an entry lists it after the others of its type.
LEMMA RecordNext ==
  ASSUME hw \in Machines, ParsedInv, NEW m \in Nat, m + 1 <= Len(hw.madt), ListedTo(m),
         parsed' = Record(parsed, hw.madt[m + 1]), hw' = hw
  PROVE  ListedTo(m + 1)'
<1> DEFINE e == hw.madt[m + 1]
<1>0. \A t, i : Count(t, i)' = Count(t, i)
  BY DEF Count
<1>1. Len(hw.madt) \in Nat /\ DOMAIN hw.madt = 1..Len(hw.madt)
  BY CpuOf, EntryPlaces
<1>2. e \in ToSet(hw.madt)
  BY <1>1 DEF ToSet
<1>3. ASSUME NEW t \in EntryTypes
      PROVE  /\ Len(parsed'[t]) = Count(t, m + 1)
             /\ \A i \in 1..m + 1 : hw.madt[i].type = t => parsed'[t][Count(t, i)] = hw.madt[i]
  <2>1. /\ parsed[t] \in Seq(ToSet(hw.madt)) /\ Len(parsed[t]) = Count(t, m) /\ Count(t, m) \in Nat
        /\ \A i \in 1..m : hw.madt[i].type = t => parsed[t][Count(t, i)] = hw.madt[i]
    BY CountOf DEF ParsedInv, ListedTo
  <2>2. \A i \in 1..m + 1 : i \in 1..m \/ i = m + 1
    OBVIOUS
  <2>3. CASE e.type = t
    <3>1. parsed'[t] = Append(parsed[t], e)
      BY <2>3 DEF Record, ParsedInv
    <3>2. Count(t, m + 1) = Count(t, m) + 1
      BY <2>3, CountOf
    <3> DEFINE s == parsed[t]
    <3> HIDE DEF s, e
    <3>3. /\ Len(Append(s, e)) = Count(t, m) + 1
          /\ Append(s, e)[Count(t, m) + 1] = e
          /\ \A k \in 1..Count(t, m) : Append(s, e)[k] = s[k]
      BY <1>2, <2>1 DEF s
    <3>4. ASSUME NEW i \in 1..m, hw.madt[i].type = t PROVE parsed'[t][Count(t, i)] = hw.madt[i]
      <4>1. Count(t, i) \in 1..Count(t, m)
        BY <3>4, RankOf
      <4> QED BY <2>1, <3>1, <3>3, <3>4, <4>1 DEF s
    <3>5. parsed'[t][Count(t, m + 1)] = hw.madt[m + 1]
      BY <3>1, <3>2, <3>3 DEF s, e
    <3> QED BY <2>2, <3>1, <3>2, <3>3, <3>4, <3>5 DEF s
  <2>4. CASE e.type # t
    <3>1. parsed'[t] = parsed[t]
      BY <2>4 DEF Record, ParsedInv
    <3>2. Count(t, m + 1) = Count(t, m)
      BY <2>4, CountOf
    <3>3. hw.madt[m + 1].type # t
      BY <2>4
    <3> QED BY <2>1, <2>2, <3>1, <3>2, <3>3
  <2> QED BY <2>3, <2>4
<1> QED BY <1>0, <1>3 DEF ListedTo

\* One step of the walk over the MADT.
LEMMA ParseLists ==
  ASSUME hw \in Machines, ParsedInv, MadtInv, ParseEntry
  PROVE  /\ MadtInv' /\ pc = "madt" /\ pc' \in {"madt", "addresses", "overrun"}
         /\ pc' = "overrun" => Overfull
<1> DEFINE madt == hw.madt
           n == Len(madt)
<1>0. /\ IsMadt(madt) /\ n \in Nat /\ DOMAIN madt = 1..n /\ pc = "madt"
      /\ hw' = hw
  BY CpuOf, EntryPlaces DEF ParseEntry
<1>1. PICK i \in 1..n + 1 : at = EntryAddress(madt, i) /\ ListedTo(i - 1)
  BY <1>0 DEF MadtInv
<1>2. \A t, k : Count(t, k)' = Count(t, k)
  BY <1>0 DEF Count
<1>3. CASE i = n + 1
  <2>1. at >= MadtLength(madt)
    <3>1. at = MadtLength(madt)
      BY <1>1, <1>3 DEF MadtLength
    <3>2. MadtLength(madt) \in Int
      <4>1. PICK a : /\ Chained(a, MadtHeader, n, [k \in 1..n |-> madt[k].len])
                     /\ \A k \in 1..n + 1 : EntryAddress(madt, k) = a[k]
        BY <1>0, EntryChain
      <4>2. n + 1 \in 1..n + 1
        BY <1>0
      <4> HIDE DEF n
      <4> QED BY <4>1, <4>2 DEF MadtLength, Chained, n
    <3> QED BY <3>1, <3>2
  <2>2. pc' = "addresses" /\ parsed' = parsed
    BY <2>1 DEF ParseEntry, Goto
  <2>3. ListedTo(n)
    <3>1. (n + 1) - 1 = n
      BY <1>0
    <3> QED BY <1>1, <1>3, <3>1
  <2>4. ListedTo(n)'
    BY <1>0, <1>2, <2>2, <2>3 DEF ListedTo
  <2>5. MadtInv'
    BY <1>0, <2>2, <2>4 DEF MadtInv, Start, Scans, Listed, Later
  <2> QED BY <1>0, <2>2, <2>5
<1>4. CASE i \in 1..n /\ ~HasRoom(parsed, madt[i])
  <2>1. EntryAt(madt, at) = {madt[i]} /\ ~(at >= MadtLength(madt))
    BY <1>0, <1>1, <1>4, EntryPlaces
  <2>2. pc' = "overrun" /\ parsed' = parsed
    <3> HIDE DEF madt
    <3> QED BY <1>4, <2>1 DEF ParseEntry, Goto, madt
  <2> DEFINE t == madt[i].type
  <2>3. t \in EntryTypes /\ ~(Len(parsed[t]) < MaxEntries[t])
    BY <1>4 DEF HasRoom
  <2>4. i - 1 \in Nat /\ (i - 1) + 1 = i /\ i \in 0..n
    BY <1>0, <1>4
  <2>5. Len(parsed[t]) = Count(t, i - 1)
    BY <1>1, <2>3 DEF ListedTo
  <2>6. hw.madt[(i - 1) + 1].type = t
    BY <2>4
  <2> HIDE DEF t
  <2>7. Count(t, (i - 1) + 1) = Count(t, i - 1) + 1 /\ Count(t, i - 1) \in Nat
    BY <2>4, <2>6, CountOf
  <2>8. Count(t, i) <= Count(t, n) /\ Count(t, n) \in Nat
    BY <1>0, <2>4, CountOf
  <2>9. MaxEntries[t] \in Nat
    BY <2>3 DEF MaxEntries, EntryTypes
  <2>10. Count(t, n) > MaxEntries[t]
    BY <2>3, <2>4, <2>5, <2>7, <2>8, <2>9
  <2>11. Overfull
    BY <2>3, <2>10 DEF Overfull
  <2> QED BY <1>0, <2>2, <2>11 DEF MadtInv, Start, Scans, Listed, Later
<1>5. CASE i \in 1..n /\ HasRoom(parsed, madt[i])
  <2>1. /\ EntryAt(madt, at) = {madt[i]} /\ ~(at >= MadtLength(madt))
        /\ entry_next(at, madt[i]) = EntryAddress(madt, i + 1)
    BY <1>0, <1>1, <1>5, EntryPlaces
  <2>2. parsed' = Record(parsed, madt[i]) /\ at' = entry_next(at, madt[i]) /\ pc' = pc
    <3> HIDE DEF madt
    <3> QED BY <1>5, <2>1 DEF ParseEntry, madt
  <2>3. i - 1 \in Nat /\ (i - 1) + 1 = i /\ i <= n /\ i + 1 \in 1..n + 1 /\ (i + 1) - 1 = i
    BY <1>0, <1>5
  <2>4. ListedTo((i - 1) + 1)'
    BY <1>0, <1>1, <2>2, <2>3, RecordNext
  <2>5. ListedTo((i + 1) - 1)'
    BY <2>3, <2>4
  <2>6. MadtInv'
    BY <1>0, <2>1, <2>2, <2>3, <2>5 DEF MadtInv, Start, Scans, Listed, Later
  <2> QED BY <1>0, <2>2, <2>6
<1> QED BY <1>0, <1>1, <1>3, <1>4, <1>5

-----------------------------------------------------------------------------
(* The tables                                                               *)

TablesInv ==
  /\ hw \in Machines /\ ParsedInv /\ WalkInv /\ FoundInv /\ MadtInv
  /\ pc = "wild" => Lacks
  /\ pc = "overrun" => Overfull

\* The steps that walk nowhere.
Stays ==
  /\ UNCHANGED <<hw, found, parsed>>
  /\ pc' \in Start => pc \in Start
  /\ pc' \in {"elf", "interrupts", "apic"} => pc \in {"elf", "interrupts", "apic"}
  /\ pc' \in Listed => pc \in Listed
  /\ pc' \notin Scans \cup {"madt", "wild", "overrun"}

\* The steps that leave the tables alone.
LEMMA StayingSteps ==
  ASSUME Next, ~CheckMultiboot, ~(\E scan \in Scans : Walk(scan)), ~FindMadt, ~ParseEntry,
         ~CheckAddresses, ~InitIoApic
  PROVE  Stays
<1> USE DEF Stays, Start, Scans, Listed, Later, coreVars, cpuVars, tableVars, irqVars, GoOn, Goto
<1>1. CASE CheckCpuid \/ AskVendor \/ AskMax \/ AskMaxExtended
  BY <1>1 DEF CheckCpuid, AskVendor, AskMax, AskMaxExtended, Ask
<1>2. CASE AskBrand \/ InitFpu
  <2>1. /\ UNCHANGED <<hw, found, parsed>>
        /\ pc \in {"brand", "fpu"} /\ pc' \in {"brand", "fpu", "fpu fault", "magic", "aborted"}
    BY <1>2 DEF AskBrand, InitFpu
  <2> QED BY <2>1
<1>3. CASE ReadElf \/ SetupInterrupts
  BY <1>3 DEF ReadElf, SetupInterrupts
<1>4. CASE InitApic \/ InitLapic
  <2>1. /\ UNCHANGED <<hw, found, parsed>>
        /\ pc \in {"init_apic", "init_lapic"} /\ pc' \in {"aborted", "init_lapic", "gdt"}
    BY <1>4 DEF InitApic, InitLapic, lapicUnchanged
  <2> QED BY <2>1
<1>5. CASE CopyGdt \/ AddSegment \/ StoreBootId
  <2>1. /\ UNCHANGED <<hw, found, parsed>>
        /\ pc \in {"gdt", "segments", "selectors"}
        /\ pc' \in {"segments", "selectors", "ioapic", "aborted", "faulted"}
    BY <1>5 DEF CopyGdt, AddSegment, StoreBootId
  <2> QED BY <2>1
<1>6. CASE AskTsc \/ AllOrNothing
  <2>1. /\ UNCHANGED <<hw, found, parsed>>
        /\ pc \in {"tsc", "wake"}
        /\ pc' \in {"aborted", "sync divide", "main divide"}
    BY <1>6 DEF AskTsc, AllOrNothing, Ask
  <2> QED BY <2>1
<1>7. CASE Wake
  <2>1. UNCHANGED <<hw, found, parsed>> /\ pc = "wake" /\ pc' \in {"wake", "reset"}
    BY <1>7 DEF Wake
  <2> QED BY <2>1
<1>8. CASE \E timer \in DOMAIN Timers : StartTimer(timer)
  <2>1. UNCHANGED <<hw, found, parsed>>
    BY <1>8 DEF StartTimer, lapicUnchanged
  <2>2. /\ pc \in {"sync divide", "sync lvt", "sync count",
                    "main divide", "main lvt", "main count"}
        /\ pc' \in {"sync lvt", "sync count", "wake", "main lvt", "main count", "done"}
    BY <1>8, TimerPlaces
  <2> QED BY <2>1, <2>2
<1> QED BY <1>1, <1>2, <1>3, <1>4, <1>5, <1>6, <1>7, <1>8 DEF Next

\* What the tables are does not change.
LEMMA SameTables ==
  ASSUME hw' = hw
  PROVE  /\ \A scan : FirstWanted(scan)' = FirstWanted(scan)
         /\ \A t, i : Count(t, i)' = Count(t, i)
         /\ Lacks' = Lacks /\ Overfull' = Overfull
<1>1. \A scan : FirstWanted(scan)' = FirstWanted(scan)
  BY DEF FirstWanted, SelectInSeq
<1>2. \A t, i : Count(t, i)' = Count(t, i)
  BY DEF Count
<1>3. Lacks' = Lacks
  BY <1>1 DEF Lacks
<1>4. Overfull' = Overfull
  BY <1>2 DEF Overfull
<1> QED BY <1>1, <1>2, <1>3, <1>4

\* Such a step keeps the invariant of the tables.
LEMMA StaysTables ==
  ASSUME TablesInv, Stays PROVE TablesInv'
<1> USE DEF TablesInv, Stays
<1>1. hw' \in Machines /\ ParsedInv' /\ WalkInv' /\ pc' \notin {"wild", "overrun"}
  BY DEF ParsedInv, WalkInv
<1>2. \A scan : FirstWanted(scan)' = FirstWanted(scan)
  BY SameTables
<1>3. FoundInv'
  <2>1. pc' \in Walked => pc \in Walked
    BY DEF Walked
  <2>2. pc' \in Start \cup Scans => pc \in Start \cup Scans
    OBVIOUS
  <2>3. pc' \notin {"rsdp", "module"}
    BY DEF Scans
  <2> QED BY <1>2, <2>1, <2>2, <2>3 DEF FoundInv
<1>4. \A m : ListedTo(m)' = ListedTo(m)
  BY SameTables DEF ListedTo
<1>5. MadtInv'
  BY <1>4 DEF MadtInv
<1> QED BY <1>1, <1>3, <1>5

\* The walks begin.
LEMMA MultibootTables ==
  ASSUME TablesInv, CheckMultiboot PROVE TablesInv'
<1> USE DEF TablesInv
<1>1. /\ UNCHANGED <<hw, found, parsed>> /\ at' = tag_first
      /\ pc = "magic" /\ pc' \in {"framebuffer", "aborted"}
  BY DEF CheckMultiboot, GoOn, Goto
<1>2. WalkInv'
  <2>1. /\ TagAddress(hw.tags, 1) = tag_first /\ Len(hw.tags) \in Nat
    BY CpuOf, TagPlaces
  <2>2. 1 \in 1..Len(hw.tags) + 1 /\ \A j \in 1..1 - 1 : FALSE
    BY <2>1
  <2> QED BY <1>1, <2>1, <2>2 DEF WalkInv
<1>3. ParsedInv'
  BY <1>1 DEF ParsedInv
<1>4. FoundInv'
  BY <1>1 DEF FoundInv, Start, Scans, Walked, Listed, Later
<1>5. MadtInv'
  BY <1>1 DEF MadtInv, Start, Scans, Listed, Later
<1> QED BY <1>1, <1>2, <1>3, <1>4, <1>5

\* A step of a walk over the tags.
LEMMA WalkTables ==
  ASSUME TablesInv, NEW scan \in Scans, Walk(scan) PROVE TablesInv'
<1> USE DEF TablesInv
<1>1. /\ WalkInv' /\ FoundInv' /\ hw' = hw /\ parsed' = parsed /\ pc \in Scans
      /\ pc' \in Scans \cup {"elf", "aborted"}
  <2>1. parsed' = parsed
    BY DEF Walk
  <2> QED BY <2>1, WalkKeeps
<1>2. ParsedInv'
  BY <1>1 DEF ParsedInv
<1>3. MadtInv'
  BY <1>1 DEF MadtInv, Start, Scans, Listed, Later
<1>4. pc' \notin {"wild", "overrun"}
  BY <1>1 DEF Scans
<1> QED BY <1>1, <1>2, <1>3, <1>4

\* A table that findMADT does not find is not listed.
LEMMA NotListed ==
  ASSUME NEW rsdt, rsdt \in Seq(ToSet(rsdt)), findMADT(rsdt) = 0
  PROVE  ~Contains(rsdt, "APIC")
<1> DEFINE I == {i \in 1..Len(rsdt) : rsdt[i] = "APIC"}
<1>1. Len(rsdt) \in Nat
  OBVIOUS
<1>2. I \in SUBSET Nat /\ 0 \notin I
  BY <1>1
<1>3. I # {} => findMADT(rsdt) = Min(I)
  BY DEF findMADT, SelectInSeq
<1>4. I # {} => Min(I) \in I
  <2> HIDE DEF I
  <2> QED BY <1>2, LeastIn
<1>5. I = {}
  <2> HIDE DEF I
  <2> QED BY <1>2, <1>3, <1>4
<1> QED BY <1>5 DEF Contains

\* The MADT is looked for.
LEMMA FindTables ==
  ASSUME TablesInv, FindMadt PROVE TablesInv'
<1> USE DEF TablesInv
<1>1. /\ UNCHANGED <<hw, found, parsed>> /\ at' = MadtHeader
      /\ pc = "apic" /\ pc' \in {"aborted", "wild", "madt"}
  BY DEF FindMadt, Goto
<1>2. WalkInv' /\ ParsedInv'
  BY <1>1 DEF WalkInv, ParsedInv, Scans
<1>3. FoundInv'
  BY <1>1, SameTables DEF FoundInv, Start, Scans, Walked, Listed, Later
<1>4. MadtInv'
  <2>1. parsed = NothingParsed
    BY <1>1 DEF MadtInv
  <2>2. ListedTo(0)'
    <3>1. \A t \in EntryTypes : parsed'[t] = <<>>
      BY <1>1, <2>1 DEF NothingParsed
    <3>2. \A t : Count(t, 0)' = 0
      BY <1>1, CountOf, SameTables
    <3>3. Len(<<>>) = 0 /\ \A i \in 1..0 : FALSE
      OBVIOUS
    <3> QED BY <3>1, <3>2, <3>3 DEF ListedTo
  <2>3. /\ EntryAddress(hw.madt, 1) = MadtHeader /\ Len(hw.madt) \in Nat
    BY CpuOf, EntryPlaces
  <2>4. 1 \in 1..Len(hw.madt) + 1 /\ 1 - 1 = 0
    BY <2>3
  <2>5. ListedTo(1 - 1)'
    BY <2>2, <2>4
  <2> QED BY <1>1, <2>3, <2>4, <2>5 DEF MadtInv, Start, Scans, Listed, Later
<1>5. ASSUME pc' = "wild" PROVE Lacks'
  <2>1. findMADT(found["rsdp"].rsdt) = 0
    BY <1>5 DEF FindMadt, Goto
  <2>2. found["rsdp"] = FirstWanted("rsdp")
        /\ \E i \in 1..Len(hw.tags) : found["rsdp"] = hw.tags[i] /\ IsRsdp(hw.tags[i])
    BY <1>1 DEF FoundInv, Walked
  <2>3. found["rsdp"].rsdt \in Seq(ToSet(found["rsdp"].rsdt))
    <3>1. IsTagList(hw.tags) /\ DOMAIN hw.tags = 1..Len(hw.tags)
      BY CpuOf, TagPlaces
    <3> QED BY <2>2, <3>1 DEF IsTagList
  <2>4. ~Contains(FirstWanted("rsdp").rsdt, "APIC")
    BY <2>1, <2>2, <2>3, NotListed
  <2> QED BY <1>1, <2>4, SameTables DEF Lacks
<1> QED BY <1>1, <1>2, <1>3, <1>4, <1>5

\* A step of the walk over the MADT.
LEMMA ParseTables ==
  ASSUME TablesInv, ParseEntry PROVE TablesInv'
<1> USE DEF TablesInv
<1>1. /\ MadtInv' /\ pc = "madt" /\ pc' \in {"madt", "addresses", "overrun"}
      /\ pc' = "overrun" => Overfull
  BY ParseLists
<1>2. ParsedInv' /\ hw' = hw /\ found' = found
  BY ParseKeeps DEF ParseEntry
<1>3. FoundInv'
  BY <1>1, <1>2, SameTables DEF FoundInv, Start, Scans, Walked, Listed, Later
<1>4. WalkInv'
  BY <1>1 DEF WalkInv, Scans
<1>5. Overfull' = Overfull
  BY <1>2, SameTables
<1> QED BY <1>1, <1>2, <1>3, <1>4, <1>5

\* The addresses found are checked.
LEMMA AddressTables ==
  ASSUME TablesInv, CheckAddresses PROVE TablesInv'
<1> USE DEF TablesInv
<1>1. /\ UNCHANGED <<hw, found, parsed>> /\ pc = "addresses"
      /\ pc' \in {"aborted", "wild", "init_apic"}
      /\ pc' = "wild" => parsed["io_apic"] = <<>>
  BY DEF CheckAddresses, Goto, tableVars
<1>2. WalkInv' /\ ParsedInv'
  BY <1>1 DEF WalkInv, ParsedInv, Scans
<1>3. FoundInv'
  BY <1>1, SameTables DEF FoundInv, Start, Scans, Walked, Listed, Later
<1>4. ListedTo(Len(hw.madt))
  BY <1>1 DEF MadtInv, Listed
<1>5. MadtInv'
  <2>1. ListedTo(Len(hw.madt))'
    BY <1>1, <1>4, SameTables DEF ListedTo
  <2> QED BY <1>1, <2>1 DEF MadtInv, Start, Scans, Listed, Later
<1>6. ASSUME pc' = "wild" PROVE Lacks'
  <2>1. Len(hw.madt) \in Nat /\ DOMAIN hw.madt = 1..Len(hw.madt)
    BY CpuOf, EntryPlaces
  <2>2. Count("io_apic", Len(hw.madt)) = 0
    <3>1. Len(parsed["io_apic"]) = 0
      BY <1>1, <1>6
    <3> QED BY <1>4, <3>1 DEF ListedTo, EntryTypes
  <2>3. \A i \in 1..Len(hw.madt) : hw.madt[i].type # "io_apic"
    <3>1. 1..0 = {}
      OBVIOUS
    <3> QED BY <2>1, <2>2, <3>1, RankOf
  <2>4. ~\E e \in ToSet(hw.madt) : e.type = "io_apic"
    BY <2>1, <2>3 DEF ToSet
  <2> QED BY <1>1, <2>4, SameTables DEF Lacks
<1> QED BY <1>1, <1>2, <1>3, <1>5, <1>6

\* The overrides are applied.
LEMMA IoApicTables ==
  ASSUME TablesInv, InitIoApic PROVE TablesInv'
<1> USE DEF TablesInv
<1>1. /\ UNCHANGED <<hw, found, parsed>> /\ pc = "ioapic"
      /\ pc' \in {"aborted", "overrun", "tsc"}
      /\ pc' = "overrun" => StoresBehind(parsed["iso"])
  BY DEF InitIoApic, Goto, tableVars
<1>2. WalkInv' /\ ParsedInv'
  BY <1>1 DEF WalkInv, ParsedInv, Scans
<1>3. FoundInv'
  BY <1>1, SameTables DEF FoundInv, Start, Scans, Walked, Listed, Later
<1>4. MadtInv'
  <2>1. ListedTo(Len(hw.madt))
    BY <1>1 DEF MadtInv, Listed, Later
  <2>2. ListedTo(Len(hw.madt))'
    BY <1>1, <2>1, SameTables DEF ListedTo
  <2> QED BY <1>1, <2>2 DEF MadtInv, Start, Scans, Listed, Later
<1>5. ASSUME pc' = "overrun" PROVE Overfull'
  <2>1. PICK i \in DOMAIN parsed["iso"] : parsed["iso"][i].irq \notin Inputs
    BY <1>1, <1>5 DEF StoresBehind
  <2>2. parsed["iso"] \in Seq(ToSet(hw.madt)) /\ parsed["iso"][i].type = "iso"
    BY DEF ParsedInv, EntryTypes
  <2>3. parsed["iso"][i] \in ToSet(hw.madt)
    BY <2>2, ElementOfSeq
  <2>4. Overfull
    BY <2>1, <2>2, <2>3 DEF Overfull
  <2> QED BY <1>1, <2>4, SameTables
<1> QED BY <1>1, <1>2, <1>3, <1>4, <1>5

\* Every step keeps the invariant of the tables.
LEMMA TablesStep ==
  ASSUME TablesInv, [Next]_vars PROVE TablesInv'
<1>1. CASE CheckMultiboot \/ (\E scan \in Scans : Walk(scan)) \/ FindMadt \/ ParseEntry
           \/ CheckAddresses \/ InitIoApic
  BY <1>1, MultibootTables, WalkTables, FindTables, ParseTables, AddressTables, IoApicTables
<1>2. CASE UNCHANGED vars
  <2>1. UNCHANGED <<hw, pc, at, found, parsed>>
    BY <1>2 DEF vars
  <2>2. \A m : ListedTo(m)' = ListedTo(m)
    BY <2>1, SameTables DEF ListedTo
  <2> QED BY <2>1, <2>2, SameTables DEF TablesInv, ParsedInv, WalkInv, FoundInv, MadtInv
<1>3. CASE Next /\ ~CheckMultiboot /\ ~(\E scan \in Scans : Walk(scan)) /\ ~FindMadt
           /\ ~ParseEntry /\ ~CheckAddresses /\ ~InitIoApic
  BY <1>3, StayingSteps, StaysTables
<1> QED BY <1>1, <1>2, <1>3

\* The kernel starts with nothing found and nothing parsed.
LEMMA TablesStart == Init => TablesInv
<1> SUFFICES ASSUME Init PROVE TablesInv
  OBVIOUS
<1>1. /\ hw \in Machines /\ pc = "cpuid" /\ parsed = NothingParsed
      /\ found = [s \in Scans |-> None]
  BY DEF Init
<1>2. ParsedInv
  BY <1>1 DEF ParsedInv, NothingParsed, EntryTypes
<1>3. WalkInv /\ FoundInv
  BY <1>1 DEF WalkInv, FoundInv, Scans, Start, Walked, Listed, Later
<1>4. MadtInv
  BY <1>1 DEF MadtInv, Listed, Later
<1> QED BY <1>1, <1>2, <1>3, <1>4 DEF TablesInv

\* On every machine the walks stay on the chains of the loader and of the
\* firmware and find in them what they look for; only an overfull MADT takes
\* the kernel behind one of its arrays.
THEOREM TablesAreFound == Spec => []FindsTheTables
<1>1. TablesInv => FindsTheTables
  <2> SUFFICES ASSUME TablesInv, pc \in {"addresses", "done"}
               PROVE  /\ \A scan \in Scans : found[scan] = FirstWanted(scan)
                      /\ \A t \in EntryTypes : Lists(parsed[t], t)
    BY DEF TablesInv, FindsTheTables
  <2>1. pc \in Listed /\ pc \in Walked
    BY DEF Listed, Later, Walked
  <2>2. \A scan \in Scans : found[scan] = FirstWanted(scan)
    BY <2>1 DEF TablesInv, FoundInv, Scans
  <2>3. DOMAIN hw.madt = 1..Len(hw.madt)
    BY CpuOf, EntryPlaces DEF TablesInv
  <2>4. \A t \in EntryTypes : Lists(parsed[t], t)
    BY <2>1, <2>3 DEF TablesInv, MadtInv, ListedTo, Lists
  <2> QED BY <2>2, <2>4
<1> QED BY <1>1, TablesStart, TablesStep, PTL DEF Spec

-----------------------------------------------------------------------------
(* The overrides                                                            *)

\* The routes after the first k overrides, and the fold that makes them.
Identity == [i \in 0..23 |-> i]
Override(r, e) == [r EXCEPT ![e.irq] = e.gsi]
RoutesOf(seq) == FoldLeft(LAMBDA r, e : [r EXCEPT ![e.irq] = e.gsi], [i \in 0..23 |-> i], seq)
RouteSteps(g, n, seq) ==
  /\ g \in [0..n -> [0..23 -> Inputs]]
  /\ g[0] = Identity /\ \A k \in 1..n : g[k] = Override(g[k - 1], seq[k])

\* The overrides are applied in the order of the array.
LEMMA RoutesStep ==
  ASSUME NEW n \in Nat, NEW seq, DOMAIN seq = 1..n, \A i \in 1..n : seq[i].gsi \in Inputs
  PROVE  \E g : RouteSteps(g, n, seq) /\ RoutesOf(seq) = g[n]
<1> DEFINE V == [0..23 -> Inputs]
           step == [p \in (1..n) \X V |-> Override(p[2], seq[p[1]])]
           Is(f) == f = [s \in SUBSET (1..n) |->
                           IF s = {} THEN [i \in 0..23 |-> i]
                           ELSE [f[s \ {Max(s)}] EXCEPT ![seq[Max(s)].irq] = seq[Max(s)].gsi]]
           iter == CHOOSE f : Is(f)
<1>1. Identity \in V
  BY DEF Identity, Inputs
<1>2. step \in [(1..n) \X V -> V]
  <2>1. \A k \in 1..n, r \in V : Override(r, seq[k]) \in V
    BY DEF Override
  <2> QED BY <2>1
<1>3. \A k \in 1..n, r \in V : step[<<k, r>>] = Override(r, seq[k])
  OBVIOUS
<1> HIDE DEF step, V
<1>4. PICK f \in [SUBSET (1..n) -> V] : Folds(f, n, V, Identity, step)
  BY <1>1, <1>2, FoldExists
<1>5. ASSUME NEW s \in SUBSET (1..n), s # {}
      PROVE  step[<<Max(s), f[s \ {Max(s)}]>>] = Override(f[s \ {Max(s)}], seq[Max(s)])
  <2>1. Max(s) \in 1..n /\ f[s \ {Max(s)}] \in V
    BY <1>5, LargestIn
  <2> QED BY <1>3, <2>1
<1>6. \E h : Is(h)
  <2>1. Is(f)
    BY <1>4, <1>5 DEF Folds, Identity, Override
  <2> QED BY <2>1
<1>7. Is(iter)
  BY <1>6
<1>8. RoutesOf(seq) = iter[1..n]
  BY DEF RoutesOf, FoldLeft, MapThenFoldSet
<1>9. /\ iter[{}] = Identity
      /\ \A s \in SUBSET (1..n) : s # {} => iter[s] = Override(iter[s \ {Max(s)}], seq[Max(s)])
  BY <1>7 DEF Identity, Override
<1> HIDE DEF iter, Is
<1>10. ASSUME NEW k \in 1..n PROVE iter[1..k] = Override(iter[1..k - 1], seq[k])
  <2>1. /\ 1..k \in SUBSET (1..n) /\ 1..k # {} /\ Max(1..k) = k
        /\ (1..k) \ {k} = 1..k - 1
    BY InitialPart
  <2> QED BY <1>9, <2>1
<1> DEFINE Good == {k \in Nat : k <= n => iter[1..k] \in V}
<1>11. 0 \in Good
  <2>1. 1..0 = {}
    OBVIOUS
  <2> QED BY <1>1, <1>9, <2>1
<1>12. ASSUME NEW k \in Nat, k \in Good PROVE k + 1 \in Good
  <2> SUFFICES ASSUME k + 1 <= n PROVE iter[1..k + 1] \in V
    OBVIOUS
  <2>1. k + 1 \in 1..n /\ (k + 1) - 1 = k /\ k <= n
    OBVIOUS
  <2>2. iter[1..k] \in V
    BY <1>12, <2>1
  <2>3. iter[1..k + 1] = Override(iter[1..k], seq[k + 1])
    BY <1>10, <2>1
  <2> QED BY <2>1, <2>2, <2>3 DEF Override, V
<1>13. Nat \subseteq Good
  <2> HIDE DEF Good
  <2> QED BY <1>11, <1>12, NumberInduction
<1> DEFINE g == [k \in 0..n |-> iter[1..k]]
<1>14. g \in [0..n -> [0..23 -> Inputs]]
  <2>1. \A k \in 0..n : iter[1..k] \in V
    BY <1>13
  <2> QED BY <2>1 DEF V
<1>15. g[0] = Identity /\ g[n] = iter[1..n]
  <2>1. 1..0 = {} /\ 0 \in 0..n /\ n \in 0..n
    OBVIOUS
  <2> QED BY <1>9, <2>1
<1>16. ASSUME NEW k \in 1..n PROVE g[k] = Override(g[k - 1], seq[k])
  <2>1. k \in 0..n /\ k - 1 \in 0..n
    OBVIOUS
  <2>2. g[k] = iter[1..k] /\ g[k - 1] = iter[1..k - 1]
    BY <2>1
  <2> HIDE DEF g
  <2> QED BY <1>10, <2>2
<1> HIDE DEF g
<1>17. RouteSteps(g, n, seq)
  BY <1>14, <1>15, <1>16 DEF RouteSteps
<1> QED BY <1>8, <1>15, <1>17

\* The route of an interrupt after k overrides: the last of its own counts.
RouteIs(r, k, seq, q) ==
  \/ r = q /\ \A j \in 1..k : seq[j].irq # q
  \/ \E i \in 1..k : /\ seq[i].irq = q /\ r = seq[i].gsi
                     /\ \A j \in i + 1..k : seq[j].irq # q

\* The last override of an interrupt wins.
LEMMA LastWins ==
  ASSUME NEW n \in Nat, NEW seq, NEW g, RouteSteps(g, n, seq), NEW q \in 0..23
  PROVE  RouteIs(g[n][q], n, seq, q)
<1> DEFINE Good == {k \in Nat : k <= n => RouteIs(g[k][q], k, seq, q)}
<1>1. 0 \in Good
  <2>1. g[0][q] = q /\ \A j \in 1..0 : FALSE
    BY DEF RouteSteps, Identity
  <2>2. RouteIs(g[0][q], 0, seq, q)
    BY <2>1 DEF RouteIs
  <2> QED BY <2>2
<1>2. ASSUME NEW k \in Nat, k \in Good PROVE k + 1 \in Good
  <2> SUFFICES ASSUME k + 1 <= n PROVE RouteIs(g[k + 1][q], k + 1, seq, q)
    OBVIOUS
  <2>1. k + 1 \in 1..n /\ (k + 1) - 1 = k /\ k <= n /\ k \in 0..n
    OBVIOUS
  <2>2. RouteIs(g[k][q], k, seq, q)
    BY <1>2, <2>1
  <2>3. g[k + 1] = Override(g[k], seq[k + 1]) /\ g[k] \in [0..23 -> Inputs]
    BY <2>1 DEF RouteSteps
  <2>4. g[k + 1][q] = IF seq[k + 1].irq = q THEN seq[k + 1].gsi ELSE g[k][q]
    BY <2>3 DEF Override
  <2>5. CASE seq[k + 1].irq = q
    <3>1. k + 1 \in 1..k + 1 /\ \A j \in (k + 1) + 1..k + 1 : FALSE
      BY <2>1
    <3> QED BY <2>4, <2>5, <3>1 DEF RouteIs
  <2>6. CASE seq[k + 1].irq # q
    <3>1. \A i : \A j \in i + 1..k + 1 : j \in i + 1..k \/ j = k + 1
      BY <2>1
    <3>2. \A j \in 1..k + 1 : j \in 1..k \/ j = k + 1
      BY <2>1
    <3>3. \A i \in 1..k : i \in 1..k + 1
      BY <2>1
    <3>4. CASE g[k][q] = q /\ \A j \in 1..k : seq[j].irq # q
      BY <2>4, <2>6, <3>2, <3>4 DEF RouteIs
    <3>5. CASE \E i \in 1..k : /\ seq[i].irq = q /\ g[k][q] = seq[i].gsi
                               /\ \A j \in i + 1..k : seq[j].irq # q
      <4>1. PICK i \in 1..k : /\ seq[i].irq = q /\ g[k][q] = seq[i].gsi
                              /\ \A j \in i + 1..k : seq[j].irq # q
        BY <3>5
      <4>2. \A j \in i + 1..k + 1 : seq[j].irq # q
        BY <2>6, <3>1, <4>1
      <4> QED BY <2>4, <2>6, <3>3, <4>1, <4>2 DEF RouteIs
    <3> QED BY <2>2, <3>4, <3>5 DEF RouteIs
  <2> QED BY <2>5, <2>6
<1>3. Nat \subseteq Good
  <2> HIDE DEF Good
  <2> QED BY <1>1, <1>2, NumberInduction
<1> QED BY <1>3

\* Every position of an array has its entry in the MADT.
LEMMA RankedFrom ==
  ASSUME NEW t, NEW m \in Nat, NEW k \in 1..Count(t, m)
  PROVE  \E i \in 1..m : hw.madt[i].type = t /\ Count(t, i) = k
<1> DEFINE Has(p, q) == \E i \in 1..p : hw.madt[i].type = t /\ Count(t, i) = q
           Good == {p \in Nat : \A q \in 1..Count(t, p) : Has(p, q)}
<1>1. 0 \in Good
  <2>1. Count(t, 0) = 0 /\ 1..0 = {}
    BY CountOf
  <2> QED BY <2>1
<1>2. ASSUME NEW p \in Nat, p \in Good PROVE p + 1 \in Good
  <2>1. /\ Count(t, p) \in Nat
        /\ hw.madt[p + 1].type = t => Count(t, p + 1) = Count(t, p) + 1
        /\ hw.madt[p + 1].type # t => Count(t, p + 1) = Count(t, p)
    BY CountOf
  <2>2. \A i \in 1..p : i \in 1..p + 1
    OBVIOUS
  <2>3. p + 1 \in 1..p + 1
    OBVIOUS
  <2>4. ASSUME NEW q \in 1..Count(t, p + 1) PROVE Has(p + 1, q)
    <3>1. CASE q \in 1..Count(t, p)
      BY <1>2, <2>2, <3>1
    <3>2. CASE q \notin 1..Count(t, p)
      BY <2>1, <2>3, <2>4, <3>2
    <3> QED BY <3>1, <3>2
  <2> QED BY <2>4
<1>3. Nat \subseteq Good
  <2> HIDE DEF Good
  <2> QED BY <1>1, <1>2, NumberInduction
<1> QED BY <1>3

\* The ranks of the entries of a type increase.
LEMMA RanksIncrease ==
  ASSUME NEW t, NEW i \in Nat, NEW j \in Nat, i < j, hw.madt[j].type = t
  PROVE  Count(t, i) \in Nat /\ Count(t, j) \in Nat /\ Count(t, i) < Count(t, j)
<1>1. j - 1 \in Nat /\ (j - 1) + 1 = j /\ i \in 0..j - 1
  OBVIOUS
<1>2. /\ Count(t, j) = Count(t, j - 1) + 1 /\ Count(t, j - 1) \in Nat
      /\ Count(t, i) \in Nat /\ Count(t, i) <= Count(t, j - 1)
  BY <1>1, CountOf
<1> QED BY <1>2

\* The firmware wires an interrupt to an input of the IOAPIC.
LEMMA WiredToInputs ==
  ASSUME hw \in Machines, NEW q \in {0, 1, 12}
  PROVE  WiredIn(hw.madt, q) \in Inputs
<1> DEFINE I == {i \in 1..Len(hw.madt) : hw.madt[i].type = "iso" /\ hw.madt[i].irq = q}
<1>1. IsMadt(hw.madt) /\ Len(hw.madt) \in Nat /\ DOMAIN hw.madt = 1..Len(hw.madt)
  BY CpuOf, EntryPlaces
<1>2. WiredIn(hw.madt, q) = IF I = {} THEN q ELSE IF Max(I) = 0 THEN q ELSE hw.madt[Max(I)].gsi
  BY DEF WiredIn, SelectLastInSeq
<1>3. I # {} => Max(I) \in I
  <2>1. I \in SUBSET (1..Len(hw.madt))
    OBVIOUS
  <2> HIDE DEF I
  <2> QED BY <1>1, <2>1, LargestIn
<1>4. \A i \in I : hw.madt[i].gsi \in Inputs
  BY <1>1 DEF IsMadt
<1> HIDE DEF I
<1> QED BY <1>2, <1>3, <1>4 DEF Inputs

\* What multicore_setup makes of the overrides is how the firmware wired the
\* machine.
LEMMA RoutesAreWired ==
  ASSUME hw \in Machines, ParsedInv, ListedTo(Len(hw.madt)), NEW q \in {0, 1, 12}
  PROVE  Routes(parsed)[q] = WiredIn(hw.madt, q)
<1> DEFINE madt == hw.madt
           N == Len(madt)
           s == parsed["iso"]
           n == Len(s)
           I == {i \in 1..N : madt[i].type = "iso" /\ madt[i].irq = q}
<1>1. IsMadt(madt) /\ N \in Nat /\ DOMAIN madt = 1..N
  BY CpuOf, EntryPlaces
<1>2. s \in Seq(ToSet(madt)) /\ n \in Nat /\ DOMAIN s = 1..n
  BY DEF ParsedInv, EntryTypes
<1>3. /\ n = Count("iso", N)
      /\ \A i \in 1..N : madt[i].type = "iso" => s[Count("iso", i)] = madt[i]
  BY DEF ListedTo, EntryTypes
<1>4. WiredIn(madt, q) = IF I = {} THEN q ELSE IF Max(I) = 0 THEN q ELSE madt[Max(I)].gsi
  BY DEF WiredIn, SelectLastInSeq
<1>5. Routes(parsed) = RoutesOf(s)
  BY DEF Routes, RoutesOf
<1> HIDE DEF madt, N, s, n
<1>6. \A k \in 1..n : \E i \in 1..N : madt[i].type = "iso" /\ Count("iso", i) = k
  BY <1>1, <1>3, RankedFrom DEF madt
<1>7. \A k \in 1..n : s[k].gsi \in Inputs
  <2> SUFFICES ASSUME NEW k \in 1..n PROVE s[k].gsi \in Inputs
    OBVIOUS
  <2>1. PICK i \in 1..N : madt[i].type = "iso" /\ Count("iso", i) = k
    BY <1>6
  <2>2. s[k] = madt[i] /\ madt[i].gsi \in Inputs
    BY <1>1, <1>3, <2>1 DEF IsMadt
  <2> QED BY <2>2
<1>8. PICK g : RouteSteps(g, n, s) /\ RoutesOf(s) = g[n]
  BY <1>2, <1>7, RoutesStep
<1>9. RouteIs(g[n][q], n, s, q) /\ q \in 0..23
  <2>1. q \in 0..23
    OBVIOUS
  <2> QED BY <1>2, <1>8, <2>1, LastWins
<1>10. CASE g[n][q] = q /\ \A j \in 1..n : s[j].irq # q
  <2>1. ASSUME NEW i \in I PROVE FALSE
    <3>1. i \in 1..N /\ madt[i].type = "iso" /\ madt[i].irq = q
      OBVIOUS
    <3>2. Count("iso", i) \in 1..n /\ s[Count("iso", i)] = madt[i]
      BY <1>1, <1>3, <3>1, RankOf DEF madt
    <3> QED BY <1>10, <3>1, <3>2
  <2>2. I = {}
    BY <2>1
  <2> QED BY <1>4, <1>5, <1>8, <1>10, <2>2 DEF madt
<1>11. CASE \E k \in 1..n : /\ s[k].irq = q /\ g[n][q] = s[k].gsi
                            /\ \A j \in k + 1..n : s[j].irq # q
  <2>1. PICK k \in 1..n : /\ s[k].irq = q /\ g[n][q] = s[k].gsi
                          /\ \A j \in k + 1..n : s[j].irq # q
    BY <1>11
  <2>2. PICK i \in 1..N : madt[i].type = "iso" /\ Count("iso", i) = k
    BY <1>6
  <2>3. s[k] = madt[i]
    BY <1>3, <2>2
  <2>4. i \in I /\ I \in SUBSET (1..N)
    BY <2>1, <2>2, <2>3
  <2>5. Max(I) \in I /\ \A y \in I : y <= Max(I)
    <3> HIDE DEF I
    <3> QED BY <1>1, <2>4, LargestIn
  <2> DEFINE m == Max(I)
  <2>6. m \in 1..N /\ madt[m].type = "iso" /\ madt[m].irq = q /\ i <= m
    BY <2>4, <2>5
  <2> HIDE DEF m
  <2>7. ASSUME i # m PROVE FALSE
    <3>1. i \in Nat /\ m \in Nat /\ i < m
      BY <1>1, <2>6, <2>7
    <3>2. Count("iso", m) \in Nat /\ k < Count("iso", m)
      BY <2>2, <2>6, <3>1, RanksIncrease DEF madt
    <3>3. Count("iso", m) \in 1..n /\ s[Count("iso", m)] = madt[m]
      BY <1>1, <1>3, <2>6, RankOf DEF madt
    <3>4. Count("iso", m) \in k + 1..n
      BY <3>2, <3>3
    <3> QED BY <2>1, <2>6, <3>3, <3>4
  <2>8. I # {} /\ Max(I) = i /\ i # 0
    BY <2>4, <2>7, <1>1 DEF m
  <2>9. WiredIn(madt, q) = madt[i].gsi
    BY <1>4, <2>8
  <2> QED BY <1>5, <1>8, <2>1, <2>3, <2>9 DEF madt
<1> QED BY <1>9, <1>10, <1>11 DEF RouteIs

-----------------------------------------------------------------------------
(* The interrupts                                                           *)

\* The descriptors once the interrupt table is set up, and the redirection
\* registers before and after init_io_apic.
Gates == idt_init \cup {32, 33, 44}
Masked == [r \in get_offsets(0).low..get_offsets(23).high |->
             IF r \in {get_offsets(g).low : g \in Inputs} THEN MaskedEntry ELSE {}]
Routed == init_io_apic(Masked, [irq \in {0, 1, 12} |-> WiredIn(hw.madt, irq)])
TimerAtReset == LapicAtEntry({}).timer

\* Where the kernel is once there are descriptors, and from the IOAPIC on.
Gated == {"apic", "madt"} \cup Listed
PastIoApic == (Later \ {"ioapic"}) \cup {"aborted", "wild", "overrun", "reset", "faulted"}

LapicInv ==
  /\ lapic = [msr |-> lapic.msr, svr |-> lapic.svr, tpr |-> lapic.tpr, lint0 |-> lapic.lint0,
              divide |-> lapic.divide, initial |-> lapic.initial, timer |-> lapic.timer]
  /\ lapic.svr \in {{}, SpuriousWord({})}
  /\ lapic.timer \in {TimerAtReset, TimerWord(Timers.sync), TimerWord(Timers.main)}
  /\ gates # Gates => lapic.svr = {} /\ lapic.timer = TimerAtReset

IrqInv ==
  /\ pc \in Gated => gates = Gates
  /\ pc \notin PastIoApic => line0
  /\ IF line0 THEN redir = Masked ELSE gates = Gates /\ redir = Routed
  /\ LapicInv

\* The steps that have no part in it.
IrqQuiet ==
  /\ UNCHANGED <<hw, gates, lapic, redir, line0>>
  /\ pc' \in Gated => pc \in Gated
  /\ pc \in PastIoApic => pc' \in PastIoApic

\* They are all but those of the interrupt table, the local APIC and the IOAPIC.
LEMMA IrqQuietSteps ==
  ASSUME Next, ~SetupInterrupts, ~InitApic, ~InitLapic, ~InitIoApic,
         ~(\E timer \in DOMAIN Timers : StartTimer(timer))
  PROVE  IrqQuiet
<1> USE DEF IrqQuiet, Gated, PastIoApic, Listed, Later, coreVars, cpuVars, tableVars, irqVars,
            GoOn, Goto
<1>1. CASE CheckCpuid \/ AskVendor \/ AskMax \/ AskMaxExtended
  BY <1>1 DEF CheckCpuid, AskVendor, AskMax, AskMaxExtended, Ask
<1>2. CASE AskBrand \/ InitFpu
  <2>1. /\ UNCHANGED <<hw, gates, lapic, redir, line0>>
        /\ pc \in {"brand", "fpu"} /\ pc' \in {"brand", "fpu", "fpu fault", "magic", "aborted"}
    BY <1>2 DEF AskBrand, InitFpu
  <2> QED BY <2>1
<1>3. CASE CheckMultiboot \/ ReadElf
  <2>1. /\ UNCHANGED <<hw, gates, lapic, redir, line0>>
        /\ pc \in {"magic", "elf"} /\ pc' \in {"framebuffer", "aborted", "interrupts"}
    BY <1>3 DEF CheckMultiboot, ReadElf
  <2> QED BY <2>1
<1>4. CASE \E scan \in Scans : Walk(scan)
  <2>1. PICK scan \in Scans : Walk(scan)
    BY <1>4
  <2>2. UNCHANGED <<hw, gates, lapic, redir, line0>> /\ pc \in Scans
    BY <2>1 DEF Walk
  <2>3. pc' \in Scans \cup {"elf", "aborted", "wild"}
    <3>1. scan \in {"framebuffer", "rsdp", "module"}
      BY DEF Scans
    <3>2. \A tag : AfterScan(scan, tag) \in {"rsdp", "module", "elf", "aborted"}
      BY <3>1 DEF AfterScan
    <3> QED BY <2>1, <2>2, <3>2 DEF Walk, NothingFound, Scans
  <2> QED BY <2>2, <2>3 DEF Scans
<1>5. CASE FindMadt \/ ParseEntry \/ CheckAddresses
  <2>1. /\ UNCHANGED <<hw, gates, lapic, redir, line0>>
        /\ pc \in {"apic", "madt", "addresses"}
        /\ pc' \in {"madt", "addresses", "aborted", "wild", "overrun", "init_apic"}
    BY <1>5 DEF FindMadt, ParseEntry, CheckAddresses
  <2> QED BY <2>1
<1>6. CASE CopyGdt \/ AddSegment \/ StoreBootId
  <2>1. /\ UNCHANGED <<hw, gates, lapic, redir, line0>>
        /\ pc \in {"gdt", "segments", "selectors"}
        /\ pc' \in {"segments", "selectors", "ioapic", "aborted", "faulted"}
    BY <1>6 DEF CopyGdt, AddSegment, StoreBootId
  <2> QED BY <2>1
<1>7. CASE AskTsc \/ Wake \/ AllOrNothing
  <2>1. /\ UNCHANGED <<hw, gates, lapic, redir, line0>>
        /\ pc \in {"tsc", "wake"}
        /\ pc' \in {"aborted", "sync divide", "wake", "reset", "main divide"}
    BY <1>7 DEF AskTsc, Wake, AllOrNothing, Ask
  <2> QED BY <2>1
<1> QED BY <1>1, <1>2, <1>3, <1>4, <1>5, <1>6, <1>7 DEF Next

\* Such a step changes nothing that the invariant says.
LEMMA QuietIrqs ==
  ASSUME IrqInv, IrqQuiet PROVE IrqInv'
<1>1. Routed' = Routed
  BY DEF IrqQuiet, Routed, WiredIn, SelectLastInSeq
<1> QED BY <1>1 DEF IrqInv, LapicInv, IrqQuiet

\* idt_init and the descriptors after it come before any vector is used.
LEMMA SetupIrqs ==
  ASSUME IrqInv, SetupInterrupts PROVE IrqInv'
<1>1. /\ pc = "interrupts" /\ pc' = "apic" /\ gates' = Gates
      /\ UNCHANGED <<hw, lapic, redir, line0>>
  BY DEF SetupInterrupts, Goto, Gates
<1>2. line0
  BY <1>1 DEF IrqInv, PastIoApic, Later
<1> QED BY <1>1, <1>2 DEF IrqInv, LapicInv, PastIoApic, Later

\* The steps of the local APIC before the IOAPIC is set up.
LEMMA LapicIrqs ==
  ASSUME IrqInv, InitApic \/ InitLapic PROVE IrqInv'
<1>1. /\ pc \in {"init_apic", "init_lapic"} /\ pc' \in {"init_lapic", "gdt", "aborted"}
      /\ UNCHANGED <<hw, gates, redir, line0>>
  BY DEF InitApic, InitLapic, GoOn, Goto, lapicUnchanged
<1>2. line0 /\ gates = Gates
  BY <1>1 DEF IrqInv, PastIoApic, Later, Gated, Listed
<1>3. LapicInv'
  <2>1. CASE InitApic
    <3>1. lapic' = lapic \/ \E w : lapic' = [lapic EXCEPT !.msr = w]
      BY <2>1 DEF InitApic
    <3> QED BY <1>1, <1>2, <3>1 DEF IrqInv, LapicInv
  <2>2. CASE InitLapic
    <3>1. \E l, t : lapic' = [lapic EXCEPT !.svr = SpuriousWord(lapic.svr), !.lint0 = l, !.tpr = t]
      BY <2>2 DEF InitLapic
    <3>2. SpuriousWord(lapic.svr) = SpuriousWord({})
      BY RegisterWords DEF IrqInv, LapicInv
    <3> QED BY <1>1, <1>2, <3>1, <3>2 DEF IrqInv, LapicInv
  <2> QED BY <2>1, <2>2
<1> QED BY <1>1, <1>2, <1>3 DEF IrqInv, PastIoApic, Later

\* The two timers: the one that interrupts has a descriptor.
LEMMA TimerIrqs ==
  ASSUME IrqInv, NEW timer \in DOMAIN Timers, StartTimer(timer) PROVE IrqInv'
<1>1. /\ pc \in {"sync divide", "sync lvt", "sync count",
                 "main divide", "main lvt", "main count"}
      /\ pc' \in {"sync lvt", "sync count", "wake", "main lvt", "main count", "done"}
  BY TimerPlaces
<1>2. UNCHANGED <<hw, gates, redir, line0>>
  BY DEF StartTimer, lapicUnchanged
<1>3. gates = Gates
  BY <1>1 DEF IrqInv, Gated, Listed, Later
<1>4. PICK step \in 1..3 : lapic' = start_timer(Timers[timer], step)
  BY DEF StartTimer
<1>5. step \in {1, 2, 3} /\ timer \in {"sync", "main"}
  BY DEF Timers
<1>6. \/ \E w : lapic' = [lapic EXCEPT !.divide = w]
      \/ lapic' = [lapic EXCEPT !.timer = TimerWord(Timers[timer])]
      \/ \E w : lapic' = [lapic EXCEPT !.initial = w]
  <2>1. CASE step = 1
    <3>1. lapic' = [lapic EXCEPT !.divide = Set(divide_configuration_register, {},
                                    [divide_configuration |-> Timers[timer].divide])]
      BY <1>4, <2>1 DEF start_timer
    <3> QED BY <3>1, Zenon
  <2>2. CASE step = 2
    BY <1>4, <2>2 DEF start_timer
  <2>3. CASE step = 3
    <3>1. lapic' = [lapic EXCEPT !.initial = Timers[timer].count]
      BY <1>4, <2>3 DEF start_timer
    <3> QED BY <3>1, Zenon
  <2> QED BY <1>5, <2>1, <2>2, <2>3
<1>7. TimerWord(Timers[timer]) \in {TimerWord(Timers.sync), TimerWord(Timers.main)}
  BY <1>5
<1>8. LapicInv'
  <2>1. CASE \E w : lapic' = [lapic EXCEPT !.divide = w]
    BY <1>2, <1>3, <2>1 DEF IrqInv, LapicInv
  <2>2. CASE lapic' = [lapic EXCEPT !.timer = TimerWord(Timers[timer])]
    BY <1>2, <1>3, <1>7, <2>2 DEF IrqInv, LapicInv
  <2>3. CASE \E w : lapic' = [lapic EXCEPT !.initial = w]
    BY <1>2, <1>3, <2>3 DEF IrqInv, LapicInv
  <2> QED BY <1>6, <2>1, <2>2, <2>3
<1>9. Routed' = Routed
  BY <1>2 DEF Routed, WiredIn, SelectLastInSeq
<1> QED BY <1>1, <1>2, <1>3, <1>8, <1>9 DEF IrqInv, PastIoApic, Later

\* init_io_apic writes the entries of the inputs that the firmware uses.
LEMMA IoApicIrqs ==
  ASSUME IrqInv, TablesInv, InitIoApic PROVE IrqInv'
<1>1. pc = "ioapic" /\ pc' \in {"tsc", "aborted", "overrun"} /\ UNCHANGED <<hw, gates, lapic>>
  BY DEF InitIoApic, Goto
<1>2. line0 /\ gates = Gates /\ redir = Masked
  BY <1>1 DEF IrqInv, PastIoApic, Gated, Listed, Later
<1>3. InputOf = [irq \in {0, 1, 12} |-> WiredIn(hw.madt, irq)]
  <2>1. hw \in Machines /\ ParsedInv /\ ListedTo(Len(hw.madt))
    BY <1>1 DEF TablesInv, MadtInv, Listed, Later
  <2>2. \A irq \in {0, 1, 12} : Routes(parsed)[irq] = WiredIn(hw.madt, irq)
    BY <2>1, RoutesAreWired
  <2> QED BY <2>2 DEF InputOf
<1>4. Routed' = Routed
  BY <1>1 DEF Routed, WiredIn, SelectLastInSeq
<1>5. \/ UNCHANGED <<redir, line0>>
      \/ redir' = Routed /\ line0' = FALSE
  BY <1>2, <1>3 DEF InitIoApic, Routed
<1>6. LapicInv'
  BY <1>1 DEF IrqInv, LapicInv
<1> QED BY <1>1, <1>2, <1>4, <1>5, <1>6 DEF IrqInv, PastIoApic, Later

\* Every step keeps the interrupts routed.
LEMMA IrqStep ==
  ASSUME IrqInv, TablesInv, [Next]_vars PROVE IrqInv'
<1>1. CASE UNCHANGED vars
  <2>1. IrqQuiet
    BY <1>1 DEF vars, IrqQuiet
  <2> QED BY <2>1, QuietIrqs
<1>2. CASE SetupInterrupts \/ InitApic \/ InitLapic \/ InitIoApic
           \/ \E timer \in DOMAIN Timers : StartTimer(timer)
  BY <1>2, SetupIrqs, LapicIrqs, IoApicIrqs, TimerIrqs
<1> QED BY <1>1, <1>2, IrqQuietSteps, QuietIrqs

\* write_redirection changes the vector of its own input.
LEMMA WritesEntry ==
  ASSUME NEW r, DOMAIN r = 16..63, NEW i \in Inputs, NEW w
  PROVE  /\ DOMAIN write_redirection(r, i, w) = 16..63
         /\ \A j \in Inputs : write_redirection(r, i, w)[get_offsets(j).low]
                                = IF j = i THEN EntryWord(w) ELSE r[get_offsets(j).low]
<1>1. \A j \in Inputs : /\ get_offsets(j).low \in 16..63 /\ get_offsets(i).high \in 16..63
                        /\ get_offsets(j).low # get_offsets(i).high
                        /\ (get_offsets(j).low = get_offsets(i).low <=> j = i)
  BY DEF Inputs, get_offsets
<1> QED BY <1>1 DEF write_redirection

\* The registers after init_io_apic: the inputs in use have their vectors, the
\* others are masked.
LEMMA RoutedEntries ==
  ASSUME NEW a \in Inputs, NEW b \in Inputs, NEW c \in Inputs, a # b, a # c, b # c,
         NEW g \in Inputs
  PROVE  init_io_apic(Masked, [irq \in {0, 1, 12} |-> IF irq = 0 THEN a ELSE
                                                      IF irq = 1 THEN b ELSE c])
           [get_offsets(g).low]
         = IF g = a THEN EntryWord(32) ELSE IF g = b THEN EntryWord(33)
           ELSE IF g = c THEN EntryWord(44) ELSE MaskedEntry
<1> DEFINE input == [irq \in {0, 1, 12} |-> IF irq = 0 THEN a ELSE IF irq = 1 THEN b ELSE c]
           low == get_offsets(g).low
<1>1. input[0] = a /\ input[1] = b /\ input[12] = c
  OBVIOUS
<1>2. DOMAIN Masked = 16..63 /\ Masked[low] = MaskedEntry
  BY DEF Masked, get_offsets, Inputs
<1>3. PICK r1 : r1 = write_redirection(Masked, a, 32)
  OBVIOUS
<1>4. PICK r2 : r2 = write_redirection(r1, b, 33)
  OBVIOUS
<1>5. PICK r3 : r3 = write_redirection(r2, c, 44)
  OBVIOUS
<1>6. init_io_apic(Masked, input) = r3
  BY <1>1, <1>3, <1>4, <1>5 DEF init_io_apic
<1>7. DOMAIN r1 = 16..63 /\ r1[low] = IF g = a THEN EntryWord(32) ELSE MaskedEntry
  BY <1>2, <1>3, WritesEntry
<1>8. DOMAIN r2 = 16..63 /\ r2[low] = IF g = b THEN EntryWord(33) ELSE r1[low]
  BY <1>4, <1>7, WritesEntry
<1>9. r3[low] = IF g = c THEN EntryWord(44) ELSE r2[low]
  BY <1>5, <1>8, WritesEntry
<1> QED BY <1>6, <1>7, <1>8, <1>9

\* The vectors of the local APIC have descriptors before they can be raised.
LEMMA LapicVectors ==
  ASSUME IrqInv
  PROVE  /\ Get(spurious_interrupt_vector_register, "apic_enable", lapic.svr) = 1
              => Get(spurious_interrupt_vector_register, "vector", lapic.svr) \in gates
         /\ Unmasked(lvt_timer_register, lapic.timer)
              => Get(lvt_timer_register, "vector_number", lapic.timer) \in gates
<1>1. 56 \in Gates /\ 58 \in Gates
  BY DEF Gates, idt_init
<1>2. ASSUME lapic.svr # {}
      PROVE  Get(spurious_interrupt_vector_register, "vector", lapic.svr) \in gates
  BY <1>1, <1>2, RegisterWords DEF IrqInv, LapicInv
<1>3. ASSUME Unmasked(lvt_timer_register, lapic.timer)
      PROVE  Get(lvt_timer_register, "vector_number", lapic.timer) \in gates
  <2>1. lapic.timer = TimerWord(Timers.main) /\ lapic.timer # TimerAtReset
    BY <1>3, RegisterWords DEF IrqInv, LapicInv, TimerAtReset
  <2>2. gates = Gates
    BY <2>1 DEF IrqInv, LapicInv
  <2>3. Get(lvt_timer_register, "vector_number", lapic.timer) = 58
    BY <2>1, RegisterWords
  <2> QED BY <1>1, <2>2, <2>3
<1>4. lapic.svr = {} => Get(spurious_interrupt_vector_register, "apic_enable", lapic.svr) # 1
  BY RegisterWords
<1> QED BY <1>2, <1>3, <1>4

\* On every machine whose firmware wires the three devices apart, each has the
\* one input that carries its vector, and every vector that can be raised has
\* a descriptor.
THEOREM IrqsStayRouted == Spec => []IrqsAreRouted
<1>1. Init => IrqInv
  <2> SUFFICES ASSUME Init PROVE IrqInv
    OBVIOUS
  <2>1. /\ pc = "cpuid" /\ line0 = TRUE /\ redir = Masked /\ lapic = LapicAtEntry(hw.msr)
    BY DEF Init, Masked
  <2>2. LapicInv
    BY <2>1 DEF LapicInv, LapicAtEntry, TimerAtReset
  <2> QED BY <2>1, <2>2 DEF IrqInv, Gated, Listed, Later
<1>2. IrqInv /\ TablesInv => IrqsAreRouted
  <2> SUFFICES ASSUME IrqInv, TablesInv PROVE IrqsAreRouted
    OBVIOUS
  <2>1. \A v \in {32, 33, 44} :
          /\ EntryWord(v) # MaskedEntry /\ Unmasked(redirection_entry_low, EntryWord(v))
          /\ Get(redirection_entry_low, "vector", EntryWord(v)) = v /\ v \in Gates
    BY RegisterWords DEF Gates, idt_init
  <2>2. CASE line0
    <3>1. \A g \in Inputs : EntryOf(g) = MaskedEntry
      <4>1. \A g \in Inputs : get_offsets(g).low \in get_offsets(0).low..get_offsets(23).high
        BY DEF Inputs, get_offsets
      <4> QED BY <2>2, <4>1 DEF IrqInv, EntryOf, Masked
    <3>2. Enabled = {}
      BY <3>1 DEF Enabled
    <3> QED BY <2>2, <3>2, LapicVectors DEF IrqsAreRouted
  <2>3. CASE ~line0
    <3> DEFINE a == WiredIn(hw.madt, 0)
               b == WiredIn(hw.madt, 1)
               c == WiredIn(hw.madt, 12)
    <3>1. a \in Inputs /\ b \in Inputs /\ c \in Inputs
      BY WiredToInputs DEF TablesInv
    <3>2. a # b /\ a # c /\ b # c
      BY CpuOf DEF TablesInv, WiredApart
    <3>3. [irq \in {0, 1, 12} |-> WiredIn(hw.madt, irq)]
            = [irq \in {0, 1, 12} |-> IF irq = 0 THEN a ELSE IF irq = 1 THEN b ELSE c]
      OBVIOUS
    <3>4. gates = Gates
          /\ redir = init_io_apic(Masked, [irq \in {0, 1, 12} |-> IF irq = 0 THEN a ELSE
                                                                  IF irq = 1 THEN b ELSE c])
      BY <2>3, <3>3 DEF IrqInv, Routed
    <3>5. a = WiredIn(hw.madt, 0) /\ b = WiredIn(hw.madt, 1) /\ c = WiredIn(hw.madt, 12)
      OBVIOUS
    <3> HIDE DEF a, b, c
    <3>6. \A g \in Inputs :
            EntryOf(g) = IF g = a THEN EntryWord(32) ELSE IF g = b THEN EntryWord(33)
                         ELSE IF g = c THEN EntryWord(44) ELSE MaskedEntry
      BY <3>1, <3>2, <3>4, RoutedEntries DEF EntryOf
    <3>7. Enabled = {a, b, c}
      BY <2>1, <3>1, <3>6 DEF Enabled
    <3>8. VectorOf(a) = 32 /\ VectorOf(b) = 33 /\ VectorOf(c) = 44
      BY <2>1, <3>1, <3>2, <3>6 DEF VectorOf
    <3>9. \A g \in Enabled : VectorOf(g) \in gates
      BY <2>1, <3>4, <3>7, <3>8
    <3>10. \A irq \in {0, 1, 12} :
             {g \in Enabled : VectorOf(g) = 32 + irq} = {WiredIn(hw.madt, irq)}
      <4>1. /\ {g \in Enabled : VectorOf(g) = 32} = {a}
            /\ {g \in Enabled : VectorOf(g) = 33} = {b}
            /\ {g \in Enabled : VectorOf(g) = 44} = {c}
        BY <3>7, <3>8
      <4>2. 32 + 0 = 32 /\ 32 + 1 = 33 /\ 32 + 12 = 44
        OBVIOUS
      <4> QED BY <3>5, <4>1, <4>2
    <3> QED BY <3>9, <3>10, LapicVectors DEF IrqsAreRouted
  <2> QED BY <2>2, <2>3
<1> QED BY <1>1, <1>2, TablesStart, IrqStep, TablesStep, PTL DEF Spec
=============================================================================
